----------------------------- MODULE Account_proofs -----------------------------
(* The session, the walk over addresses and the extension's worker, for any      *)
(* number of accounts, calls and edges: what is remembered of the account is of  *)
(* the one that is stored; the address remembered served last; one edge that     *)
(* serves is enough; a connection that was answered is served; and the changes   *)
(* to the router are made as AtomicUpdates promises.                             *)
EXTENDS Account, Sequences, Integers, TLAPS

--------------------------------------------------------------------------------
(* The walk: what its state is made of.                                          *)

Kinds  == {"serves", "resets", "silent"}
Faults == Kinds \cup {"torn", "aborted"}
Stops  == {"idle"} \cup Walk!Under \cup Walk!Ends

Walks == [stage : Stops, at : SUBSET Edges, torn : SUBSET Edges, left : SUBSET Edges,
          tried : Edges \cup {None}, silent : Nat, met : SUBSET Faults]

WalkType ==
    /\ edge \in [Edges -> Kinds] /\ last \in [Edges -> BOOLEAN]
    /\ good \in Edges \cup {None}
    /\ walk \in [Callers -> Walks]

(* Pools are open where an attempt is out, unless destroyed under it, and at the *)
(* address remembered: what takes the pool away takes the memory with it.        *)
Outside(attempt, pools) == attempt.at \ attempt.torn \subseteq pools

PoolsAreOpen ==
    /\ good # None => good \in agents
    /\ \A c \in Callers : Outside(walk[c], agents)

WalkInv == WalkType /\ PoolsAreOpen /\ RememberedServedLast

LEMMA WalksAre ==
    ASSUME NEW r \in Walks
    PROVE  /\ r.at \subseteq Edges /\ r.torn \subseteq Edges /\ r.left \subseteq Edges
           /\ r.tried \in Edges \cup {None} /\ r.silent \in Nat /\ r.met \subseteq Faults
           /\ r.stage \in Stops
  BY DEF Walks

LEMMA WalkOf ==
    ASSUME WalkType, NEW c \in Callers
    PROVE  /\ walk[c] \in Walks
           /\ \A a \in walk[c].at : a \in Edges /\ Walk!FaultAt(c, a) \in Faults
  BY DEF WalkType, Walks, Walk!FaultAt, Faults

(* A call ends.                                                                  *)
LEMMA EndsAreWalks ==
    ASSUME NEW end \in Stops, NEW met \in SUBSET Faults
    PROVE  Walk!EndOf(end, met) \in Walks /\ Walk!EndOf(end, met).at = {}
  BY DEF Walks, Walk!EndOf, Walk!Idle

(* What forgetPin leaves: the attempts still out have their pools, and the       *)
(* memory one of the pools that are left.                                        *)
LEMMA ForgetKeepsPools ==
    ASSUME WalkType, PoolsAreOpen, NEW c \in Callers, NEW r \in Walks,
           NEW pins \in SUBSET Edges, NEW fresh \in SUBSET Edges,
           Outside(r, agents \cup fresh), Walk!Forget(pins, fresh, [walk EXCEPT ![c] = r])
    PROVE  /\ PoolsAreOpen' /\ good' \in {good, None}
           /\ good' \notin pins \/ good' = None
           /\ walk' \in [Callers -> Walks]
  <1> DEFINE next == [walk EXCEPT ![c] = r]
  <1>1. walk' = [o \in Callers |-> [next[o] EXCEPT !.torn = @ \cup (pins \cap next[o].at)]]
    BY DEF Walk!Forget
  <1>2. next \in [Callers -> Walks] /\ \A o \in Callers : Outside(next[o], agents \cup fresh)
    BY DEF WalkType, PoolsAreOpen, Outside
  <1> HIDE DEF next
  <1>3. ASSUME NEW o \in Callers
        PROVE  /\ walk'[o] \in Walks /\ walk'[o].at = next[o].at
               /\ walk'[o].torn = next[o].torn \cup (pins \cap next[o].at)
    <2>1. walk'[o] = [next[o] EXCEPT !.torn = @ \cup (pins \cap next[o].at)]
      BY <1>1
    <2> QED  BY <1>2, <2>1 DEF Walks
  <1>4. agents' = (agents \ pins) \cup fresh
    BY DEF Walk!Forget
  <1>5. /\ good' \in {good, None}
        /\ good' # None => good' \in agents /\ good' \notin pins
    BY DEF Walk!Forget, PoolsAreOpen
  <1>6. \A o \in Callers : Outside(walk'[o], agents')
    BY <1>2, <1>3, <1>4 DEF Outside
  <1>7. walk' \in [Callers -> Walks]
    BY <1>1, <1>3
  <1> QED  BY <1>4, <1>5, <1>6, <1>7 DEF PoolsAreOpen

(* The pins of a failure that is thrown, and all of them if it condemns the host.*)
LEMMA ThrowKeepsPools ==
    ASSUME WalkType, PoolsAreOpen, NEW c \in Callers, NEW end \in Stops, NEW fault \in Faults,
           NEW met \in SUBSET Faults, NEW pins \in SUBSET Edges,
           Walk!Throw(c, end, fault, met, pins)
    PROVE  /\ PoolsAreOpen' /\ good' \in {good, None}
           /\ good' \notin pins \/ good' = None
           /\ walk' \in [Callers -> Walks]
  <1> DEFINE gone == IF fault \in Walk!AddressFaults THEN Edges ELSE pins
             r    == Walk!EndOf(end, met)
  <1>1. Walk!Forget(gone, {}, [walk EXCEPT ![c] = r])
    BY DEF Walk!Throw
  <1>2. gone \in SUBSET Edges /\ pins \subseteq gone
    OBVIOUS
  <1>3. r \in Walks /\ Outside(r, agents \cup {})
    BY EndsAreWalks DEF Outside
  <1> HIDE DEF gone, r
  <1>4. {} \in SUBSET Edges
    OBVIOUS
  <1>5. /\ PoolsAreOpen' /\ good' \in {good, None}
        /\ good' \notin gone \/ good' = None
        /\ walk' \in [Callers -> Walks]
    BY <1>1, <1>2, <1>3, <1>4, ForgetKeepsPools
  <1> QED  BY <1>2, <1>5

LEMMA FailKeepsPools ==
    ASSUME WalkType, PoolsAreOpen, NEW c \in Callers, NEW fault \in Faults,
           NEW met \in SUBSET Faults, NEW pins \in SUBSET Edges,
           Walk!Fail(c, fault, met, pins)
    PROVE  /\ PoolsAreOpen' /\ good' \in {good, None}
           /\ good' \notin pins \/ good' = None
           /\ walk' \in [Callers -> Walks]
  <1>1. {"failed", "thrown"} \subseteq Stops
    BY DEF Stops, Walk!Ends
  <1> QED  BY <1>1, ThrowKeepsPools DEF Walk!Fail

(* Whose attempt at a has ended unserved forgets a.                              *)
LEMMA Unserved ==
    ASSUME WalkInv, NEW a \in Edges, PoolsAreOpen', good' \in {good, None},
           good' # a \/ good' = None, walk' \in [Callers -> Walks], edge' = edge,
           last' \in {last, [last EXCEPT ![a] = FALSE]}
    PROVE  WalkInv'
  BY DEF WalkInv, WalkType, RememberedServedLast, Walk!RememberedServedLast

(* A call goes on, or ends, and takes no pool from anybody.                      *)
LEMMA Onward ==
    ASSUME WalkInv, NEW c \in Callers, NEW r \in Walks, walk' = [walk EXCEPT ![c] = r],
           agents \subseteq agents', Outside(r, agents'), edge' = edge,
           last' \in [Edges -> BOOLEAN], good' \in Edges \cup {None},
           good' # None => good' \in agents' /\ last'[good']
    PROVE  WalkInv'
  BY DEF WalkInv, WalkType, PoolsAreOpen, Outside, RememberedServedLast, Walk!RememberedServedLast

LEMMA WalkStarts == AccountInit => WalkInv
  BY InstancesSuit DEF AccountInit, WalkInv, WalkType, Walks, Kinds, Stops, PoolsAreOpen, Outside,
     RememberedServedLast, Walk!RememberedServedLast, Walk!Init, Walk!Idle, Walk!WalkAssumption

--------------------------------------------------------------------------------
(* Each step of a walk.                                                          *)

LEMMA Began == ASSUME WalkInv, NEW c \in Callers, Walk!Begin(c) PROVE WalkInv'
  <1> USE DEF WalkInv
  <1>1. CASE good # None /\ walk' = [walk EXCEPT ![c] = [Walk!Idle EXCEPT !.stage = "pinned", !.at = {good}]]
             /\ agents' = agents \cup {good} /\ UNCHANGED <<good, edge, last>>
    <2> DEFINE r == [Walk!Idle EXCEPT !.stage = "pinned", !.at = {good}]
    <2>1. r \in Walks /\ r.at = {good}
      BY <1>1 DEF WalkType, Walks, Stops, Walk!Under, Walk!Idle
    <2>2. Outside(r, agents') /\ walk' = [walk EXCEPT ![c] = r]
      BY <1>1, <2>1 DEF Outside
    <2> HIDE DEF r
    <2> QED  BY <1>1, <2>1, <2>2, Onward DEF WalkType, PoolsAreOpen, RememberedServedLast,
                Walk!RememberedServedLast
  <1>2. CASE walk' = [walk EXCEPT ![c] = [Walk!Idle EXCEPT !.stage = "resolving"]]
             /\ good' = None /\ UNCHANGED <<agents, edge, last>>
    <2> DEFINE r == [Walk!Idle EXCEPT !.stage = "resolving"]
    <2>1. r \in Walks /\ Outside(r, agents') /\ walk' = [walk EXCEPT ![c] = r]
      BY <1>2 DEF Walks, Stops, Outside, Walk!Under, Walk!Idle
    <2> HIDE DEF r
    <2> QED  BY <1>2, <2>1, Onward DEF WalkType
  <1> QED  BY <1>1, <1>2 DEF Walk!Begin

LEMMA PinnedFailed == ASSUME WalkInv, NEW c \in Callers, Walk!PinnedFails(c) PROVE WalkInv'
  <1> USE DEF WalkInv
  <1>1. PICK a \in walk[c].at :
            IF Walk!FaultAt(c, a) \in Walk!AddressFaults
            THEN /\ Walk!Forget({a}, {}, [walk EXCEPT ![c] = [Walk!Idle EXCEPT
                         !.stage = "resolving", !.tried = a, !.met = {Walk!FaultAt(c, a)}]])
                 /\ last' = [last EXCEPT ![a] = FALSE]
            ELSE Walk!Fail(c, Walk!FaultAt(c, a), {Walk!FaultAt(c, a)}, {}) /\ UNCHANGED last
    BY DEF Walk!PinnedFails
  <1> DEFINE fault == Walk!FaultAt(c, a)
             r     == [Walk!Idle EXCEPT !.stage = "resolving", !.tried = a, !.met = {fault}]
  <1>2. a \in Edges /\ fault \in Faults /\ edge' = edge
    BY WalkOf DEF Walk!PinnedFails
  <1>3. r \in Walks /\ Outside(r, agents \cup {}) /\ {a} \in SUBSET Edges /\ {} \in SUBSET Edges
        /\ {fault} \in SUBSET Faults
    BY <1>2 DEF Walks, Stops, Outside, Walk!Under, Walk!Idle
  <1>4. \/ Walk!Forget({a}, {}, [walk EXCEPT ![c] = r]) /\ last' = [last EXCEPT ![a] = FALSE]
        \/ Walk!Fail(c, fault, {fault}, {}) /\ last' = last
    BY <1>1
  <1> HIDE DEF fault, r
  <1>5. CASE Walk!Forget({a}, {}, [walk EXCEPT ![c] = r]) /\ last' = [last EXCEPT ![a] = FALSE]
    <2>1. PoolsAreOpen' /\ good' \in {good, None} /\ (good' # a \/ good' = None)
          /\ walk' \in [Callers -> Walks]
      BY <1>3, <1>5, ForgetKeepsPools
    <2> QED  BY <1>2, <1>5, <2>1, Unserved
  <1>6. CASE Walk!Fail(c, fault, {fault}, {}) /\ last' = last
    <2>1. PoolsAreOpen' /\ good' \in {good, None} /\ walk' \in [Callers -> Walks]
      BY <1>2, <1>3, <1>6, FailKeepsPools
    <2> QED  BY <1>2, <1>6, <2>1 DEF WalkType, RememberedServedLast, Walk!RememberedServedLast
  <1> QED  BY <1>4, <1>5, <1>6

LEMMA Resolved == ASSUME WalkInv, NEW c \in Callers, Walk!Resolve(c) PROVE WalkInv'
  <1> USE DEF WalkInv
  <1>1. PICK found \in {Edges \ {walk[c].tried}, {}} :
        \/ walk' = [walk EXCEPT ![c].stage = "plain"] /\ agents' = agents
        \/ /\ walk' = [walk EXCEPT ![c].stage = "racing", ![c].at = found]
           /\ agents' = agents \cup found
        \/ \E a \in found :
              /\ walk' = [walk EXCEPT ![c].stage = "walking", ![c].at = {a},
                                      ![c].left = found \ {a}]
              /\ agents' = agents \cup {a}
    BY DEF Walk!Resolve
  <1>2. UNCHANGED <<edge, good, last>> /\ found \in SUBSET Edges
    BY DEF Walk!Resolve
  <1>3. \E r \in Walks : walk' = [walk EXCEPT ![c] = r] /\ Outside(r, agents')
                         /\ agents \subseteq agents'
    <2>0. walk[c] \in Walks /\ Outside(walk[c], agents)
      BY WalkOf DEF PoolsAreOpen
    <2>1. CASE walk' = [walk EXCEPT ![c].stage = "plain"] /\ agents' = agents
      <3> DEFINE r == [walk[c] EXCEPT !.stage = "plain"]
      <3>1. r \in Walks /\ Outside(r, agents')
        BY <2>0, <2>1 DEF Walks, Stops, Outside, Walk!Under
      <3>2. walk' = [walk EXCEPT ![c] = r]
        BY <2>1
      <3> QED  BY <2>1, <3>1, <3>2
    <2>2. CASE /\ walk' = [walk EXCEPT ![c].stage = "racing", ![c].at = found]
               /\ agents' = agents \cup found
      <3> DEFINE r == [walk[c] EXCEPT !.stage = "racing", !.at = found]
      <3>1. r \in Walks /\ Outside(r, agents')
        BY <1>2, <2>0, <2>2 DEF Walks, Stops, Outside, Walk!Under
      <3>2. walk' = [walk EXCEPT ![c] = r]
        BY <2>2 DEF WalkType
      <3> QED  BY <2>2, <3>1, <3>2
    <2>3. ASSUME NEW a \in found, agents' = agents \cup {a},
                 walk' = [walk EXCEPT ![c].stage = "walking", ![c].at = {a},
                                      ![c].left = found \ {a}]
          PROVE  \E r \in Walks : walk' = [walk EXCEPT ![c] = r] /\ Outside(r, agents')
                                  /\ agents \subseteq agents'
      <3> DEFINE r == [walk[c] EXCEPT !.stage = "walking", !.at = {a}, !.left = found \ {a}]
      <3>1. r \in Walks /\ Outside(r, agents')
        BY <1>2, <2>0, <2>3 DEF Walks, Stops, Outside, Walk!Under
      <3>2. walk' = [walk EXCEPT ![c] = r]
        BY <2>3 DEF WalkType
      <3> QED  BY <2>3, <3>1, <3>2
    <2> QED  BY <1>1, <2>1, <2>2, <2>3
  <1> QED  BY <1>2, <1>3, Onward DEF WalkType, PoolsAreOpen, RememberedServedLast, Walk!RememberedServedLast

LEMMA PlainEnded == ASSUME WalkInv, NEW c \in Callers, Walk!PlainEnds(c) PROVE WalkInv'
  <1> USE DEF WalkInv
  <1>1. PICK a \in Edges :
            \/ walk' = [walk EXCEPT ![c] = Walk!EndOf("answered", {})] /\ UNCHANGED <<agents, good>>
            \/ Walk!Fail(c, edge[a], {edge[a]}, {})
    BY DEF Walk!PlainEnds
  <1>2. UNCHANGED <<edge, last>> /\ edge[a] \in Faults
    BY DEF Walk!PlainEnds, WalkType, Faults
  <1>3. CASE walk' = [walk EXCEPT ![c] = Walk!EndOf("answered", {})] /\ UNCHANGED <<agents, good>>
    <2>1. "answered" \in Stops /\ {} \in SUBSET Faults
      BY DEF Stops, Walk!Ends
    <2>2. Walk!EndOf("answered", {}) \in Walks /\ Outside(Walk!EndOf("answered", {}), agents')
      BY <2>1, EndsAreWalks DEF Outside
    <2> QED  BY <1>2, <1>3, <2>2, Onward DEF WalkType, PoolsAreOpen, RememberedServedLast,
                Walk!RememberedServedLast
  <1>4. CASE Walk!Fail(c, edge[a], {edge[a]}, {})
    <2>1. {edge[a]} \in SUBSET Faults /\ {} \in SUBSET Edges
      BY <1>2
    <2>2. PoolsAreOpen' /\ good' \in {good, None} /\ walk' \in [Callers -> Walks]
      BY <1>2, <1>4, <2>1, FailKeepsPools
    <2> QED  BY <1>2, <2>2 DEF WalkType, RememberedServedLast, Walk!RememberedServedLast
  <1> QED  BY <1>1, <1>3, <1>4

LEMMA WasServed == ASSUME WalkInv, NEW c \in Callers, Walk!Served(c) PROVE WalkInv'
  <1> USE DEF WalkInv
  <1>1. PICK a \in walk[c].at \ walk[c].torn :
            /\ last' = [last EXCEPT ![a] = TRUE]
            /\ good' \in {good, a}
    BY DEF Walk!Served
  <1>2. walk' = [walk EXCEPT ![c] = Walk!EndOf("answered", {})] /\ UNCHANGED <<edge, agents>>
    BY DEF Walk!Served
  <1>3. a \in Edges /\ a \in agents
    BY WalkOf DEF PoolsAreOpen, Outside
  <1>4. "answered" \in Stops /\ {} \in SUBSET Faults
    BY DEF Stops, Walk!Ends
  <1>5. Walk!EndOf("answered", {}) \in Walks /\ Outside(Walk!EndOf("answered", {}), agents')
    BY <1>4, EndsAreWalks DEF Outside
  <1>6. last' \in [Edges -> BOOLEAN] /\ good' \in Edges \cup {None}
        /\ (good' # None => good' \in agents' /\ last'[good'])
    BY <1>1, <1>2, <1>3 DEF WalkType, PoolsAreOpen, RememberedServedLast, Walk!RememberedServedLast
  <1> QED  BY <1>2, <1>5, <1>6, Onward

LEMMA WalkFailed == ASSUME WalkInv, NEW c \in Callers, Walk!WalkFails(c) PROVE WalkInv'
  <1> USE DEF WalkInv
  <1>1. PICK a \in walk[c].at :
          LET fault  == Walk!FaultAt(c, a)
              silent == walk[c].silent + (IF fault = "silent" THEN 1 ELSE 0)
          IN  /\ last' = IF fault = "torn" THEN last ELSE [last EXCEPT ![a] = FALSE]
              /\ \/ Walk!Fail(c, fault, walk[c].met \cup {fault}, {a})
                 \/ \E b \in walk[c].left :
                      Walk!Forget({a}, {b}, [walk EXCEPT ![c] = [walk[c] EXCEPT
                          !.at = {b}, !.torn = {}, !.left = @ \ {b},
                          !.silent = silent, !.met = @ \cup {fault}]])
    BY DEF Walk!WalkFails
  <1> DEFINE fault  == Walk!FaultAt(c, a)
             silent == walk[c].silent + (IF fault = "silent" THEN 1 ELSE 0)
             r(b)   == [walk[c] EXCEPT !.at = {b}, !.torn = {}, !.left = @ \ {b},
                                       !.silent = silent, !.met = @ \cup {fault}]
  <1>2. a \in Edges /\ fault \in Faults /\ edge' = edge /\ walk[c] \in Walks
    BY WalkOf DEF Walk!WalkFails
  <1>3. last' \in {last, [last EXCEPT ![a] = FALSE]}
    BY <1>1
  <1>4. \/ Walk!Fail(c, fault, walk[c].met \cup {fault}, {a})
        \/ \E b \in walk[c].left : Walk!Forget({a}, {b}, [walk EXCEPT ![c] = r(b)])
    BY <1>1
  <1>5. walk[c].silent \in Nat /\ walk[c].met \cup {fault} \in SUBSET Faults
        /\ walk[c].left \subseteq Edges
    BY <1>2, WalksAre
  <1>6. silent \in Nat
    BY <1>5
  <1> HIDE DEF fault, silent
  <1>7. ASSUME NEW b \in walk[c].left
        PROVE  r(b) \in Walks /\ Outside(r(b), agents \cup {b})
    BY <1>2, <1>5, <1>6 DEF Walks, Outside
  <1> HIDE DEF r
  <1>8. PoolsAreOpen' /\ good' \in {good, None} /\ (good' # a \/ good' = None)
        /\ walk' \in [Callers -> Walks]
    <2>1. CASE Walk!Fail(c, fault, walk[c].met \cup {fault}, {a})
      <3>1. {a} \in SUBSET Edges
        BY <1>2
      <3> QED  BY <1>2, <1>5, <2>1, <3>1, FailKeepsPools
    <2>2. ASSUME NEW b \in walk[c].left, Walk!Forget({a}, {b}, [walk EXCEPT ![c] = r(b)])
          PROVE  PoolsAreOpen' /\ good' \in {good, None} /\ (good' # a \/ good' = None)
                 /\ walk' \in [Callers -> Walks]
      <3>1. {a} \in SUBSET Edges /\ {b} \in SUBSET Edges
        BY <1>2, <1>5
      <3> QED  BY <1>7, <2>2, <3>1, ForgetKeepsPools
    <2> QED  BY <1>4, <2>1, <2>2
  <1> QED  BY <1>2, <1>3, <1>8, Unserved

LEMMA RaceFailed == ASSUME WalkInv, NEW c \in Callers, Walk!RaceFails(c) PROVE WalkInv'
  <1> USE DEF WalkInv
  <1>1. PICK a \in walk[c].at :
          LET fault == Walk!FaultAt(c, a)
          IN  /\ last' = IF fault = "torn" THEN last ELSE [last EXCEPT ![a] = FALSE]
              /\ \/ Walk!Forget({a}, {}, [walk EXCEPT ![c] = [walk[c] EXCEPT
                        !.at = @ \ {a}, !.torn = @ \ {a}, !.met = @ \cup {fault}]])
                 \/ \E thrown \in walk[c].met \cup {fault} :
                        Walk!Fail(c, thrown, walk[c].met \cup {fault}, {a})
    BY DEF Walk!RaceFails
  <1> DEFINE fault == Walk!FaultAt(c, a)
             met   == walk[c].met \cup {fault}
             r     == [walk[c] EXCEPT !.at = @ \ {a}, !.torn = @ \ {a}, !.met = @ \cup {fault}]
  <1>2. a \in Edges /\ fault \in Faults /\ edge' = edge /\ walk[c] \in Walks
        /\ Outside(walk[c], agents)
    BY WalkOf DEF Walk!RaceFails, PoolsAreOpen
  <1>3. last' \in {last, [last EXCEPT ![a] = FALSE]}
    BY <1>1
  <1>4. \/ Walk!Forget({a}, {}, [walk EXCEPT ![c] = r])
        \/ \E thrown \in met : Walk!Fail(c, thrown, met, {a})
    BY <1>1
  <1>5. met \in SUBSET Faults /\ {a} \in SUBSET Edges /\ {} \in SUBSET Edges
    BY <1>2, WalksAre
  <1> HIDE DEF fault
  <1>6. r \in Walks /\ Outside(r, agents \cup {})
    BY <1>2 DEF Walks, Outside
  <1> HIDE DEF r, met
  <1>7. PoolsAreOpen' /\ good' \in {good, None} /\ (good' # a \/ good' = None)
        /\ walk' \in [Callers -> Walks]
    <2>1. ASSUME NEW thrown \in met, Walk!Fail(c, thrown, met, {a})
          PROVE  PoolsAreOpen' /\ good' \in {good, None} /\ (good' # a \/ good' = None)
                 /\ walk' \in [Callers -> Walks]
      <3>1. thrown \in Faults
        BY <1>5
      <3> QED  BY <1>5, <2>1, <3>1, FailKeepsPools
    <2>2. CASE Walk!Forget({a}, {}, [walk EXCEPT ![c] = r])
      BY <1>5, <1>6, <2>2, ForgetKeepsPools
    <2> QED  BY <1>4, <2>1, <2>2
  <1> QED  BY <1>2, <1>3, <1>7, Unserved

LEMMA Aborted == ASSUME WalkInv, NEW c \in Callers, Walk!Abort(c) PROVE WalkInv'
  <1> USE DEF WalkInv
  <1> DEFINE pins == IF walk[c].stage = "racing" THEN walk[c].at ELSE {}
  <1>1. PICK fault \in {"silent", "aborted"} : Walk!Throw(c, "aborted", fault, walk[c].met, pins)
    BY DEF Walk!Abort
  <1>2. UNCHANGED <<edge, last>> /\ walk[c] \in Walks
    BY WalkOf DEF Walk!Abort
  <1>3. pins \in SUBSET Edges /\ walk[c].met \in SUBSET Faults
    BY <1>2, WalksAre
  <1>4. fault \in Faults /\ "aborted" \in Stops
    BY DEF Faults, Kinds, Stops, Walk!Ends
  <1> HIDE DEF pins
  <1>5. PoolsAreOpen' /\ good' \in {good, None} /\ walk' \in [Callers -> Walks]
    BY <1>1, <1>3, <1>4, ThrowKeepsPools
  <1> QED  BY <1>2, <1>5 DEF WalkType, RememberedServedLast, Walk!RememberedServedLast

LEMMA Shifted == ASSUME WalkInv, Walk!Shift PROVE WalkInv'
  BY DEF WalkInv, WalkType, Kinds, PoolsAreOpen, Outside, RememberedServedLast,
     Walk!RememberedServedLast, Walk!Shift

LEMMA WalkSteps == ASSUME WalkInv, [AccountNext]_accountVars PROVE WalkInv'
  <1>1. CASE Walk!Next
    BY <1>1, Began, PinnedFailed, Resolved, PlainEnded, WasServed, WalkFailed, RaceFailed, Aborted,
       Shifted DEF Walk!Next
  <1>2. CASE UNCHANGED walkVars
    BY <1>2 DEF walkVars, WalkInv, WalkType, PoolsAreOpen, Outside, RememberedServedLast,
       Walk!RememberedServedLast
  <1> QED  BY <1>1, <1>2 DEF AccountNext, accountVars

(* Whatever reads and writes overlap, over whatever edges, the address the calls *)
(* begin at next is one whose last attempt to end was served (lastGoodAddress,   *)
(* forgetPin).                                                                   *)
THEOREM PinsServedLast == AccountSpec => []RememberedServedLast
  <1>1. AccountInit => WalkInv
    BY WalkStarts
  <1>2. WalkInv /\ [AccountNext]_accountVars => WalkInv'
    BY WalkSteps
  <1>3. WalkInv => RememberedServedLast
    BY DEF WalkInv
  <1> QED  BY <1>1, <1>2, <1>3, PTL DEF AccountSpec

--------------------------------------------------------------------------------
(* A call that goes on has, or has yet to try, every edge that serves throughout,*)
(* unless it was torn from one.                                                  *)

Hunts(r) ==
    /\ r.stage = "resolving" => r.tried \notin Steady /\ r.silent = 0
    /\ r.stage = "racing" /\ "torn" \notin r.met => Steady \subseteq r.at
    /\ r.stage = "walking" =>
          /\ \A x, y \in r.at : x = y
          /\ r.silent < Patience
          /\ "torn" \notin r.met => Steady \subseteq r.at \cup r.left

HuntInv ==
    /\ WalkInv
    /\ \A a \in Steady : edge[a] = "serves"
    /\ \A c \in Callers : Hunts(walk[c])

AnsweredBy(c) ==
    /\ walk[c].stage \in {"pinned", "walking", "racing"}
    /\ walk'[c].stage \in {"failed", "thrown"}
    => \/ /\ walk[c].stage = "walking" /\ walk[c].silent + 1 = Patience
          /\ "silent" \in walk'[c].met
       \/ "torn" \in walk'[c].met

AllAnswered == \A c \in Callers : AnsweredBy(c)

(* What Hunts and AnsweredBy look at.                                            *)
SameHunt(r, s) ==
    r.stage = s.stage /\ r.at = s.at /\ r.left = s.left /\ r.tried = s.tried
    /\ r.silent = s.silent /\ r.met = s.met

LEMMA ForgetMoves ==
    ASSUME WalkType, NEW c \in Callers, NEW r \in Walks, NEW pins, NEW fresh,
           Walk!Forget(pins, fresh, [walk EXCEPT ![c] = r])
    PROVE  SameHunt(walk'[c], r) /\ \A o \in Callers \ {c} : SameHunt(walk'[o], walk[o])
  <1> DEFINE next == [walk EXCEPT ![c] = r]
  <1>1. walk' = [o \in Callers |-> [next[o] EXCEPT !.torn = @ \cup (pins \cap next[o].at)]]
    BY DEF Walk!Forget
  <1>2. next \in [Callers -> Walks] /\ next[c] = r /\ \A o \in Callers \ {c} : next[o] = walk[o]
    BY DEF WalkType
  <1> HIDE DEF next
  <1>3. ASSUME NEW o \in Callers PROVE SameHunt(walk'[o], next[o])
    <2>1. walk'[o] = [next[o] EXCEPT !.torn = @ \cup (pins \cap next[o].at)] /\ next[o] \in Walks
      BY <1>1, <1>2
    <2> QED  BY <2>1 DEF Walks, SameHunt
  <1> QED  BY <1>2, <1>3

LEMMA FailMoves ==
    ASSUME WalkType, NEW c \in Callers, NEW fault \in Faults,
           NEW met \in SUBSET Faults, NEW pins, Walk!Fail(c, fault, met, pins)
    PROVE  /\ walk'[c].stage \in {"failed", "thrown"} /\ walk'[c].met = met
           /\ \A o \in Callers \ {c} : SameHunt(walk'[o], walk[o])
  <1> DEFINE end  == IF fault \in Walk!AddressFaults THEN "failed" ELSE "thrown"
             gone == IF fault \in Walk!AddressFaults THEN Edges ELSE pins
             r    == Walk!EndOf(end, met)
  <1>1. Walk!Forget(gone, {}, [walk EXCEPT ![c] = r])
    BY DEF Walk!Fail, Walk!Throw
  <1>2. end \in Stops /\ r.stage = end /\ r.met = met /\ end \in {"failed", "thrown"}
    BY DEF Stops, Walk!Ends, Walk!EndOf, Walk!Idle
  <1>3. r \in Walks
    BY <1>2, EndsAreWalks
  <1> HIDE DEF end, gone, r
  <1> QED  BY <1>1, <1>2, <1>3, ForgetMoves DEF SameHunt

(* It is enough to look at the call that moves.                                  *)
LEMMA HuntGoesOn ==
    ASSUME HuntInv, NEW c \in Callers, WalkInv', edge' = edge,
           Hunts(walk'[c]), AnsweredBy(c),
           \A o \in Callers \ {c} : SameHunt(walk'[o], walk[o])
    PROVE  HuntInv' /\ AllAnswered
  <1>1. \A o \in Callers \ {c} : Hunts(walk'[o]) /\ AnsweredBy(o)
    BY DEF HuntInv, Hunts, AnsweredBy, SameHunt
  <1>2. Hunts(walk'[c]) /\ AnsweredBy(c)
    OBVIOUS
  <1> QED  BY <1>1, <1>2 DEF HuntInv, AllAnswered

LEMMA MovedWalk ==
    ASSUME WalkType, NEW c \in Callers, NEW r, walk' = [walk EXCEPT ![c] = r]
    PROVE  walk'[c] = r /\ \A o \in Callers \ {c} : SameHunt(walk'[o], walk[o])
  BY DEF WalkType, SameHunt

LEMMA HuntBegins ==
    ASSUME HuntInv, NEW c \in Callers, Walk!Begin(c) PROVE HuntInv' /\ AllAnswered
  <1> USE InstancesSuit DEF Walk!WalkAssumption
  <1>1. WalkInv' /\ edge' = edge /\ WalkType
    BY Began DEF HuntInv, WalkInv, Walk!Begin
  <1>2. CASE walk' = [walk EXCEPT ![c] = [Walk!Idle EXCEPT !.stage = "pinned", !.at = {good}]]
    <2> DEFINE r == [Walk!Idle EXCEPT !.stage = "pinned", !.at = {good}]
    <2>1. r.stage = "pinned"
      BY DEF Walk!Idle
    <2>2. walk' = [walk EXCEPT ![c] = r]
      BY <1>2
    <2> HIDE DEF r
    <2>3. walk'[c] = r /\ \A o \in Callers \ {c} : SameHunt(walk'[o], walk[o])
      BY <1>1, <2>2, MovedWalk
    <2> QED  BY <1>1, <2>1, <2>3, HuntGoesOn DEF Hunts, AnsweredBy
  <1>3. CASE walk' = [walk EXCEPT ![c] = [Walk!Idle EXCEPT !.stage = "resolving"]]
    <2> DEFINE r == [Walk!Idle EXCEPT !.stage = "resolving"]
    <2>1. r.stage = "resolving" /\ r.tried = None /\ r.silent = 0
      BY DEF Walk!Idle
    <2>2. walk' = [walk EXCEPT ![c] = r]
      BY <1>3
    <2> HIDE DEF r
    <2>3. walk'[c] = r /\ \A o \in Callers \ {c} : SameHunt(walk'[o], walk[o])
      BY <1>1, <2>2, MovedWalk
    <2> QED  BY <1>1, <2>1, <2>3, HuntGoesOn DEF Hunts, AnsweredBy
  <1> QED  BY <1>2, <1>3 DEF Walk!Begin

LEMMA HuntFromPin ==
    ASSUME HuntInv, NEW c \in Callers, Walk!PinnedFails(c) PROVE HuntInv' /\ AllAnswered
  <1>1. WalkInv' /\ edge' = edge /\ WalkType
    BY PinnedFailed DEF HuntInv, WalkInv, Walk!PinnedFails
  <1>2. PICK a \in walk[c].at :
            /\ Walk!FaultAt(c, a) # "serves"
            /\ IF Walk!FaultAt(c, a) \in Walk!AddressFaults
               THEN Walk!Forget({a}, {}, [walk EXCEPT ![c] = [Walk!Idle EXCEPT
                         !.stage = "resolving", !.tried = a, !.met = {Walk!FaultAt(c, a)}]])
               ELSE Walk!Fail(c, Walk!FaultAt(c, a), {Walk!FaultAt(c, a)}, {})
    BY DEF Walk!PinnedFails
  <1> DEFINE fault == Walk!FaultAt(c, a)
             r     == [Walk!Idle EXCEPT !.stage = "resolving", !.tried = a, !.met = {fault}]
  <1>3. a \in Edges /\ fault \in Faults
    BY <1>1, WalkOf
  <1>4. /\ fault = "torn" \/ fault = edge[a]
        /\ fault \notin Walk!AddressFaults => fault = "torn"
        /\ fault # "torn" => a \notin Steady
    BY <1>2, <1>3, <1>1 DEF Walk!FaultAt, Walk!AddressFaults, WalkType, Kinds, HuntInv
  <1>5. r \in Walks /\ r.stage = "resolving" /\ r.tried = a /\ r.silent = 0 /\ r.met = {fault}
    BY <1>3 DEF Walks, Stops, Walk!Under, Walk!Idle
  <1>6. \/ fault \in Walk!AddressFaults /\ Walk!Forget({a}, {}, [walk EXCEPT ![c] = r])
        \/ fault \notin Walk!AddressFaults /\ Walk!Fail(c, fault, {fault}, {})
    BY <1>2
  <1> HIDE DEF fault, r
  <1>7. CASE fault \in Walk!AddressFaults /\ Walk!Forget({a}, {}, [walk EXCEPT ![c] = r])
    <2>1. SameHunt(walk'[c], r) /\ \A o \in Callers \ {c} : SameHunt(walk'[o], walk[o])
      BY <1>1, <1>5, <1>7, ForgetMoves
    <2>2. a \notin Steady
      BY <1>4, <1>7 DEF Walk!AddressFaults
    <2>3. Hunts(walk'[c]) /\ AnsweredBy(c)
      BY <1>5, <2>1, <2>2 DEF SameHunt, Hunts, AnsweredBy
    <2> QED  BY <1>1, <2>1, <2>3, HuntGoesOn
  <1>8. CASE fault \notin Walk!AddressFaults /\ Walk!Fail(c, fault, {fault}, {})
    <2>1. /\ walk'[c].stage \in {"failed", "thrown"} /\ walk'[c].met = {fault}
          /\ \A o \in Callers \ {c} : SameHunt(walk'[o], walk[o])
      BY <1>1, <1>3, <1>8, FailMoves
    <2>2. Hunts(walk'[c]) /\ AnsweredBy(c)
      BY <1>4, <1>8, <2>1 DEF Hunts, AnsweredBy
    <2> QED  BY <1>1, <2>1, <2>2, HuntGoesOn
  <1> QED  BY <1>6, <1>7, <1>8

LEMMA HuntResolves ==
    ASSUME HuntInv, NEW c \in Callers, Walk!Resolve(c) PROVE HuntInv' /\ AllAnswered
  <1> USE InstancesSuit DEF Walk!WalkAssumption
  <1>1. WalkInv' /\ edge' = edge /\ WalkType /\ walk[c] \in Walks
    BY Resolved, WalkOf DEF HuntInv, WalkInv, Walk!Resolve
  <1>2. PICK found \in {Edges \ {walk[c].tried}, {}} :
        \/ walk' = [walk EXCEPT ![c].stage = "plain"]
        \/ /\ found # {}
           /\ walk' = [walk EXCEPT ![c].stage = "racing", ![c].at = found]
        \/ \E a \in found :
              walk' = [walk EXCEPT ![c].stage = "walking", ![c].at = {a}, ![c].left = found \ {a}]
    BY DEF Walk!Resolve
  <1>3. /\ walk[c].stage = "resolving" /\ walk[c].tried \notin Steady /\ walk[c].silent = 0
        /\ found # {} => Steady \subseteq found
    BY <1>2 DEF Walk!Resolve, HuntInv, Hunts
  <1>4. \E r : walk' = [walk EXCEPT ![c] = r] /\ Hunts(r) /\ r.stage \in {"plain", "racing", "walking"}
    <2>1. CASE walk' = [walk EXCEPT ![c].stage = "plain"]
      <3> DEFINE r == [walk[c] EXCEPT !.stage = "plain"]
      <3>1. Hunts(r) /\ r.stage = "plain"
        BY <1>1 DEF Walks, Hunts
      <3>2. walk' = [walk EXCEPT ![c] = r]
        BY <2>1
      <3> QED  BY <3>1, <3>2
    <2>2. CASE found # {} /\ walk' = [walk EXCEPT ![c].stage = "racing", ![c].at = found]
      <3> DEFINE r == [walk[c] EXCEPT !.stage = "racing", !.at = found]
      <3>1. Hunts(r) /\ r.stage = "racing"
        BY <1>1, <1>3, <2>2 DEF Walks, Hunts
      <3>2. walk' = [walk EXCEPT ![c] = r]
        BY <1>1, <2>2 DEF WalkType
      <3> QED  BY <3>1, <3>2
    <2>3. ASSUME NEW a \in found,
                 walk' = [walk EXCEPT ![c].stage = "walking", ![c].at = {a},
                                      ![c].left = found \ {a}]
          PROVE  \E r : walk' = [walk EXCEPT ![c] = r] /\ Hunts(r)
                        /\ r.stage \in {"plain", "racing", "walking"}
      <3> DEFINE r == [walk[c] EXCEPT !.stage = "walking", !.at = {a}, !.left = found \ {a}]
      <3>1. Hunts(r) /\ r.stage = "walking"
        BY <1>1, <1>3, <2>3 DEF Walks, Hunts
      <3>2. walk' = [walk EXCEPT ![c] = r]
        BY <1>1, <2>3 DEF WalkType
      <3> QED  BY <3>1, <3>2
    <2> QED  BY <1>2, <2>1, <2>2, <2>3
  <1>5. PICK r : walk' = [walk EXCEPT ![c] = r] /\ Hunts(r) /\ r.stage \in {"plain", "racing", "walking"}
    BY <1>4
  <1>6. walk'[c] = r /\ \A o \in Callers \ {c} : SameHunt(walk'[o], walk[o])
    BY <1>1, <1>5, MovedWalk
  <1> QED  BY <1>1, <1>5, <1>6, HuntGoesOn DEF AnsweredBy

LEMMA HuntOver ==
    ASSUME HuntInv, NEW c \in Callers, Walk!PlainEnds(c) \/ Walk!Served(c)
    PROVE  HuntInv' /\ AllAnswered
  <1>1. WalkInv' /\ edge' = edge /\ WalkType
    BY PlainEnded, WasServed DEF HuntInv, WalkInv, Walk!PlainEnds, Walk!Served
  <1>2. CASE walk' = [walk EXCEPT ![c] = Walk!EndOf("answered", {})]
    <2>1. Walk!EndOf("answered", {}).stage = "answered"
      BY DEF Walk!EndOf, Walk!Idle
    <2>2. /\ walk'[c] = Walk!EndOf("answered", {})
          /\ \A o \in Callers \ {c} : SameHunt(walk'[o], walk[o])
      BY <1>1, <1>2, MovedWalk
    <2> QED  BY <1>1, <2>1, <2>2, HuntGoesOn DEF Hunts, AnsweredBy
  <1>3. ASSUME NEW a \in Edges, walk[c].stage = "plain", Walk!Fail(c, edge[a], {edge[a]}, {})
        PROVE  HuntInv' /\ AllAnswered
    <2>1. edge[a] \in Faults /\ {edge[a]} \in SUBSET Faults
      BY <1>1 DEF WalkType, Faults
    <2>2. /\ walk'[c].stage \in {"failed", "thrown"}
          /\ \A o \in Callers \ {c} : SameHunt(walk'[o], walk[o])
      BY <1>1, <1>3, <2>1, FailMoves
    <2> QED  BY <1>1, <1>3, <2>2, HuntGoesOn DEF Hunts, AnsweredBy
  <1> QED  BY <1>2, <1>3 DEF Walk!PlainEnds, Walk!Served

LEMMA HuntWalksOn ==
    ASSUME HuntInv, NEW c \in Callers, Walk!WalkFails(c), Steady # {}
    PROVE  HuntInv' /\ AllAnswered
  <1>1. WalkInv' /\ edge' = edge /\ WalkType /\ walk[c] \in Walks /\ Hunts(walk[c])
        /\ walk[c].stage = "walking"
    BY WalkFailed, WalkOf DEF HuntInv, WalkInv, Walk!WalkFails
  <1>2. PICK a \in walk[c].at :
          LET fault  == Walk!FaultAt(c, a)
              silent == walk[c].silent + (IF fault = "silent" THEN 1 ELSE 0)
          IN  /\ fault # "serves"
              /\ \/ /\ fault \notin Walk!AddressFaults \/ walk[c].left = {} \/ silent = Patience
                    /\ Walk!Fail(c, fault, walk[c].met \cup {fault}, {a})
                 \/ /\ silent # Patience
                    /\ \E b \in walk[c].left :
                         Walk!Forget({a}, {b}, [walk EXCEPT ![c] = [walk[c] EXCEPT
                          !.at = {b}, !.torn = {}, !.left = @ \ {b},
                          !.silent = silent, !.met = @ \cup {fault}]])
    BY DEF Walk!WalkFails
  <1> DEFINE fault  == Walk!FaultAt(c, a)
             silent == walk[c].silent + (IF fault = "silent" THEN 1 ELSE 0)
             r(b)   == [walk[c] EXCEPT !.at = {b}, !.torn = {}, !.left = @ \ {b},
                                       !.silent = silent, !.met = @ \cup {fault}]
  <1>3. a \in Edges /\ fault \in Faults
    BY <1>1, WalkOf
  <1>4. /\ fault \notin Walk!AddressFaults => fault = "torn"
        /\ fault # "torn" => a \notin Steady
    BY <1>2, <1>3, <1>1 DEF Walk!FaultAt, Walk!AddressFaults, WalkType, Kinds, HuntInv
  <1>5. /\ walk[c].silent \in Nat /\ walk[c].met \cup {fault} \in SUBSET Faults
        /\ walk[c].left \subseteq Edges
    BY <1>1, <1>3, WalksAre
  <1>6. /\ silent \in Nat /\ walk[c].silent < Patience
        /\ silent = walk[c].silent \/ (silent = walk[c].silent + 1 /\ fault = "silent")
        /\ \A x, y \in walk[c].at : x = y
        /\ "torn" \notin walk[c].met => Steady \subseteq walk[c].at \cup walk[c].left
    BY <1>1, <1>5 DEF Hunts
  <1>7. Patience \in Nat
    BY InstancesSuit DEF Walk!WalkAssumption
  <1>8. \/ /\ fault \notin Walk!AddressFaults \/ walk[c].left = {} \/ silent = Patience
           /\ Walk!Fail(c, fault, walk[c].met \cup {fault}, {a})
        \/ /\ silent # Patience
           /\ \E b \in walk[c].left : Walk!Forget({a}, {b}, [walk EXCEPT ![c] = r(b)])
    BY <1>2
  <1> HIDE DEF fault, silent
  <1>9. CASE /\ fault \notin Walk!AddressFaults \/ walk[c].left = {} \/ silent = Patience
             /\ Walk!Fail(c, fault, walk[c].met \cup {fault}, {a})
    <2>1. /\ walk'[c].stage \in {"failed", "thrown"} /\ walk'[c].met = walk[c].met \cup {fault}
          /\ \A o \in Callers \ {c} : SameHunt(walk'[o], walk[o])
      BY <1>1, <1>3, <1>5, <1>9, FailMoves
    <2>2. AnsweredBy(c)
      <3>1. CASE fault = "torn"
        BY <2>1, <3>1 DEF AnsweredBy
      <3>2. CASE fault # "torn" /\ walk[c].left = {}
        <4>1. Steady \subseteq walk[c].at \/ "torn" \in walk[c].met
          BY <1>6, <3>2
        <4>2. "torn" \in walk[c].met
          BY <1>4, <1>6, <3>2, <4>1
        <4> QED  BY <2>1, <4>2 DEF AnsweredBy
      <3>3. CASE fault # "torn" /\ silent = Patience
        <4>1. walk[c].silent + 1 = Patience /\ fault = "silent"
          BY <1>5, <1>6, <1>7, <3>3
        <4> QED  BY <1>1, <2>1, <4>1 DEF AnsweredBy
      <3> QED  BY <1>4, <1>9, <3>1, <3>2, <3>3
    <2>3. Hunts(walk'[c])
      BY <2>1 DEF Hunts
    <2> QED  BY <1>1, <2>1, <2>2, <2>3, HuntGoesOn
  <1>10. ASSUME silent # Patience, NEW b \in walk[c].left,
                Walk!Forget({a}, {b}, [walk EXCEPT ![c] = r(b)])
         PROVE  HuntInv' /\ AllAnswered
    <2>1. /\ r(b) \in Walks /\ r(b).stage = "walking" /\ r(b).at = {b}
          /\ r(b).left = walk[c].left \ {b} /\ r(b).silent = silent
          /\ r(b).met = walk[c].met \cup {fault}
      BY <1>1, <1>5, <1>6 DEF Walks
    <2>2. silent < Patience
      BY <1>5, <1>6, <1>7, <1>10
    <2>3. "torn" \notin r(b).met => Steady \subseteq {b} \cup (walk[c].left \ {b})
      BY <1>4, <1>6, <2>1
    <2>4. Hunts(r(b))
      BY <2>1, <2>2, <2>3 DEF Hunts
    <2> HIDE DEF r
    <2>5. SameHunt(walk'[c], r(b)) /\ \A o \in Callers \ {c} : SameHunt(walk'[o], walk[o])
      BY <1>1, <1>10, <2>1, ForgetMoves
    <2>6. Hunts(walk'[c]) /\ AnsweredBy(c)
      BY <2>1, <2>4, <2>5 DEF SameHunt, Hunts, AnsweredBy
    <2> QED  BY <1>1, <2>5, <2>6, HuntGoesOn
  <1> QED  BY <1>8, <1>9, <1>10

LEMMA HuntRacesOn ==
    ASSUME HuntInv, NEW c \in Callers, Walk!RaceFails(c), Steady # {}
    PROVE  HuntInv' /\ AllAnswered
  <1>1. WalkInv' /\ edge' = edge /\ WalkType /\ walk[c] \in Walks /\ Hunts(walk[c])
        /\ walk[c].stage = "racing"
    BY RaceFailed, WalkOf DEF HuntInv, WalkInv, Walk!RaceFails
  <1>2. PICK a \in walk[c].at :
          LET fault == Walk!FaultAt(c, a)
          IN  /\ fault # "serves"
              /\ \/ Walk!Forget({a}, {}, [walk EXCEPT ![c] = [walk[c] EXCEPT
                        !.at = @ \ {a}, !.torn = @ \ {a}, !.met = @ \cup {fault}]])
                 \/ /\ walk[c].at = {a}
                    /\ \E thrown \in walk[c].met \cup {fault} :
                        Walk!Fail(c, thrown, walk[c].met \cup {fault}, {a})
    BY DEF Walk!RaceFails
  <1> DEFINE fault == Walk!FaultAt(c, a)
             met   == walk[c].met \cup {fault}
             r     == [walk[c] EXCEPT !.at = @ \ {a}, !.torn = @ \ {a}, !.met = @ \cup {fault}]
  <1>3. a \in Edges /\ fault \in Faults
    BY <1>1, WalkOf
  <1>4. fault # "torn" => a \notin Steady
    BY <1>2, <1>3, <1>1 DEF Walk!FaultAt, WalkType, Kinds, HuntInv
  <1>5. met \in SUBSET Faults
    BY <1>1, <1>3, WalksAre
  <1>6. "torn" \notin met => Steady \subseteq walk[c].at \ {a}
    BY <1>1, <1>4 DEF Hunts
  <1>7. \/ Walk!Forget({a}, {}, [walk EXCEPT ![c] = r])
        \/ walk[c].at = {a} /\ \E thrown \in met : Walk!Fail(c, thrown, met, {a})
    BY <1>2
  <1> HIDE DEF fault
  <1>8. CASE Walk!Forget({a}, {}, [walk EXCEPT ![c] = r])
    <2>1. /\ r \in Walks /\ r.stage = "racing" /\ r.at = walk[c].at \ {a} /\ r.met = met
      BY <1>1, <1>3 DEF Walks
    <2>2. Hunts(r)
      BY <1>6, <2>1 DEF Hunts
    <2> HIDE DEF r
    <2>3. SameHunt(walk'[c], r) /\ \A o \in Callers \ {c} : SameHunt(walk'[o], walk[o])
      BY <1>1, <1>8, <2>1, ForgetMoves
    <2>4. Hunts(walk'[c]) /\ AnsweredBy(c)
      BY <2>1, <2>2, <2>3 DEF SameHunt, Hunts, AnsweredBy
    <2> QED  BY <1>1, <2>3, <2>4, HuntGoesOn
  <1>9. ASSUME walk[c].at = {a}, NEW thrown \in met, Walk!Fail(c, thrown, met, {a})
        PROVE  HuntInv' /\ AllAnswered
    <2>1. "torn" \in met /\ thrown \in Faults
      BY <1>5, <1>6, <1>9
    <2>2. /\ walk'[c].stage \in {"failed", "thrown"} /\ walk'[c].met = met
          /\ \A o \in Callers \ {c} : SameHunt(walk'[o], walk[o])
      BY <1>1, <1>5, <1>9, <2>1, FailMoves
    <2> QED  BY <1>1, <2>1, <2>2, HuntGoesOn DEF Hunts, AnsweredBy
  <1> QED  BY <1>7, <1>8, <1>9

LEMMA HuntAborted ==
    ASSUME HuntInv, NEW c \in Callers, Walk!Abort(c) PROVE HuntInv' /\ AllAnswered
  <1>1. WalkInv' /\ edge' = edge /\ WalkType /\ walk[c] \in Walks
    BY Aborted, WalkOf DEF HuntInv, WalkInv, Walk!Abort
  <1> DEFINE r == Walk!EndOf("aborted", walk[c].met)
  <1>2. \E gone : Walk!Forget(gone, {}, [walk EXCEPT ![c] = r])
    BY DEF Walk!Abort, Walk!Throw
  <1>3. "aborted" \in Stops /\ walk[c].met \in SUBSET Faults /\ r.stage = "aborted"
    BY <1>1, WalksAre DEF Stops, Walk!Ends, Walk!EndOf, Walk!Idle
  <1>4. r \in Walks
    BY <1>3, EndsAreWalks
  <1> HIDE DEF r
  <1>5. SameHunt(walk'[c], r) /\ \A o \in Callers \ {c} : SameHunt(walk'[o], walk[o])
    BY <1>1, <1>2, <1>4, ForgetMoves
  <1>6. Hunts(walk'[c]) /\ AnsweredBy(c)
    BY <1>3, <1>5 DEF SameHunt, Hunts, AnsweredBy
  <1> QED  BY <1>1, <1>5, <1>6, HuntGoesOn

LEMMA HuntSteps ==
    ASSUME HuntInv, [AccountNext]_accountVars, Steady # {} PROVE HuntInv' /\ AllAnswered
  <1>1. CASE Walk!Next
    <2>1. CASE Walk!Shift
      <3>1. WalkInv' /\ walk' = walk
        BY <2>1, Shifted DEF HuntInv, Walk!Shift
      <3>2. \A a \in Steady : edge'[a] = "serves"
        BY <2>1, InstancesSuit DEF HuntInv, WalkInv, WalkType, Walk!Shift, Walk!WalkAssumption
      <3> QED  BY <3>1, <3>2 DEF HuntInv, AllAnswered, AnsweredBy
    <2> QED  BY <1>1, <2>1, HuntBegins, HuntFromPin, HuntResolves, HuntOver, HuntWalksOn,
                HuntRacesOn, HuntAborted DEF Walk!Next
  <1>2. CASE UNCHANGED walkVars
    <2>1. WalkInv'
      BY WalkSteps DEF HuntInv
    <2> QED  BY <1>2, <2>1 DEF HuntInv, walkVars, AllAnswered, AnsweredBy
  <1> QED  BY <1>1, <1>2 DEF AccountNext, accountVars

(* Where one edge serves throughout, a read or a write that its caller did not   *)
(* give up fails only if the walk was spent on silent edges, or another call     *)
(* destroyed the pool it was using (resilientFetch).                             *)
THEOREM OneServingEdgeIsEnough ==
    ASSUME Steady # {} PROVE AccountSpec => Walk!AnsweredWhereAnEdgeServes
  <1>1. AccountInit => HuntInv
    <2> SUFFICES ASSUME AccountInit PROVE HuntInv
      OBVIOUS
    <2>1. WalkInv
      BY WalkStarts
    <2>2. (\A a \in Steady : edge[a] = "serves") /\ \A c \in Callers : walk[c].stage = "idle"
      BY DEF AccountInit, Walk!Init, Walk!Idle
    <2> QED  BY <2>1, <2>2 DEF HuntInv, Hunts
  <1>2. HuntInv /\ [AccountNext]_accountVars => HuntInv' /\ AllAnswered
    BY HuntSteps
  <1>3. AllAnswered => [\A c \in Callers :
            /\ walk[c].stage \in {"pinned", "walking", "racing"}
            /\ walk'[c].stage \in {"failed", "thrown"}
            => \/ /\ walk[c].stage = "walking" /\ walk[c].silent + 1 = Patience
                  /\ "silent" \in walk'[c].met
               \/ "torn" \in walk'[c].met]_<<edge, agents, good, last, walk>>
    BY DEF AllAnswered, AnsweredBy
  <1> QED  BY <1>1, <1>2, <1>3, PTL DEF AccountSpec, Walk!AnsweredWhereAnEdgeServes, Walk!vars

--------------------------------------------------------------------------------
(* The session.  A call not counted among the old works for the account that is  *)
(* stored: its refresh started from it, or its token is of it.                   *)

AllCalls  == Reads \cup Changes
CallStates == [stage : Session!Stages, base : Session!Cookies \cup AllCalls \cup {None},
               cookie : Session!Cookies \cup {None}, again : BOOLEAN]

SessionType ==
    /\ store \in Session!Cookies \cup {None} /\ cached \in Session!Cookies \cup {None}
    /\ call \in [AllCalls -> CallStates]
    /\ issued \in [Accounts -> 0 .. MaxIssued]
    /\ spoiled \in BOOLEAN

Asking(c) == call[c].stage \in {"asking", "told"}
OfStored(cookie) == store # None /\ cookie.account = store.account

(* Who shares a refresh that an old call began is old too.                       *)
SharersFollow ==
    /\ sharing # None => sharing \in Reads /\ Asking(sharing)
    /\ \A c \in AllCalls : call[c].stage = "sharing" =>
          /\ call[c].base \in AllCalls /\ Asking(call[c].base)
          /\ call[c].base \in old => c \in old

CallHolds(c) ==
    /\ call[c].stage = "asking" => call[c].base \in Session!Cookies
    /\ call[c].stage \in {"listing", "working"} => call[c].cookie # None

CallIsOfStored(c) ==
    /\ call[c].stage = "asking" => OfStored(call[c].base)
    /\ call[c].stage \in {"told", "listing", "working"} /\ call[c].cookie # None
          => OfStored(call[c].cookie)

CallsAreOfStored == ~spoiled => \A c \in AllCalls \ old : CallIsOfStored(c)

SessionInv ==
    /\ SessionType /\ SharersFollow /\ \A c \in AllCalls : CallHolds(c)
    /\ CallsAreOfStored /\ CachesAreTheAccounts

LEMMA SessionStarts == AccountInit => SessionInv
  <1> SUFFICES ASSUME AccountInit PROVE SessionInv
    OBVIOUS
  <1> USE InstancesSuit DEF Session!SessionAssumption
  <1>1. SessionType
    <2>1. 0 \in 0 .. MaxIssued /\ [account : Accounts, token : {0}] \subseteq Session!Cookies
      BY DEF Session!Cookies
    <2>2. store \in Session!Cookies \cup {None} /\ cached = None /\ spoiled = FALSE
      BY <2>1 DEF AccountInit, Session!Init
    <2>3. issued \in [Accounts -> 0 .. MaxIssued]
      BY <2>1 DEF AccountInit, Session!Init
    <2>4. call \in [AllCalls -> CallStates]
      BY DEF AccountInit, Session!Init, CallStates, Session!Stages, Session!Idle, Session!Calls, AllCalls
    <2> QED  BY <2>2, <2>3, <2>4 DEF SessionType
  <1>2. \A c \in AllCalls : call[c].stage = "idle"
    BY DEF AccountInit, Session!Init, Session!Idle, Session!Calls, AllCalls
  <1>3. sharing = None /\ cached = None /\ ids = None
    BY DEF AccountInit, Session!Init
  <1> QED  BY <1>1, <1>2, <1>3 DEF SessionInv, SharersFollow, CallHolds, CallsAreOfStored, CallIsOfStored,
              CachesAreTheAccounts, Session!CachesAreTheAccounts

(* One call moves on.                                                            *)
LEMMA OneMoves ==
    ASSUME SessionType, NEW c \in AllCalls, NEW r \in CallStates, call' = [call EXCEPT ![c] = r]
    PROVE  /\ call' \in [AllCalls -> CallStates] /\ call'[c] = r
           /\ \A o \in AllCalls \ {c} : call'[o] = call[o]
  BY DEF SessionType

LEMMA CallOf ==
    ASSUME SessionType, NEW c \in AllCalls
    PROVE  /\ call[c] \in CallStates
           /\ call[c].stage \in Session!Stages /\ call[c].cookie \in Session!Cookies \cup {None}
           /\ call[c].base \in Session!Cookies \cup AllCalls \cup {None} /\ call[c].again \in BOOLEAN
  BY DEF SessionType, CallStates

LEMMA Endings ==
    /\ \A end \in Session!Stages : \A c \in AllCalls :
           Session!End(c, end) \in CallStates /\ Session!End(c, end).stage = end
    /\ \A c \in AllCalls : /\ Session!Missed(c) \in CallStates
                           /\ Session!Missed(c).stage \in {"begin", "notConnected"}
  BY DEF Session!End, Session!Missed, CallStates, Session!Idle, Session!Stages

(* A call that nobody shares goes on to something nobody shares.                 *)
LEMMA QuietMove ==
    ASSUME SessionInv, NEW c \in AllCalls, ~Asking(c), NEW r \in CallStates,
           call' = [call EXCEPT ![c] = r],
           r.stage \notin {"asking", "told", "sharing"},
           r.stage \in {"listing", "working"} => r.cookie # None /\ (spoiled \/ c \in old \/ OfStored(r.cookie)),
           UNCHANGED <<store, cached, sharing, issued, old>>,
           spoiled' \in BOOLEAN, spoiled => spoiled',
           CachesAreTheAccounts'
    PROVE  SessionInv'
  <1> USE DEF SessionInv
  <1>1. /\ call' \in [AllCalls -> CallStates] /\ call'[c] = r
        /\ \A o \in AllCalls \ {c} : call'[o] = call[o]
    BY OneMoves
  <1>2. SessionType'
    BY <1>1 DEF SessionType
  <1>3. SharersFollow'
    BY <1>1 DEF SharersFollow, Asking
  <1>4. (\A o \in AllCalls : CallHolds(o))'
    BY <1>1 DEF CallHolds
  <1>5. CallsAreOfStored'
    BY <1>1 DEF CallsAreOfStored, CallIsOfStored, OfStored
  <1> QED  BY <1>2, <1>3, <1>4, <1>5

LEMMA Begins == ASSUME SessionInv, NEW c \in AllCalls, Session!Begin(c) PROVE SessionInv'
  <1> DEFINE r == [call[c] EXCEPT !.stage = "begin"]
  <1>1. r \in CallStates /\ r.stage = "begin"
    BY CallOf DEF SessionInv, CallStates, Session!Stages
  <1>2. call' = [call EXCEPT ![c] = r] /\ call[c].stage = "idle"
        /\ UNCHANGED <<store, cached, ids, sharing, issued, old, spoiled>>
    BY DEF Session!Begin, Session!session, Session!starlink
  <1>3. CachesAreTheAccounts'
    BY <1>2 DEF SessionInv, CachesAreTheAccounts, Session!CachesAreTheAccounts
  <1> HIDE DEF r
  <1> QED  BY <1>1, <1>2, <1>3, QuietMove DEF SessionInv, SessionType, Asking

LEMMA HasNoSession == ASSUME SessionInv, NEW c \in AllCalls, Session!NoSession(c) PROVE SessionInv'
  <1> DEFINE r == Session!End(c, "notConnected")
  <1>1. r \in CallStates /\ r.stage = "notConnected"
    BY Endings DEF Session!Stages
  <1>2. call' = [call EXCEPT ![c] = r] /\ call[c].stage = "begin"
        /\ UNCHANGED <<store, cached, ids, sharing, issued, old, spoiled>>
    BY DEF Session!NoSession, Session!session, Session!starlink
  <1>3. CachesAreTheAccounts'
    BY <1>2 DEF SessionInv, CachesAreTheAccounts, Session!CachesAreTheAccounts
  <1> HIDE DEF r
  <1> QED  BY <1>1, <1>2, <1>3, QuietMove DEF SessionInv, SessionType, Asking

LEMMA UsesCached == ASSUME SessionInv, NEW c \in AllCalls, Session!UseCached(c) PROVE SessionInv'
  <1> DEFINE r == [call[c] EXCEPT !.stage = "listing", !.cookie = cached]
  <1>1. r \in CallStates /\ r.stage = "listing" /\ r.cookie = cached
    BY CallOf DEF SessionInv, SessionType, CallStates, Session!Stages
  <1>2. call' = [call EXCEPT ![c] = r] /\ call[c].stage = "begin" /\ cached # None
        /\ UNCHANGED <<store, cached, ids, sharing, issued, old, spoiled>>
    BY DEF Session!UseCached, Session!session, Session!starlink, SessionInv, SessionType
  <1>3. CachesAreTheAccounts'
    BY <1>2 DEF SessionInv, CachesAreTheAccounts, Session!CachesAreTheAccounts
  <1>4. spoiled \/ OfStored(cached)
    BY <1>2 DEF SessionInv, CachesAreTheAccounts, Session!CachesAreTheAccounts, OfStored
  <1> HIDE DEF r
  <1> QED  BY <1>1, <1>2, <1>3, <1>4, QuietMove DEF SessionInv, SessionType, Asking

LEMMA TurnedAway ==
    ASSUME SessionInv, NEW c \in AllCalls, Session!Turned(c, {"listing", "working"})
    PROVE  SessionInv'
  <1> DEFINE r == Session!Missed(c)
  <1>1. r \in CallStates /\ r.stage \in {"begin", "notConnected"}
    BY Endings
  <1>2. call' = [call EXCEPT ![c] = r] /\ call[c].stage \in {"listing", "working"}
        /\ UNCHANGED <<store, cached, ids, sharing, issued, old, spoiled>>
    BY DEF Session!Turned, Session!session, Session!starlink
  <1>3. CachesAreTheAccounts'
    BY <1>2 DEF SessionInv, CachesAreTheAccounts, Session!CachesAreTheAccounts
  <1> HIDE DEF r
  <1> QED  BY <1>1, <1>2, <1>3, QuietMove DEF SessionInv, SessionType, Asking

LEMMA HasListed == ASSUME SessionInv, NEW c \in AllCalls, Session!Listed(c) PROVE SessionInv'
  <1> USE DEF SessionInv
  <1> DEFINE r == [call[c] EXCEPT !.stage = "working"]
  <1>1. r \in CallStates /\ r.stage = "working" /\ r.cookie = call[c].cookie
    BY CallOf DEF CallStates, Session!Stages
  <1>2. call' = [call EXCEPT ![c] = r] /\ call[c].stage = "listing"
        /\ UNCHANGED <<store, cached, sharing, issued, old>>
        /\ ids' = (IF ids # None THEN ids ELSE call[c].cookie.account)
        /\ spoiled' = (spoiled \/ (ids = None /\ c \in old))
    BY DEF Session!Listed, Session!starlink
  <1>3. call[c].cookie # None /\ (spoiled \/ c \in old \/ OfStored(call[c].cookie))
    BY <1>2 DEF CallHolds, CallsAreOfStored, CallIsOfStored
  <1>4. CachesAreTheAccounts'
    BY <1>2, <1>3 DEF CachesAreTheAccounts, Session!CachesAreTheAccounts, OfStored
  <1>5. spoiled' \in BOOLEAN /\ (spoiled => spoiled')
    BY <1>2 DEF SessionType
  <1> HIDE DEF r
  <1> QED  BY <1>1, <1>2, <1>3, <1>4, <1>5, QuietMove DEF Asking

LEMMA HasWorked == ASSUME SessionInv, NEW c \in AllCalls, Session!Worked(c) PROVE SessionInv'
  <1> DEFINE r == Session!End(c, "ok")
  <1>1. r \in CallStates /\ r.stage = "ok"
    BY Endings DEF Session!Stages
  <1>2. call' = [call EXCEPT ![c] = r] /\ call[c].stage = "working"
        /\ UNCHANGED <<store, cached, ids, sharing, issued, old, spoiled>>
    BY DEF Session!Worked, Session!session, Session!starlink
  <1>3. CachesAreTheAccounts'
    BY <1>2 DEF SessionInv, CachesAreTheAccounts, Session!CachesAreTheAccounts
  <1> HIDE DEF r
  <1> QED  BY <1>1, <1>2, <1>3, QuietMove DEF SessionInv, SessionType, Asking

(* A read shares a refresh that is under way; a call begins one of its own.      *)
LEMMA Shares == ASSUME SessionInv, NEW c \in AllCalls, Session!Share(c) PROVE SessionInv'
  <1> USE DEF SessionInv
  <1> DEFINE r == [call[c] EXCEPT !.stage = "sharing", !.base = sharing]
  <1>1. call' = [call EXCEPT ![c] = r] /\ call[c].stage = "begin" /\ sharing # None
        /\ UNCHANGED <<store, cached, ids, sharing, issued, spoiled>>
        /\ old' = (IF sharing \in old THEN old \cup {c} ELSE old)
    BY DEF Session!Share, Session!Shares, Session!Misses, Session!session, Session!starlink, SessionType
  <1>2. sharing \in AllCalls /\ Asking(sharing)
    BY <1>1 DEF SharersFollow, AllCalls
  <1>3. r \in CallStates /\ r.stage = "sharing" /\ r.base = sharing
    BY <1>2, CallOf DEF CallStates, Session!Stages
  <1> HIDE DEF r
  <1>4. /\ call' \in [AllCalls -> CallStates] /\ call'[c] = r
        /\ \A o \in AllCalls \ {c} : call'[o] = call[o]
    BY <1>1, <1>3, OneMoves
  <1>5. SessionType'
    BY <1>1, <1>4 DEF SessionType
  <1>6. SharersFollow'
    BY <1>1, <1>2, <1>3, <1>4 DEF SharersFollow, Asking
  <1>7. (\A o \in AllCalls : CallHolds(o))'
    BY <1>1, <1>3, <1>4 DEF CallHolds
  <1>8. CallsAreOfStored'
    BY <1>1, <1>3, <1>4 DEF CallsAreOfStored, CallIsOfStored, OfStored
  <1>9. CachesAreTheAccounts'
    BY <1>1 DEF CachesAreTheAccounts, Session!CachesAreTheAccounts
  <1> QED  BY <1>5, <1>6, <1>7, <1>8, <1>9

LEMMA Refreshes == ASSUME SessionInv, NEW c \in AllCalls, Session!Refresh(c) PROVE SessionInv'
  <1> USE DEF SessionInv
  <1> DEFINE r == [call[c] EXCEPT !.stage = "asking", !.base = store]
  <1>1. call' = [call EXCEPT ![c] = r] /\ call[c].stage = "begin" /\ store # None
        /\ UNCHANGED <<store, cached, ids, issued, old, spoiled>>
        /\ sharing' = (IF c \in Reads THEN c ELSE sharing)
    BY DEF Session!Refresh, Session!Misses, Session!starlink, SessionType
  <1>2. store \in Session!Cookies
    BY <1>1 DEF SessionType
  <1>3. r \in CallStates /\ r.stage = "asking" /\ r.base = store
    BY <1>2, CallOf DEF CallStates, Session!Stages
  <1> HIDE DEF r
  <1>4. /\ call' \in [AllCalls -> CallStates] /\ call'[c] = r
        /\ \A o \in AllCalls \ {c} : call'[o] = call[o]
    BY <1>1, <1>3, OneMoves
  <1>5. SessionType'
    BY <1>1, <1>4 DEF SessionType
  <1>6. SharersFollow'
    BY <1>1, <1>3, <1>4 DEF SharersFollow, Asking, AllCalls
  <1>7. (\A o \in AllCalls : CallHolds(o))'
    BY <1>1, <1>2, <1>3, <1>4 DEF CallHolds
  <1>8. CallsAreOfStored'
    BY <1>1, <1>3, <1>4 DEF CallsAreOfStored, CallIsOfStored, OfStored
  <1>9. CachesAreTheAccounts'
    BY <1>1 DEF CachesAreTheAccounts, Session!CachesAreTheAccounts
  <1> QED  BY <1>5, <1>6, <1>7, <1>8, <1>9

LEMMA Issues == ASSUME SessionInv, NEW c \in AllCalls, Session!Issue(c) PROVE SessionInv'
  <1> USE InstancesSuit DEF SessionInv, Session!SessionAssumption
  <1> DEFINE a     == call[c].base.account
             token == [account |-> a, token |-> issued[a] + 1]
             r     == [call[c] EXCEPT !.stage = "told", !.cookie = token]
  <1>1. call' = [call EXCEPT ![c] = r] /\ call[c].stage = "asking" /\ issued[a] < MaxIssued
        /\ UNCHANGED <<store, cached, ids, sharing, old, spoiled>>
        /\ issued' = [issued EXCEPT ![a] = @ + 1]
    BY DEF Session!Issue, Session!session
  <1>2. call[c].base \in Session!Cookies
    BY <1>1 DEF CallHolds
  <1>3. a \in Accounts
    BY <1>2 DEF Session!Cookies
  <1>4. issued[a] + 1 \in 0 .. MaxIssued
    BY <1>1, <1>3 DEF SessionType
  <1>5. token \in Session!Cookies
    BY <1>3, <1>4 DEF Session!Cookies
  <1>6. issued' \in [Accounts -> 0 .. MaxIssued]
    BY <1>1, <1>3, <1>4 DEF SessionType
  <1>7. token.account = call[c].base.account
    OBVIOUS
  <1> HIDE DEF token, a
  <1>8. r \in CallStates /\ r.stage = "told" /\ r.cookie = token
    BY <1>5, CallOf DEF CallStates, Session!Stages
  <1> HIDE DEF r
  <1>9. /\ call' \in [AllCalls -> CallStates] /\ call'[c] = r
        /\ \A o \in AllCalls \ {c} : call'[o] = call[o]
    BY <1>1, <1>8, OneMoves
  <1>10. SessionType'
    BY <1>1, <1>6, <1>9 DEF SessionType
  <1>11. SharersFollow'
    BY <1>1, <1>8, <1>9 DEF SharersFollow, Asking, AllCalls
  <1>12. (\A o \in AllCalls : CallHolds(o))'
    BY <1>1, <1>8, <1>9 DEF CallHolds
  <1>13. CallsAreOfStored'
    BY <1>1, <1>7, <1>8, <1>9 DEF CallsAreOfStored, CallIsOfStored, OfStored
  <1>14. CachesAreTheAccounts'
    BY <1>1 DEF CachesAreTheAccounts, Session!CachesAreTheAccounts
  <1> QED  BY <1>10, <1>11, <1>12, <1>13, <1>14

LEMMA Rejects == ASSUME SessionInv, NEW c \in AllCalls, Session!Reject(c) PROVE SessionInv'
  <1> USE DEF SessionInv
  <1> DEFINE r == [call[c] EXCEPT !.stage = "told", !.cookie = None]
  <1>1. call' = [call EXCEPT ![c] = r] /\ call[c].stage = "asking"
        /\ UNCHANGED <<store, cached, ids, sharing, issued, old, spoiled>>
    BY DEF Session!Reject, Session!session, Session!starlink
  <1>2. r \in CallStates /\ r.stage = "told" /\ r.cookie = None
    BY CallOf DEF CallStates, Session!Stages
  <1> HIDE DEF r
  <1>3. /\ call' \in [AllCalls -> CallStates] /\ call'[c] = r
        /\ \A o \in AllCalls \ {c} : call'[o] = call[o]
    BY <1>1, <1>2, OneMoves
  <1>4. SessionType'
    BY <1>1, <1>3 DEF SessionType
  <1>5. SharersFollow'
    BY <1>1, <1>2, <1>3 DEF SharersFollow, Asking, AllCalls
  <1>6. (\A o \in AllCalls : CallHolds(o))'
    BY <1>1, <1>2, <1>3 DEF CallHolds
  <1>7. CallsAreOfStored'
    BY <1>1, <1>2, <1>3 DEF CallsAreOfStored, CallIsOfStored, OfStored
  <1>8. CachesAreTheAccounts'
    BY <1>1 DEF CachesAreTheAccounts, Session!CachesAreTheAccounts
  <1> QED  BY <1>4, <1>5, <1>6, <1>7, <1>8

(* A refresh is over: it and those who share it move on together.                *)
SharersOf(c) == {c} \cup Session!Sharers(c)

LEMMA TogetherMove ==
    ASSUME SessionInv, NEW c \in AllCalls,
           NEW next \in [SharersOf(c) -> CallStates],
           call' = [o \in AllCalls |-> IF o \in SharersOf(c) THEN next[o] ELSE call[o]],
           sharing' = (IF c \in Reads /\ Asking(c) THEN None ELSE sharing),
           \A o \in SharersOf(c) :
               /\ next[o].stage \notin {"asking", "told", "sharing"}
               /\ next[o].stage \in {"listing", "working"} => next[o].cookie # None,
           UNCHANGED <<issued, old>>,
           store' \in Session!Cookies \cup {None}, cached' \in Session!Cookies \cup {None},
           spoiled' \in BOOLEAN
    PROVE  /\ SessionType' /\ SharersFollow' /\ (\A o \in AllCalls : CallHolds(o))'
           /\ \A o \in SharersOf(c) : o \in AllCalls /\ call'[o] = next[o]
           /\ \A o \in AllCalls \ SharersOf(c) : call'[o] = call[o]
  <1> USE DEF SessionInv
  <1>1. /\ SharersOf(c) \subseteq AllCalls
        /\ \A o \in AllCalls : o \in SharersOf(c) <=> o = c \/ (call[o].stage = "sharing" /\ call[o].base = c)
    BY DEF SharersOf, Session!Sharers, Session!Calls, AllCalls
  <1>2. /\ \A o \in SharersOf(c) : o \in AllCalls /\ call'[o] = next[o]
        /\ \A o \in AllCalls \ SharersOf(c) : call'[o] = call[o]
        /\ call' \in [AllCalls -> CallStates]
    BY <1>1 DEF SessionType
  <1>3. SessionType'
    BY <1>2 DEF SessionType
  <1>4. SharersFollow'
    <2>1. ASSUME sharing' # None PROVE (sharing \in Reads /\ Asking(sharing))'
      <3>1. sharing' = sharing /\ sharing \in AllCalls /\ sharing \in Reads /\ Asking(sharing)
            /\ sharing # c
        BY <2>1 DEF SharersFollow, AllCalls
      <3>2. sharing \notin SharersOf(c)
        BY <1>1, <3>1 DEF Asking
      <3> QED  BY <1>2, <3>1, <3>2 DEF Asking
    <2>2. ASSUME NEW o \in AllCalls, call'[o].stage = "sharing"
          PROVE  (/\ call[o].base \in AllCalls /\ Asking(call[o].base)
                  /\ call[o].base \in old => o \in old)'
      <3>1. o \notin SharersOf(c) /\ call'[o] = call[o] /\ call[o].base # c
        BY <1>1, <1>2, <2>2
      <3>2. call[o].base \in AllCalls /\ Asking(call[o].base) /\ (call[o].base \in old => o \in old)
        BY <2>2, <3>1 DEF SharersFollow
      <3>3. call[o].base \notin SharersOf(c)
        BY <1>1, <3>1, <3>2 DEF Asking
      <3> QED  BY <1>2, <3>1, <3>2, <3>3 DEF Asking
    <2> QED  BY <2>1, <2>2 DEF SharersFollow
  <1>5. (\A o \in AllCalls : CallHolds(o))'
    BY <1>2 DEF CallHolds
  <1> QED  BY <1>2, <1>3, <1>4, <1>5

LEMMA IsRefreshed == ASSUME SessionInv, NEW c \in AllCalls, Session!Refreshed(c) PROVE SessionInv'
  <1> USE DEF SessionInv
  <1> DEFINE next == [o \in SharersOf(c) |->
                         [call[o] EXCEPT !.stage = "listing", !.base = None, !.cookie = call[c].cookie]]
  <1>1. /\ call[c].stage = "told" /\ call[c].cookie # None
        /\ store' = call[c].cookie /\ cached' = call[c].cookie
        /\ sharing' = (IF c \in Reads THEN None ELSE sharing)
        /\ spoiled' = (spoiled \/ c \in old)
        /\ UNCHANGED <<ids, issued, old>>
    BY DEF Session!Refreshed, Session!starlink
  <1>2. call' = [o \in AllCalls |-> IF o \in SharersOf(c) THEN next[o] ELSE call[o]]
    BY DEF Session!Refreshed, SharersOf, Session!Calls, AllCalls
  <1>3. call[c].cookie \in Session!Cookies /\ SharersOf(c) \subseteq AllCalls
    BY <1>1, CallOf DEF SharersOf, Session!Sharers, Session!Calls, AllCalls
  <1>4. ASSUME NEW o \in SharersOf(c)
        PROVE  next[o] \in CallStates /\ next[o].stage = "listing" /\ next[o].cookie = call[c].cookie
    BY <1>3, CallOf DEF CallStates, Session!Stages
  <1>5. next \in [SharersOf(c) -> CallStates]
    BY <1>4
  <1> HIDE DEF next
  <1>6. spoiled' \in BOOLEAN /\ Asking(c)
    BY <1>1 DEF SessionType, Asking
  <1>7. /\ SessionType' /\ SharersFollow' /\ (\A o \in AllCalls : CallHolds(o))'
        /\ \A o \in SharersOf(c) : o \in AllCalls /\ call'[o] = next[o]
        /\ \A o \in AllCalls \ SharersOf(c) : call'[o] = call[o]
    BY <1>1, <1>2, <1>3, <1>4, <1>5, <1>6, TogetherMove
  <1>8. ~spoiled' => OfStored(call[c].cookie) /\ ~spoiled
    BY <1>1 DEF CallsAreOfStored, CallIsOfStored
  <1>9. CallsAreOfStored'
    <2> SUFFICES ASSUME ~spoiled', NEW o \in AllCalls \ old' PROVE CallIsOfStored(o)'
      BY DEF CallsAreOfStored
    <2>1. CASE o \in SharersOf(c)
      BY <1>1, <1>4, <1>7, <2>1 DEF CallIsOfStored, OfStored
    <2>2. CASE o \notin SharersOf(c)
      BY <1>1, <1>7, <1>8, <2>2 DEF CallsAreOfStored, CallIsOfStored, OfStored
    <2> QED  BY <2>1, <2>2
  <1>10. CachesAreTheAccounts'
    BY <1>1, <1>8 DEF CachesAreTheAccounts, Session!CachesAreTheAccounts, OfStored
  <1> QED  BY <1>7, <1>9, <1>10

LEMMA IsDead == ASSUME SessionInv, NEW c \in AllCalls, Session!Dead(c) PROVE SessionInv'
  <1> USE DEF SessionInv
  <1> DEFINE next == [o \in SharersOf(c) |-> Session!Missed(o)]
  <1>1. /\ call[c].stage = "told" /\ cached' = None /\ ids' = None
        /\ sharing' = (IF c \in Reads THEN None ELSE sharing)
        /\ UNCHANGED <<store, issued, old, spoiled>>
    BY DEF Session!Dead, Session!Forget, Session!starlink
  <1>2. call' = [o \in AllCalls |-> IF o \in SharersOf(c) THEN next[o] ELSE call[o]]
    BY DEF Session!Dead, SharersOf, Session!Calls, AllCalls
  <1>3. SharersOf(c) \subseteq AllCalls
    BY DEF SharersOf, Session!Sharers, Session!Calls, AllCalls
  <1>4. ASSUME NEW o \in SharersOf(c)
        PROVE  next[o] \in CallStates /\ next[o].stage \in {"begin", "notConnected"}
    BY <1>3, Endings
  <1>5. next \in [SharersOf(c) -> CallStates]
    BY <1>4
  <1> HIDE DEF next
  <1>6. spoiled' \in BOOLEAN /\ Asking(c) /\ store' \in Session!Cookies \cup {None}
    BY <1>1 DEF SessionType, Asking
  <1>7. /\ SessionType' /\ SharersFollow' /\ (\A o \in AllCalls : CallHolds(o))'
        /\ \A o \in SharersOf(c) : o \in AllCalls /\ call'[o] = next[o]
        /\ \A o \in AllCalls \ SharersOf(c) : call'[o] = call[o]
    BY <1>1, <1>2, <1>4, <1>5, <1>6, TogetherMove
  <1>8. CallsAreOfStored'
    <2> SUFFICES ASSUME ~spoiled', NEW o \in AllCalls \ old' PROVE CallIsOfStored(o)'
      BY DEF CallsAreOfStored
    <2>1. CASE o \in SharersOf(c)
      BY <1>4, <1>7, <2>1 DEF CallIsOfStored
    <2>2. CASE o \notin SharersOf(c)
      BY <1>1, <1>7, <2>2 DEF CallsAreOfStored, CallIsOfStored, OfStored
    <2> QED  BY <2>1, <2>2
  <1>9. CachesAreTheAccounts'
    BY <1>1 DEF CachesAreTheAccounts, Session!CachesAreTheAccounts
  <1> QED  BY <1>7, <1>8, <1>9

LEMMA HasFailed == ASSUME SessionInv, NEW c \in AllCalls, Session!Fails(c) PROVE SessionInv'
  <1> USE DEF SessionInv
  <1> DEFINE next == [o \in SharersOf(c) |-> Session!End(o, "failed")]
  <1>1. /\ sharing' = (IF c \in Reads /\ Asking(c) THEN None ELSE sharing)
        /\ UNCHANGED <<store, cached, ids, issued, old, spoiled>>
    BY DEF Session!Fails, Session!starlink, Asking
  <1>2. call' = [o \in AllCalls |-> IF o \in SharersOf(c) THEN next[o] ELSE call[o]]
    BY DEF Session!Fails, SharersOf, Session!Calls, AllCalls
  <1>3. SharersOf(c) \subseteq AllCalls
    BY DEF SharersOf, Session!Sharers, Session!Calls, AllCalls
  <1>4. ASSUME NEW o \in SharersOf(c)
        PROVE  next[o] \in CallStates /\ next[o].stage = "failed"
    BY <1>3, Endings DEF Session!Stages
  <1>5. next \in [SharersOf(c) -> CallStates]
    BY <1>4
  <1> HIDE DEF next
  <1>6. spoiled' \in BOOLEAN /\ store' \in Session!Cookies \cup {None}
        /\ cached' \in Session!Cookies \cup {None}
    BY <1>1 DEF SessionType
  <1>7. /\ SessionType' /\ SharersFollow' /\ (\A o \in AllCalls : CallHolds(o))'
        /\ \A o \in SharersOf(c) : o \in AllCalls /\ call'[o] = next[o]
        /\ \A o \in AllCalls \ SharersOf(c) : call'[o] = call[o]
    BY <1>1, <1>2, <1>4, <1>5, <1>6, TogetherMove
  <1>8. CallsAreOfStored'
    <2> SUFFICES ASSUME ~spoiled', NEW o \in AllCalls \ old' PROVE CallIsOfStored(o)'
      BY DEF CallsAreOfStored
    <2>1. CASE o \in SharersOf(c)
      BY <1>4, <1>7, <2>1 DEF CallIsOfStored
    <2>2. CASE o \notin SharersOf(c)
      BY <1>1, <1>7, <2>2 DEF CallsAreOfStored, CallIsOfStored, OfStored
    <2> QED  BY <2>1, <2>2
  <1>9. CachesAreTheAccounts'
    BY <1>1 DEF CachesAreTheAccounts, Session!CachesAreTheAccounts
  <1> QED  BY <1>7, <1>8, <1>9

(* The account is changed: nothing is remembered, and every call is old.         *)
LEMMA AccountChanges ==
    ASSUME SessionInv, Session!Sign, Session!Forget, UNCHANGED <<sharing, call, issued>>,
           store' \in Session!Cookies \cup {None}
    PROVE  SessionInv'
  <1> USE DEF SessionInv
  <1>1. cached' = None /\ ids' = None /\ spoiled' = FALSE
        /\ old' = { c \in AllCalls : Session!Under(c) }
    BY DEF Session!Sign, Session!Forget, Session!Calls, AllCalls
  <1>2. SessionType'
    BY <1>1 DEF SessionType
  <1>3. SharersFollow'
    BY <1>1 DEF SharersFollow, Asking, Session!Under
  <1>4. (\A c \in AllCalls : CallHolds(c))'
    BY DEF CallHolds
  <1>5. CallsAreOfStored'
    BY <1>1 DEF CallsAreOfStored, CallIsOfStored, Session!Under
  <1>6. CachesAreTheAccounts'
    BY <1>1 DEF CachesAreTheAccounts, Session!CachesAreTheAccounts
  <1> QED  BY <1>2, <1>3, <1>4, <1>5, <1>6

LEMMA Connects == ASSUME SessionInv, NEW a \in Accounts, Session!Connect(a) PROVE SessionInv'
  <1>1. Session!Sign /\ Session!Forget /\ UNCHANGED <<sharing, call, issued>>
        /\ store' = [account |-> a, token |-> issued[a]]
    BY DEF Session!Connect, Session!Forgotten, Session!starlink
  <1>2. store' \in Session!Cookies
    BY <1>1 DEF SessionInv, SessionType, Session!Cookies
  <1> QED  BY <1>1, <1>2, AccountChanges

LEMMA Disconnects == ASSUME SessionInv, Session!Disconnect PROVE SessionInv'
  BY AccountChanges DEF Session!Disconnect, Session!Forgotten, Session!starlink

(* Nothing the session is made of moves.                                         *)
LEMMA SessionStands ==
    ASSUME SessionInv, UNCHANGED <<store, cached, ids, sharing, call, issued, old, spoiled>>
    PROVE  SessionInv'
  BY DEF SessionInv, SessionType, SharersFollow, Asking, CallHolds, CallsAreOfStored, CallIsOfStored,
         OfStored, CachesAreTheAccounts, Session!CachesAreTheAccounts

LEMMA CallSteps ==
    ASSUME SessionInv, NEW c \in AllCalls, Session!Begin(c) \/ Session!Inside(c)
    PROVE  SessionInv'
  BY Begins, HasNoSession, UsesCached, Shares, Refreshes, IsRefreshed, IsDead, TurnedAway, HasListed,
     HasWorked, Issues, Rejects, HasFailed DEF Session!Inside

LEMMA SessionSteps == ASSUME SessionInv, [AccountNext]_accountVars PROVE SessionInv'
  <1>1. CASE Session!Next
    <2>1. ASSUME NEW c \in Session!Calls, Session!Begin(c) \/ Session!Inside(c) PROVE SessionInv'
      BY <2>1, CallSteps DEF Session!Calls, AllCalls
    <2>2. ASSUME NEW a \in Accounts, Session!Connect(a) PROVE SessionInv'
      BY <2>2, Connects
    <2>3. ASSUME NEW a \in Accounts, Session!Lapse(a) \/ Session!SignInEnds(a) PROVE SessionInv'
      BY <2>3, SessionStands DEF Session!Lapse, Session!SignInEnds, Session!session
    <2>4. CASE Session!Disconnect
      BY <2>4, Disconnects
    <2>5. CASE Session!Age
      BY <2>5, SessionStands DEF Session!Age, Session!starlink
    <2> QED  BY <1>1, <2>1, <2>2, <2>3, <2>4, <2>5 DEF Session!Next
  <1>2. CASE UNCHANGED sessionVars
    BY <1>2, SessionStands DEF sessionVars
  <1> QED  BY <1>1, <1>2 DEF AccountNext, accountVars

(* However calls, refreshes and sign-ins overlap, what is remembered is of the   *)
(* account that is stored, unless a call begun under another came back since     *)
(* (connect, disconnect, forgetSession).                                         *)
THEOREM CachesFollowTheAccount == AccountSpec => []CachesAreTheAccounts
  <1>1. AccountInit => SessionInv
    BY SessionStarts
  <1>2. SessionInv /\ [AccountNext]_accountVars => SessionInv'
    BY SessionSteps
  <1>3. SessionInv => CachesAreTheAccounts
    BY DEF SessionInv
  <1> QED  BY <1>1, <1>2, <1>3, PTL DEF AccountSpec

--------------------------------------------------------------------------------
(* A lapse heals.  Every account stands and every token is taken until the one   *)
(* upset, so a call that is trying again does so after it, and the token it is   *)
(* brought then is taken; a refresh is turned down only of a sign-in that ended. *)

starlinkVars == <<issued, floor, alive>>

TurnedDown(c) ==
    call[c].stage = "told" /\ call[c].cookie = None =>
        /\ call[c].base \in Session!Cookies /\ call[c].base.account \notin alive
        /\ spoiled \/ c \in old \/ OfStored(call[c].base)

Heals(c) ==
    /\ call[c].again => upsets > 0 /\ call[c].stage # "sharing"
    /\ call[c].again /\ call[c].stage \in {"told", "listing", "working"} /\ call[c].cookie # None
          => call[c].cookie.token >= floor[call[c].cookie.account]
    /\ TurnedDown(c)

LapseInv ==
    /\ SessionInv
    /\ upsets \in Nat /\ floor \in [Accounts -> Nat] /\ alive \subseteq Accounts
    /\ upsets = 0 => alive = Accounts /\ \A a \in Accounts : floor[a] = 0
    /\ \A a \in Accounts : floor[a] <= issued[a] + 1
    /\ \A c \in AllCalls : Heals(c)

(* What ends a call "not connected".                                             *)
GoneFor(c) == store = None \/ store.account \notin alive \/ c \in old \/ spoiled
AllHealed  == \A c \in AllCalls : Session!Under(c) /\ call'[c].stage = "notConnected" => GoneFor(c)

LEMMA LapseStarts == AccountInit => LapseInv
  <1> SUFFICES ASSUME AccountInit PROVE LapseInv
    OBVIOUS
  <1>1. SessionInv
    BY SessionStarts
  <1>2. /\ upsets = 0 /\ floor = [a \in Accounts |-> 0] /\ alive = Accounts
        /\ issued = [a \in Accounts |-> 0]
    BY DEF AccountInit, Session!Init
  <1>3. \A c \in AllCalls : call[c].stage = "idle" /\ call[c].again = FALSE
    BY DEF AccountInit, Session!Init, Session!Idle, Session!Calls, AllCalls
  <1> QED  BY <1>1, <1>2, <1>3 DEF LapseInv, Heals, TurnedDown

(* A call that stands still while the account is not changed under it.           *)
LEMMA StandingHeals ==
    ASSUME LapseInv, NEW o \in AllCalls, call'[o] = call[o], UNCHANGED <<starlinkVars, upsets>>,
           call[o].stage = "told" =>
               \/ spoiled' \/ o \in old'
               \/ ~spoiled /\ o \notin old
                  /\ (store # None => store' # None /\ store'.account = store.account)
    PROVE  Heals(o)' /\ (Session!Under(o) => call'[o].stage # "notConnected")
  BY DEF LapseInv, Heals, TurnedDown, OfStored, starlinkVars, Session!Under

(* One call moves on, to something that is not a reply.                          *)
LEMMA OneHeals ==
    ASSUME LapseInv, SessionInv', NEW c \in AllCalls, NEW r \in CallStates,
           call' = [call EXCEPT ![c] = r], UNCHANGED <<starlinkVars, upsets>>,
           \A o \in AllCalls \ {c} :
               \/ spoiled' \/ o \in old'
               \/ ~spoiled /\ o \notin old /\ store' = store,
           r.stage # "told", r.again => upsets > 0 /\ r.stage # "sharing",
           r.again /\ r.stage \in {"listing", "working"} /\ r.cookie # None
               => r.cookie.token >= floor[r.cookie.account],
           r.stage = "notConnected" => GoneFor(c)
    PROVE  LapseInv' /\ AllHealed
  <1>1. call'[c] = r /\ \A o \in AllCalls \ {c} : call'[o] = call[o]
    BY OneMoves DEF LapseInv, SessionInv
  <1>2. \A o \in AllCalls \ {c} :
            Heals(o)' /\ (Session!Under(o) => call'[o].stage # "notConnected")
    BY <1>1, StandingHeals
  <1>3. Heals(c)'
    BY <1>1 DEF Heals, TurnedDown, starlinkVars
  <1>4. \A o \in AllCalls : Heals(o)'
    BY <1>2, <1>3
  <1>5. AllHealed
    BY <1>1, <1>2 DEF AllHealed
  <1> QED  BY <1>4, <1>5 DEF LapseInv, starlinkVars

LEMMA NoneIsNoCookie == \A cookie \in Session!Cookies : cookie # None
  BY InstancesSuit DEF Session!SessionAssumption, Session!Cookies

(* A second attempt follows the upset.                                           *)
LEMMA MissedAgain ==
    ASSUME LapseInv, NEW c \in AllCalls, upsets > 0
    PROVE  LET r == Session!Missed(c)
           IN  /\ r \in CallStates /\ (r.again => upsets > 0)
               /\ r.stage \in {"begin", "notConnected"}
               /\ r.stage = "notConnected" => call[c].again
  <1>1. call[c].again \in BOOLEAN
    BY CallOf DEF LapseInv, SessionInv
  <1> QED  BY <1>1, Endings DEF Session!Missed, Session!End, Session!Idle

LEMMA HealBegins ==
    ASSUME LapseInv, SessionInv', NEW c \in AllCalls,
           Session!Begin(c) \/ Session!NoSession(c) \/ Session!UseCached(c)
    PROVE  LapseInv' /\ AllHealed
  <1>1. /\ UNCHANGED <<starlinkVars, upsets, store, old, spoiled>>
    BY DEF Session!Begin, Session!NoSession, Session!UseCached, Session!session, Session!starlink,
           starlinkVars
  <1>2. \A o \in AllCalls \ {c} :
            \/ spoiled' \/ o \in old'
            \/ ~spoiled /\ o \notin old /\ store' = store
    BY <1>1 DEF LapseInv, SessionInv, SessionType
  <1>3. CASE Session!Begin(c)
    <2> DEFINE r == [call[c] EXCEPT !.stage = "begin"]
    <2>1. r \in CallStates /\ r.stage = "begin" /\ r.again = call[c].again
      BY CallOf DEF LapseInv, SessionInv, CallStates, Session!Stages
    <2>2. call' = [call EXCEPT ![c] = r]
      BY <1>3 DEF Session!Begin
    <2> HIDE DEF r
    <2> QED  BY <1>1, <1>2, <2>1, <2>2, OneHeals DEF LapseInv, Heals
  <1>4. CASE Session!NoSession(c)
    <2> DEFINE r == Session!End(c, "notConnected")
    <2>1. r \in CallStates /\ r.stage = "notConnected" /\ r.again = FALSE
      BY Endings DEF Session!Stages, Session!End, Session!Idle
    <2>2. call' = [call EXCEPT ![c] = r] /\ store = None
      BY <1>4 DEF Session!NoSession
    <2> HIDE DEF r
    <2> QED  BY <1>1, <1>2, <2>1, <2>2, OneHeals DEF GoneFor
  <1>5. CASE Session!UseCached(c)
    <2> DEFINE r == [call[c] EXCEPT !.stage = "listing", !.cookie = cached]
    <2>1. r \in CallStates /\ r.stage = "listing" /\ r.again = call[c].again
      BY CallOf DEF LapseInv, SessionInv, SessionType, CallStates, Session!Stages
    <2>2. call' = [call EXCEPT ![c] = r] /\ ~call[c].again
      BY <1>5 DEF Session!UseCached, LapseInv, SessionInv, SessionType
    <2> HIDE DEF r
    <2> QED  BY <1>1, <1>2, <2>1, <2>2, OneHeals
  <1> QED  BY <1>3, <1>4, <1>5

LEMMA HealShares ==
    ASSUME LapseInv, SessionInv', NEW c \in AllCalls, Session!Share(c) \/ Session!Refresh(c)
    PROVE  LapseInv' /\ AllHealed
  <1> USE DEF LapseInv, SessionInv
  <1>1. CASE Session!Share(c)
    <2> DEFINE r == [call[c] EXCEPT !.stage = "sharing", !.base = sharing]
    <2>1. call' = [call EXCEPT ![c] = r] /\ sharing # None /\ ~call[c].again
          /\ UNCHANGED <<starlinkVars, upsets, store, spoiled>>
          /\ old' = (IF sharing \in old THEN old \cup {c} ELSE old)
      BY <1>1 DEF Session!Share, Session!Shares, Session!session, Session!starlink, starlinkVars
    <2>2. sharing \in AllCalls
      BY <2>1 DEF SharersFollow, AllCalls
    <2>3. r \in CallStates /\ r.stage = "sharing" /\ r.again = call[c].again
      BY <2>2, CallOf DEF CallStates, Session!Stages
    <2>4. \A o \in AllCalls \ {c} :
              \/ spoiled' \/ o \in old'
              \/ ~spoiled /\ o \notin old /\ store' = store
      BY <2>1 DEF SessionType
    <2> HIDE DEF r
    <2> QED  BY <2>1, <2>3, <2>4, OneHeals
  <1>2. CASE Session!Refresh(c)
    <2> DEFINE r == [call[c] EXCEPT !.stage = "asking", !.base = store]
    <2>1. call' = [call EXCEPT ![c] = r] /\ UNCHANGED <<starlinkVars, upsets, store, spoiled, old>>
          /\ store # None
      BY <1>2 DEF Session!Refresh, Session!Misses, Session!starlink, starlinkVars
    <2>2. r \in CallStates /\ r.stage = "asking" /\ r.again = call[c].again
      BY <2>1, CallOf DEF CallStates, Session!Stages, SessionType
    <2>3. \A o \in AllCalls \ {c} :
              \/ spoiled' \/ o \in old'
              \/ ~spoiled /\ o \notin old /\ store' = store
      BY <2>1 DEF SessionType
    <2>4. r.again => upsets > 0
      BY <2>2 DEF Heals
    <2> HIDE DEF r
    <2> QED  BY <2>1, <2>2, <2>3, <2>4, OneHeals
  <1> QED  BY <1>1, <1>2

(* A token that is issued is taken.                                              *)
LEMMA HealIssues ==
    ASSUME LapseInv, SessionInv', NEW c \in AllCalls, Session!Issue(c)
    PROVE  LapseInv' /\ AllHealed
  <1> USE DEF LapseInv, SessionInv
  <1> DEFINE a     == call[c].base.account
             token == [account |-> a, token |-> issued[a] + 1]
             r     == [call[c] EXCEPT !.stage = "told", !.cookie = token]
  <1>1. call' = [call EXCEPT ![c] = r] /\ call[c].stage = "asking"
        /\ UNCHANGED <<floor, alive, upsets, store, old, spoiled>>
        /\ issued' = [issued EXCEPT ![a] = @ + 1]
    BY DEF Session!Issue, Session!session
  <1>2. call[c].base \in Session!Cookies
    BY <1>1 DEF CallHolds
  <1>3. a \in Accounts
    BY <1>2 DEF Session!Cookies
  <1>4. issued[a] \in Nat /\ issued'[a] = issued[a] + 1
        /\ \A b \in Accounts : issued[b] \in Nat /\ issued'[b] >= issued[b]
    BY <1>1, <1>3 DEF SessionType
  <1>5. issued'[a] \in 0 .. MaxIssued
    BY <1>1, <1>3 DEF SessionType
  <1>6. token \in Session!Cookies
    BY <1>3, <1>4, <1>5 DEF Session!Cookies
  <1>7. token.account = a /\ token.token >= floor[a]
    BY <1>3, <1>4
  <1>8. \A b \in Accounts : floor'[b] <= issued'[b] + 1
    BY <1>1, <1>4
  <1> HIDE DEF token, a
  <1>9. r \in CallStates /\ r.stage = "told" /\ r.cookie = token /\ r.again = call[c].again
    BY <1>6, CallOf DEF CallStates, Session!Stages
  <1> HIDE DEF r
  <1>10. call'[c] = r /\ \A o \in AllCalls \ {c} : call'[o] = call[o]
    BY <1>1, <1>9, OneMoves
  <1>11. Heals(c)'
    BY <1>1, <1>6, <1>7, <1>9, <1>10, NoneIsNoCookie DEF Heals, TurnedDown
  <1>12. \A o \in AllCalls \ {c} : Heals(o)'
    BY <1>1, <1>10 DEF Heals, TurnedDown, OfStored
  <1>13. \A o \in AllCalls : Heals(o)'
    BY <1>11, <1>12
  <1>14. AllHealed
    BY <1>9, <1>10 DEF AllHealed, Session!Under
  <1> QED  BY <1>1, <1>8, <1>13, <1>14

LEMMA HealRejects ==
    ASSUME LapseInv, SessionInv', NEW c \in AllCalls, Session!Reject(c)
    PROVE  LapseInv' /\ AllHealed
  <1> USE DEF LapseInv, SessionInv
  <1> DEFINE r == [call[c] EXCEPT !.stage = "told", !.cookie = None]
  <1>1. call' = [call EXCEPT ![c] = r] /\ call[c].stage = "asking"
        /\ call[c].base.account \notin alive
        /\ UNCHANGED <<starlinkVars, upsets, store, old, spoiled>>
    BY DEF Session!Reject, Session!session, Session!starlink, starlinkVars
  <1>2. r \in CallStates /\ r.stage = "told" /\ r.cookie = None /\ r.again = call[c].again
        /\ r.base = call[c].base
    BY CallOf DEF CallStates, Session!Stages
  <1> HIDE DEF r
  <1>3. call'[c] = r /\ \A o \in AllCalls \ {c} : call'[o] = call[o]
    BY <1>1, <1>2, OneMoves
  <1>4. call[c].base \in Session!Cookies /\ (spoiled \/ c \in old \/ OfStored(call[c].base))
    BY <1>1 DEF CallHolds, CallsAreOfStored, CallIsOfStored
  <1>5. Heals(c)'
    BY <1>1, <1>2, <1>3, <1>4 DEF Heals, TurnedDown, OfStored, starlinkVars
  <1>6. \A o \in AllCalls \ {c} : Heals(o)'
    BY <1>1, <1>3 DEF Heals, TurnedDown, OfStored, starlinkVars
  <1>7. \A o \in AllCalls : Heals(o)'
    BY <1>5, <1>6
  <1>8. AllHealed
    BY <1>2, <1>3 DEF AllHealed, Session!Under
  <1> QED  BY <1>1, <1>7, <1>8 DEF starlinkVars

(* The reply of a refresh that is not old leaves the account what it was.        *)
LEMMA HealRefreshes ==
    ASSUME LapseInv, SessionInv', NEW c \in AllCalls, Session!Refreshed(c)
    PROVE  LapseInv' /\ AllHealed
  <1> USE DEF LapseInv, SessionInv
  <1> DEFINE next == [o \in SharersOf(c) |->
                         [call[o] EXCEPT !.stage = "listing", !.base = None, !.cookie = call[c].cookie]]
  <1>1. /\ call[c].stage = "told" /\ call[c].cookie # None /\ store' = call[c].cookie
        /\ spoiled' = (spoiled \/ c \in old) /\ UNCHANGED <<starlinkVars, upsets, old>>
    BY DEF Session!Refreshed, Session!starlink, starlinkVars
  <1>2. call' = [o \in AllCalls |-> IF o \in SharersOf(c) THEN next[o] ELSE call[o]]
    BY DEF Session!Refreshed, SharersOf, Session!Calls, AllCalls
  <1>3. /\ SharersOf(c) \subseteq AllCalls
        /\ \A o \in SharersOf(c) : o = c \/ call[o].stage = "sharing"
    BY DEF SharersOf, Session!Sharers, Session!Calls, AllCalls
  <1>4. ASSUME NEW o \in SharersOf(c)
        PROVE  /\ next[o].stage = "listing" /\ next[o].cookie = call[c].cookie
               /\ next[o].again = call[o].again
    BY <1>3, CallOf DEF CallStates
  <1> HIDE DEF next
  <1>5. /\ \A o \in SharersOf(c) : call'[o] = next[o]
        /\ \A o \in AllCalls \ SharersOf(c) : call'[o] = call[o]
    BY <1>2, <1>3
  <1>6. ASSUME NEW o \in SharersOf(c) PROVE Heals(o)'
    <2>1. call[o].again => o = c /\ upsets > 0
      BY <1>3 DEF Heals
    <2>2. call[o].again => call[c].cookie.token >= floor[call[c].cookie.account]
      BY <1>1, <2>1 DEF Heals
    <2> QED  BY <1>1, <1>4, <1>5, <2>1, <2>2 DEF Heals, TurnedDown, starlinkVars
  <1>7. ~spoiled' => ~spoiled /\ (store # None => store' # None /\ store'.account = store.account)
    BY <1>1 DEF CallsAreOfStored, CallIsOfStored, OfStored
  <1>8. \A o \in AllCalls \ SharersOf(c) : Heals(o)'
    BY <1>1, <1>5, <1>7, StandingHeals
  <1>9. \A o \in AllCalls : Heals(o)'
    BY <1>6, <1>8
  <1>10. AllHealed
    BY <1>4, <1>5 DEF AllHealed, Session!Under
  <1> QED  BY <1>1, <1>9, <1>10 DEF starlinkVars

LEMMA HealDies ==
    ASSUME LapseInv, SessionInv', NEW c \in AllCalls, Session!Dead(c)
    PROVE  LapseInv' /\ AllHealed
  <1> USE DEF LapseInv, SessionInv
  <1> DEFINE next == [o \in SharersOf(c) |-> Session!Missed(o)]
  <1>1. /\ call[c].stage = "told" /\ call[c].cookie = None
        /\ UNCHANGED <<starlinkVars, upsets, store, old, spoiled>>
    BY DEF Session!Dead, Session!starlink, starlinkVars
  <1>2. call' = [o \in AllCalls |-> IF o \in SharersOf(c) THEN next[o] ELSE call[o]]
    BY DEF Session!Dead, SharersOf, Session!Calls, AllCalls
  <1>3. /\ SharersOf(c) \subseteq AllCalls
        /\ \A o \in SharersOf(c) : o = c \/ call[o].stage = "sharing"
    BY DEF SharersOf, Session!Sharers, Session!Calls, AllCalls
  <1>4. /\ call[c].base \in Session!Cookies /\ call[c].base.account \notin alive
        /\ spoiled \/ c \in old \/ OfStored(call[c].base)
    BY <1>1 DEF Heals, TurnedDown
  <1>5. upsets > 0
    BY <1>4 DEF Session!Cookies
  <1>6. ASSUME NEW o \in SharersOf(c)
        PROVE  /\ next[o].stage \in {"begin", "notConnected"}
               /\ next[o].stage = "notConnected" => call[o].again
    BY <1>3, <1>5, MissedAgain
  <1> HIDE DEF next
  <1>7. /\ \A o \in SharersOf(c) : call'[o] = next[o]
        /\ \A o \in AllCalls \ SharersOf(c) : call'[o] = call[o]
    BY <1>2, <1>3
  <1>8. ASSUME NEW o \in SharersOf(c) PROVE Heals(o)'
    BY <1>1, <1>5, <1>6, <1>7 DEF Heals, TurnedDown
  <1>9. \A o \in AllCalls \ SharersOf(c) : Heals(o)' /\ (Session!Under(o) => call'[o].stage # "notConnected")
    BY <1>1, <1>7, StandingHeals DEF SessionType
  <1>10. \A o \in AllCalls : Heals(o)'
    BY <1>8, <1>9
  <1>11. ASSUME NEW o \in SharersOf(c), call'[o].stage = "notConnected" PROVE GoneFor(o)
    <2>1. o = c
      BY <1>3, <1>6, <1>7, <1>11 DEF Heals
    <2> QED  BY <1>4, <2>1 DEF GoneFor, OfStored
  <1>12. AllHealed
    BY <1>9, <1>11 DEF AllHealed
  <1> QED  BY <1>1, <1>10, <1>12 DEF starlinkVars

(* A token is refused only after the upset; the one brought by a second refresh  *)
(* only if the sign-in has ended.                                                *)
LEMMA HealTurns ==
    ASSUME LapseInv, SessionInv', NEW c \in AllCalls, Session!Turned(c, {"listing", "working"})
    PROVE  LapseInv' /\ AllHealed
  <1> USE DEF LapseInv, SessionInv
  <1> DEFINE r == Session!Missed(c)
  <1>1. call' = [call EXCEPT ![c] = r] /\ call[c].stage \in {"listing", "working"}
        /\ ~Session!Taken(call[c].cookie)
        /\ UNCHANGED <<starlinkVars, upsets, store, old, spoiled>>
    BY DEF Session!Turned, Session!session, Session!starlink, starlinkVars
  <1>2. call[c].cookie \in Session!Cookies /\ (spoiled \/ c \in old \/ OfStored(call[c].cookie))
    BY <1>1, CallOf DEF CallHolds, CallsAreOfStored, CallIsOfStored
  <1>3. call[c].cookie.account \in Accounts /\ call[c].cookie.token \in Nat
    BY <1>2 DEF Session!Cookies
  <1>4. upsets > 0
    BY <1>1, <1>3 DEF Session!Taken
  <1>5. r \in CallStates /\ r.stage \in {"begin", "notConnected"}
        /\ (r.stage = "notConnected" => call[c].again)
    BY <1>4, MissedAgain
  <1>6. r.stage = "notConnected" => call[c].cookie.account \notin alive
    BY <1>1, <1>2, <1>5, NoneIsNoCookie DEF Heals, Session!Taken
  <1>7. r.stage = "notConnected" => GoneFor(c)
    BY <1>2, <1>6 DEF GoneFor, OfStored
  <1>8. \A o \in AllCalls \ {c} :
            \/ spoiled' \/ o \in old'
            \/ ~spoiled /\ o \notin old /\ store' = store
    BY <1>1 DEF SessionType
  <1> HIDE DEF r
  <1> QED  BY <1>1, <1>4, <1>5, <1>7, <1>8, OneHeals

LEMMA HealGoesOn ==
    ASSUME LapseInv, SessionInv', NEW c \in AllCalls, Session!Listed(c) \/ Session!Worked(c)
    PROVE  LapseInv' /\ AllHealed
  <1> USE DEF LapseInv, SessionInv
  <1>1. CASE Session!Listed(c)
    <2> DEFINE r == [call[c] EXCEPT !.stage = "working"]
    <2>1. r \in CallStates /\ r.stage = "working" /\ r.cookie = call[c].cookie /\ r.again = call[c].again
      BY CallOf DEF CallStates, Session!Stages
    <2>2. call' = [call EXCEPT ![c] = r] /\ call[c].stage = "listing"
          /\ UNCHANGED <<starlinkVars, upsets, store, old>> /\ (spoiled => spoiled')
      BY <1>1 DEF Session!Listed, Session!starlink, starlinkVars
    <2>3. \A o \in AllCalls \ {c} :
              \/ spoiled' \/ o \in old'
              \/ ~spoiled /\ o \notin old /\ store' = store
      BY <2>2 DEF SessionType
    <2>4. /\ r.again => upsets > 0
          /\ r.again /\ r.cookie # None => r.cookie.token >= floor[r.cookie.account]
      BY <2>1, <2>2 DEF Heals
    <2> HIDE DEF r
    <2> QED  BY <2>1, <2>2, <2>3, <2>4, OneHeals
  <1>2. CASE Session!Worked(c)
    <2> DEFINE r == Session!End(c, "ok")
    <2>1. r \in CallStates /\ r.stage = "ok" /\ r.again = FALSE
      BY Endings DEF Session!Stages, Session!End, Session!Idle
    <2>2. call' = [call EXCEPT ![c] = r] /\ UNCHANGED <<starlinkVars, upsets, store, old, spoiled>>
      BY <1>2 DEF Session!Worked, Session!session, Session!starlink, starlinkVars
    <2>3. \A o \in AllCalls \ {c} :
              \/ spoiled' \/ o \in old'
              \/ ~spoiled /\ o \notin old /\ store' = store
      BY <2>2 DEF SessionType
    <2> HIDE DEF r
    <2> QED  BY <2>1, <2>2, <2>3, OneHeals
  <1> QED  BY <1>1, <1>2

LEMMA HealFails ==
    ASSUME LapseInv, SessionInv', NEW c \in AllCalls, Session!Fails(c)
    PROVE  LapseInv' /\ AllHealed
  <1> USE DEF LapseInv, SessionInv
  <1>1. UNCHANGED <<starlinkVars, upsets, store, old, spoiled>>
    BY DEF Session!Fails, Session!starlink, starlinkVars
  <1>2. SharersOf(c) \subseteq AllCalls
    BY DEF SharersOf, Session!Sharers, Session!Calls, AllCalls
  <1>3. \A o \in AllCalls : call'[o] = IF o \in SharersOf(c) THEN Session!End(o, "failed") ELSE call[o]
    BY DEF Session!Fails, SharersOf, Session!Calls, AllCalls
  <1>4. \A o \in AllCalls : Session!End(o, "failed").stage = "failed" /\ ~Session!End(o, "failed").again
    BY DEF Session!End, Session!Idle
  <1>5. \A o \in AllCalls : call'[o] = call[o] =>
            Heals(o)' /\ (Session!Under(o) => call'[o].stage # "notConnected")
    BY <1>1, StandingHeals DEF SessionType
  <1>6. \A o \in AllCalls : o \in SharersOf(c) =>
            Heals(o)' /\ (Session!Under(o) => call'[o].stage # "notConnected")
    BY <1>3, <1>4 DEF Heals, TurnedDown
  <1>7. \A o \in AllCalls : Heals(o)' /\ (Session!Under(o) => call'[o].stage # "notConnected")
    BY <1>3, <1>5, <1>6
  <1> QED  BY <1>1, <1>7 DEF AllHealed, starlinkVars

(* The person, the clock and Starlink, of whose upsets there is one.             *)
LEMMA HealWorld ==
    ASSUME LapseInv, SessionInv', MaxUpsets \in {0, 1},
           \/ \E a \in Accounts : Session!Connect(a) \/ Session!Lapse(a) \/ Session!SignInEnds(a)
           \/ Session!Disconnect \/ Session!Age \/ UNCHANGED sessionVars
    PROVE  LapseInv' /\ AllHealed
  <1> USE DEF LapseInv, SessionInv
  <1>1. call' = call
    BY DEF Session!Connect, Session!Lapse, Session!SignInEnds, Session!Disconnect, Session!Age,
           Session!session, sessionVars
  <1>2. AllHealed
    BY <1>1 DEF AllHealed, Session!Under
  <1>3. CASE (\E a \in Accounts : Session!Connect(a)) \/ Session!Disconnect
    <2>1. UNCHANGED <<starlinkVars, upsets>> /\ old' = { c \in AllCalls : Session!Under(c) }
      BY <1>3 DEF Session!Connect, Session!Disconnect, Session!Sign, Session!starlink, starlinkVars,
                  Session!Calls, AllCalls
    <2>2. \A o \in AllCalls : Heals(o)'
      BY <1>1, <2>1, StandingHeals DEF Session!Under
    <2> QED  BY <1>2, <2>1, <2>2 DEF starlinkVars
  <1>4. CASE Session!Age \/ UNCHANGED sessionVars
    <2>1. UNCHANGED <<starlinkVars, upsets, store, old, spoiled>>
      BY <1>4 DEF Session!Age, Session!starlink, starlinkVars, sessionVars
    <2>2. \A o \in AllCalls : Heals(o)'
      BY <1>1, <2>1 DEF Heals, TurnedDown, OfStored, starlinkVars
    <2> QED  BY <1>2, <2>1, <2>2 DEF starlinkVars
  <1>5. CASE \E a \in Accounts : Session!Lapse(a) \/ Session!SignInEnds(a)
    <2>1. PICK a \in Accounts : Session!Lapse(a) \/ Session!SignInEnds(a)
      BY <1>5
    <2>2. /\ upsets = 0 /\ upsets' = 1 /\ UNCHANGED <<store, issued, old, spoiled>>
          /\ alive' \subseteq alive
          /\ floor' = floor \/ floor' = [floor EXCEPT ![a] = issued[a] + 1]
      BY <2>1 DEF Session!Lapse, Session!SignInEnds, Session!session
    <2>3. \A b \in Accounts : issued[b] \in Nat
      BY DEF SessionType
    <2>4. floor' \in [Accounts -> Nat] /\ \A b \in Accounts : floor'[b] <= issued[b] + 1
      BY <2>2, <2>3
    <2>5. \A o \in AllCalls : Heals(o)'
      BY <1>1, <2>2 DEF Heals, TurnedDown, OfStored
    <2> QED  BY <1>2, <2>2, <2>4, <2>5
  <1> QED  BY <1>3, <1>4, <1>5

LEMMA LapseSteps ==
    ASSUME LapseInv, [AccountNext]_accountVars, MaxUpsets \in {0, 1}
    PROVE  LapseInv' /\ AllHealed
  <1>1. SessionInv'
    BY SessionSteps DEF LapseInv
  <1>2. CASE Session!Next
    <2>1. ASSUME NEW c \in AllCalls, Session!Begin(c) \/ Session!Inside(c)
          PROVE  LapseInv' /\ AllHealed
      BY <1>1, <2>1, HealBegins, HealShares, HealIssues, HealRejects, HealRefreshes, HealDies, HealTurns,
         HealGoesOn, HealFails DEF Session!Inside
    <2> QED  BY <1>1, <1>2, <2>1, HealWorld DEF Session!Next, Session!Calls, AllCalls
  <1>3. CASE UNCHANGED sessionVars
    BY <1>1, <1>3, HealWorld
  <1> QED  BY <1>2, <1>3 DEF AccountNext, accountVars

(* A token that lapses, or a sign-in that ends, once: a call under way is told   *)
(* "not connected" only if the sign-in did end, or the account was changed under *)
(* it, whoever else refreshes meanwhile (withFreshCookie).                       *)
THEOREM LapsesHeal ==
    ASSUME MaxUpsets \in {0, 1} PROVE AccountSpec => Session!OneLapseHeals
  <1>1. LapseInv /\ [AccountNext]_accountVars => LapseInv' /\ AllHealed
    BY LapseSteps
  <1>2. AllHealed => [\A c \in Session!Calls :
            Session!Under(c) /\ call'[c].stage = "notConnected"
            => store = None \/ store.account \notin alive \/ c \in old \/ spoiled]_Session!vars
    BY DEF AllHealed, GoneFor, Session!Calls, AllCalls
  <1> QED  BY LapseStarts, <1>1, <1>2, PTL DEF AccountSpec, Session!OneLapseHeals

--------------------------------------------------------------------------------
(* The extension's worker.  The browser answers in the order it was asked, so a  *)
(* connection is answered only when every read begun before it has its copy: what*)
(* is out by then is of its session, and no read will find that none is stored.  *)

Waits   == {"loading", "capturing", "taking", "storing", "ruled", "connected"}
Reading == {"account", "session", "again"}

Among(s, r)    == \E i \in 1 .. Len(s) : s[i] = r
Ahead(s, q, r) == \E i, j \in 1 .. Len(s) : i < j /\ s[i] = q /\ s[j] = r
Once(s)        == \A i, j \in 1 .. Len(s) : s[i] = s[j] => i = j

RequestKinds == Reading \cup {"none", "change", "connect", "disconnect"}
Gots == Nat \cup BOOLEAN \cup {None}
Replies == {None, "ok", "notConnected", "refused"}

Asked == [stage : Waits \cup {"idle", "answered"}, kind : RequestKinds, got : Gots, sure : BOOLEAN,
          reply : Replies]

(* A stage fits its request and holds what the browser has to give.              *)
Fits(m) ==
    /\ m.stage = "loading" => m.kind \in Reading \cup {"change"} /\ m.got \in BOOLEAN
    /\ m.stage \in {"capturing", "ruled"} => m.kind \in Reading
    /\ m.stage \in {"taking", "storing", "connected"} => m.kind = "connect"
    /\ m.stage \in {"capturing", "taking"} => m.got \in 0 .. visits
    /\ m.stage \in {"storing", "connected"} => m.got \in 1 .. visits

WorkerType ==
    /\ visits \in 0 .. MaxSignings /\ site \in (1 .. visits) \cup {None} /\ stored \in BOOLEAN
    /\ sure \in BOOLEAN
    /\ asked \in [Callers -> Asked] /\ \A r \in Callers : Fits(asked[r])

WaitingInLine ==
    /\ waiting \in Seq(Callers) /\ Once(waiting)
    /\ \A r \in Callers : Among(waiting, r) <=> asked[r].stage \in Waits

(* What a request was given is of the session the browser has now.               *)
OfSite(m, stages) == m.stage \in stages => m.got = site

(* A connection of this session has behind it only what is of this session.      *)
ConnectsInTurn(r) ==
    asked[r].stage \in {"taking", "storing", "connected"} /\ site # None /\ asked[r].got = site =>
        /\ asked[r].stage = "taking" =>
              \A q \in Callers : OfSite(asked[q], {"capturing", "taking"}) \/ Ahead(waiting, q, r)
        /\ asked[r].stage = "storing" =>
              \A q \in Callers : /\ OfSite(asked[q], {"capturing", "taking"})
                                 /\ OfSite(asked[q], {"storing"}) \/ Ahead(waiting, q, r)
        /\ asked[r].stage = "connected" =>
              \A q \in Callers : OfSite(asked[q], {"capturing", "taking", "storing"})

Certain == sure \/ \E r \in Callers : asked[r].sure

AllOfSite == /\ stored /\ site # None
             /\ \A q \in Callers : OfSite(asked[q], {"capturing", "taking", "storing"})

SessionStandsStill == Certain => AllOfSite

(* A read about to find that no session is stored.                               *)
FindsNone(m) == m.stage = "loading" /\ m.kind \in Reading /\ m.got = FALSE

SureIsServed(r) ==
    asked[r].sure /\ asked[r].kind # "change" =>
        /\ asked[r].stage = "loading" => \A q \in Callers : FindsNone(asked[q]) => Ahead(waiting, q, r)
        /\ asked[r].stage \in {"capturing", "ruled"} => \A q \in Callers : ~FindsNone(asked[q])
        /\ asked[r].stage = "ruled" => Worker!Held /\ rule = site
        /\ ~Worker!Failed(r)

WorkerInv ==
    /\ WorkerType /\ WaitingInLine /\ SessionStandsStill
    /\ \A r \in Callers : ConnectsInTurn(r) /\ SureIsServed(r)

(* The line without x, and with x gone to its end.                               *)
Kept(t, x) ==
    /\ t \in Seq(Callers) /\ Once(t)
    /\ \A q \in Callers \ {x} :
          /\ Among(t, q) <=> Among(waiting, q)
          /\ \A r \in Callers \ {x} : Ahead(waiting, q, r) => Ahead(t, q, r)

AtTheEnd(t, x) == Among(t, x) /\ \A q \in Callers \ {x} : Among(t, q) => Ahead(t, q, x)

LEMMA JoinsAreAsLong ==
    ASSUME NEW S, NEW s \in Seq(S), NEW t \in Seq(S)
    PROVE  s \o t \in Seq(S) /\ Len(s \o t) = Len(s) + Len(t)
  OBVIOUS

LEMMA LeavesTheLine ==
    ASSUME waiting \in Seq(Callers), Once(waiting), NEW x \in Callers
    PROVE  Kept(Worker!Others(x), x) /\ ~Among(Worker!Others(x), x)
  <1>1. CASE x \notin Worker!ToSet(waiting)
    <2>1. Worker!Others(x) = waiting /\ ~Among(waiting, x)
      BY <1>1 DEF Worker!Others, Worker!ToSet, Among
    <2> QED  BY <2>1 DEF Kept
  <1>2. CASE x \in Worker!ToSet(waiting)
    <2> DEFINE place == CHOOSE i \in 1 .. Len(waiting) : waiting[i] = x
               t == SubSeq(waiting, 1, place - 1) \o SubSeq(waiting, place + 1, Len(waiting))
    <2>1. place \in 1 .. Len(waiting) /\ waiting[place] = x
      BY <1>2 DEF Worker!ToSet
    <2>2. Worker!Others(x) = t
      BY <1>2 DEF Worker!Others, Worker!RemoveAt
    <2> HIDE DEF place
    <2>3. /\ t \in Seq(Callers) /\ Len(t) = Len(waiting) - 1
          /\ \A i \in 1 .. place - 1 : t[i] = waiting[i]
          /\ \A i \in place .. Len(waiting) - 1 : t[i] = waiting[i + 1]
      <3> DEFINE before == SubSeq(waiting, 1, place - 1)
                 after == SubSeq(waiting, place + 1, Len(waiting))
      <3>1. place \in Int /\ 1 <= place /\ place <= Len(waiting) /\ Len(waiting) \in Nat
        BY <2>1
      <3>2. /\ before \in Seq(Callers) /\ Len(before) = place - 1
            /\ \A i \in 1 .. place - 1 : before[i] = waiting[i]
        BY <3>1
      <3>3. /\ after \in Seq(Callers) /\ Len(after) = Len(waiting) - place
            /\ \A i \in 1 .. Len(waiting) - place : after[i] = waiting[place + i]
        BY <3>1
      <3> HIDE DEF before, after
      <3>4. before \o after \in Seq(Callers) /\ Len(before \o after) = Len(waiting) - 1
        <4>1. before \o after \in Seq(Callers)
          BY <3>2, <3>3
        <4>2. Len(before \o after) = Len(before) + Len(after)
          BY <3>2, <3>3, JoinsAreAsLong
        <4>3. (place - 1) + (Len(waiting) - place) = Len(waiting) - 1
          BY <3>1
        <4> QED  BY <3>2, <3>3, <4>1, <4>2, <4>3
      <3>5. ASSUME NEW i \in 1 .. place - 1 PROVE (before \o after)[i] = waiting[i]
        BY <3>1, <3>2, <3>3
      <3>6. ASSUME NEW i \in place .. Len(waiting) - 1 PROVE (before \o after)[i] = waiting[i + 1]
        <4>1. /\ i - (place - 1) \in 1 .. Len(waiting) - place
              /\ place + (i - (place - 1)) = i + 1
          BY <3>1
        <4>2. (before \o after)[i] = after[i - (place - 1)]
          BY <3>1, <3>2, <3>3
        <4> QED  BY <3>3, <4>1, <4>2
      <3> QED  BY <3>4, <3>5, <3>6 DEF before, after
    <2> HIDE DEF t
    <2>4. \A i \in 1 .. Len(waiting) : waiting[i] = x => i = place
      BY <2>1 DEF Once
    <2> DEFINE from(i) == IF i < place THEN i ELSE i + 1
               goes(i) == IF i < place THEN i ELSE i - 1
    <2>5. \A i \in 1 .. Len(t) : from(i) \in 1 .. Len(waiting) /\ from(i) # place /\ t[i] = waiting[from(i)]
      BY <2>1, <2>3
    <2>6. \A i \in 1 .. Len(waiting) : i # place =>
              goes(i) \in 1 .. Len(t) /\ t[goes(i)] = waiting[i]
      BY <2>1, <2>3
    <2>7. Once(t)
      BY <2>1, <2>3, <2>5 DEF Once
    <2>8. ~Among(t, x)
      BY <2>4, <2>5 DEF Among
    <2>9. ASSUME NEW q \in Callers \ {x} PROVE Among(t, q) <=> Among(waiting, q)
      BY <2>1, <2>5, <2>6 DEF Among
    <2>10. ASSUME NEW q \in Callers \ {x}, NEW r \in Callers \ {x}, Ahead(waiting, q, r)
           PROVE  Ahead(t, q, r)
      <3>1. PICK i \in 1 .. Len(waiting), j \in 1 .. Len(waiting) :
                i < j /\ waiting[i] = q /\ waiting[j] = r
        BY <2>10 DEF Ahead
      <3>2. goes(i) \in 1 .. Len(t) /\ goes(j) \in 1 .. Len(t) /\ t[goes(i)] = q /\ t[goes(j)] = r
        BY <2>1, <2>6, <3>1
      <3>3. goes(i) < goes(j)
        BY <2>1, <3>1
      <3> QED  BY <3>2, <3>3 DEF Ahead
    <2> QED  BY <2>2, <2>3, <2>7, <2>8, <2>9, <2>10 DEF Kept
  <1> QED  BY <1>1, <1>2

LEMMA GoesLast ==
    ASSUME NEW x \in Callers, NEW t, Kept(t, x), ~Among(t, x)
    PROVE  Kept(Append(t, x), x) /\ AtTheEnd(Append(t, x), x)
  <1> DEFINE u == Append(t, x)
  <1>1. t \in Seq(Callers) /\ Len(t) \in Nat
    BY DEF Kept
  <1>2. /\ u \in Seq(Callers) /\ Len(u) = Len(t) + 1
        /\ \A i \in 1 .. Len(t) : i \in 1 .. Len(u) /\ u[i] = t[i]
        /\ Len(u) \in 1 .. Len(u) /\ u[Len(u)] = x
    BY <1>1
  <1>3. \A i \in 1 .. Len(u) : i \in 1 .. Len(t) \/ i = Len(u)
    BY <1>1, <1>2
  <1> HIDE DEF u
  <1>4. Once(u)
    BY <1>2, <1>3 DEF Kept, Once, Among
  <1>5. ASSUME NEW q \in Callers \ {x}
        PROVE  /\ Among(u, q) <=> Among(t, q)
               /\ \A r \in Callers \ {x} : Ahead(t, q, r) => Ahead(u, q, r)
               /\ Among(t, q) => Ahead(u, q, x)
    <2>1. Among(u, q) <=> Among(t, q)
      BY <1>2, <1>3 DEF Among
    <2>2. \A r \in Callers \ {x} : Ahead(t, q, r) => Ahead(u, q, r)
      BY <1>2, <1>3 DEF Ahead
    <2>3. \A i \in 1 .. Len(t) : i < Len(u)
      BY <1>1, <1>2
    <2>4. Among(t, q) => Ahead(u, q, x)
      BY <1>2, <2>3 DEF Ahead, Among
    <2> QED  BY <2>1, <2>2, <2>4
  <1>6. Among(u, x)
    BY <1>2 DEF Among
  <1>7. Kept(u, x) /\ AtTheEnd(u, x)
    BY <1>2, <1>4, <1>5, <1>6 DEF Kept, AtTheEnd
  <1> QED  BY <1>7 DEF u

(* What one request may do: ask the browser for what it has now, go on once those*)
(* it asked with are answered, take a session or leave it, and end well if sure. *)
LEMMA RequestMoves ==
    ASSUME WorkerInv, NEW x \in Callers, NEW m \in Asked,
           asked' = [asked EXCEPT ![x] = m], UNCHANGED <<site, visits>>,
           stored' \in BOOLEAN, sure' \in BOOLEAN, stored => stored',
           Kept(waiting', x),
           m.stage \in Waits => AtTheEnd(waiting', x), m.stage \notin Waits => ~Among(waiting', x),
           Fits(m), m.sure => Certain, sure' => AllOfSite,
           m.stage \in {"capturing", "taking"} => m.got = Worker!Cookie,
           m.stage = "storing" =>
               /\ asked[x].stage = "taking" /\ m.got = asked[x].got
               /\ \A q \in Callers : Ahead(waiting, q, x) => asked[q].stage \notin {"capturing", "taking"},
           m.stage = "connected" =>
               /\ asked[x].stage = "storing" /\ m.got = asked[x].got
               /\ \A q \in Callers : Ahead(waiting, q, x) => asked[q].stage # "storing",
           FindsNone(m) => ~Certain,
           m.sure /\ m.kind # "change" =>
               /\ m.stage \in {"capturing", "ruled"} =>
                      \A q \in Callers \ {x} : ~FindsNone(asked[q])
               /\ m.stage = "ruled" => Worker!Held' /\ rule' = site
               /\ ~(m.stage = "answered" /\ m.reply \in {"notConnected", "refused"}),
           /\ Certain /\ \A q \in Callers : ~FindsNone(asked[q])
           /\ Worker!Held /\ rule = site
           => Worker!Held' /\ rule' = site
    PROVE  WorkerInv'
  <1> USE DEF WorkerInv
  <1>1. /\ asked'[x] = m /\ site' = site /\ visits' = visits
        /\ \A q \in Callers \ {x} : asked'[q] = asked[q]
        /\ asked' \in [Callers -> Asked]
    BY DEF WorkerType
  <1>2. WorkerType'
    BY <1>1 DEF WorkerType, Fits
  <1>3. WaitingInLine'
    BY <1>1 DEF WaitingInLine, Kept, AtTheEnd
  <1>4. Certain' => Certain \/ sure'
    BY <1>1 DEF Certain
  <1>5. Certain => AllOfSite
    BY DEF SessionStandsStill
  <1>6. site # None => Worker!Cookie = site
    BY DEF Worker!Cookie
  <1>7. AllOfSite => OfSite(m, {"capturing", "taking", "storing"})
    BY <1>6 DEF OfSite, AllOfSite
  <1>8. SessionStandsStill'
    BY <1>1, <1>4, <1>5, <1>7 DEF SessionStandsStill, OfSite, AllOfSite
  <1>9. \A q, r \in Callers \ {x} : Ahead(waiting, q, r) => Ahead(waiting', q, r)
    BY DEF Kept
  <1>10. \A q \in Callers \ {x} : m.stage \in Waits /\ asked[q].stage \in Waits => Ahead(waiting', q, x)
    BY DEF AtTheEnd, Kept, WaitingInLine
  <1>11. ASSUME NEW r \in Callers \ {x} PROVE ConnectsInTurn(r)'
    <2>1. ConnectsInTurn(r) /\ asked'[r] = asked[r]
      BY <1>1
    <2>2. site # None => OfSite(m, {"capturing", "taking"})
      BY <1>6 DEF OfSite
    <2>3. asked[r].stage \in {"storing", "connected"} /\ site # None /\ asked[r].got = site => OfSite(m, {"storing"})
      BY <2>1 DEF OfSite, ConnectsInTurn
    <2> QED  BY <1>1, <1>9, <2>1, <2>2, <2>3 DEF ConnectsInTurn, OfSite
  <1>12. ConnectsInTurn(x)'
    <2>1. ConnectsInTurn(x)
      OBVIOUS
    <2>2. CASE m.stage = "taking"
      BY <1>1, <1>10, <2>2 DEF ConnectsInTurn, OfSite, Waits
    <2>3. CASE m.stage = "storing"
      BY <1>1, <1>10, <2>1, <2>3 DEF ConnectsInTurn, OfSite, Waits
    <2>4. CASE m.stage = "connected"
      BY <1>1, <2>1, <2>4 DEF ConnectsInTurn, OfSite
    <2> QED  BY <1>1, <2>2, <2>3, <2>4 DEF ConnectsInTurn
  <1>13. ASSUME NEW r \in Callers \ {x} PROVE SureIsServed(r)'
    <2> SUFFICES ASSUME asked[r].sure, asked[r].kind # "change" PROVE SureIsServed(r)'
      BY <1>1 DEF SureIsServed
    <2>1. SureIsServed(r) /\ asked'[r] = asked[r]
      BY <1>1
    <2>2. Certain /\ ~FindsNone(m)
      BY DEF Certain
    <2>3. \A q \in Callers : FindsNone(asked'[q]) => q # x /\ FindsNone(asked[q])
      BY <1>1, <2>2
    <2>4. asked[r].stage = "loading" => \A q \in Callers : FindsNone(asked'[q]) => Ahead(waiting', q, r)
      BY <1>9, <2>1, <2>3 DEF SureIsServed
    <2>5. asked[r].stage \in {"capturing", "ruled"} => \A q \in Callers : ~FindsNone(asked'[q])
      BY <2>1, <2>3 DEF SureIsServed
    <2>6. asked[r].stage = "ruled" => Worker!Held' /\ rule' = site
      BY <2>1, <2>2 DEF SureIsServed
    <2>7. ~Worker!Failed(r)'
      BY <2>1 DEF SureIsServed, Worker!Failed
    <2> QED  BY <1>1, <2>1, <2>4, <2>5, <2>6, <2>7 DEF SureIsServed
  <1>14. SureIsServed(x)'
    <2> SUFFICES ASSUME m.sure, m.kind # "change" PROVE SureIsServed(x)'
      BY <1>1 DEF SureIsServed
    <2>1. ~FindsNone(m)
      OBVIOUS
    <2>2. \A q \in Callers : FindsNone(asked'[q]) => q # x /\ FindsNone(asked[q])
      BY <1>1, <2>1
    <2>3. m.stage = "loading" => \A q \in Callers : FindsNone(asked'[q]) => Ahead(waiting', q, x)
      BY <1>10, <2>2 DEF FindsNone, Waits
    <2> QED  BY <1>1, <2>2, <2>3 DEF SureIsServed, Worker!Failed
  <1> QED  BY <1>2, <1>3, <1>8, <1>11, <1>12, <1>13, <1>14

LEMMA SureMeans == ASSUME WorkerInv PROVE Certain => AllOfSite /\ Worker!Cookie = site
  BY DEF WorkerInv, SessionStandsStill, AllOfSite, Worker!Cookie

(* A request in line whose answer has come has nobody ahead who asked the same.  *)
LEMMA HeardInTurn ==
    ASSUME WorkerInv, NEW x \in Callers, NEW place, Worker!Heard(x, place)
    PROVE  /\ asked[x].stage = place
           /\ \A q \in Callers : Ahead(waiting, q, x) => Worker!Of(asked[q].stage) # Worker!Of(place)
  BY DEF Worker!Heard, Ahead

(* The line as a request begins, asks once more and ends.                        *)
LEMMA LineMoves ==
    ASSUME WorkerInv, NEW x \in Callers
    PROVE  /\ Worker!Ended(x) =>
                  /\ Kept(Append(waiting, x), x) /\ AtTheEnd(Append(waiting, x), x)
                  /\ Kept(waiting, x) /\ ~Among(waiting, x)
           /\ Kept(Append(Worker!Others(x), x), x) /\ AtTheEnd(Append(Worker!Others(x), x), x)
           /\ Kept(Worker!Others(x), x) /\ ~Among(Worker!Others(x), x)
  <1>1. waiting \in Seq(Callers) /\ Once(waiting) /\ (Worker!Ended(x) => ~Among(waiting, x))
    BY DEF WorkerInv, WaitingInLine, Worker!Ended, Waits
  <1>2. Kept(waiting, x)
    BY <1>1 DEF Kept
  <1> QED  BY <1>1, <1>2, LeavesTheLine, GoesLast

LEMMA AskedIs ==
    ASSUME WorkerInv, NEW x \in Callers
    PROVE  /\ asked[x] \in Asked /\ Fits(asked[x]) /\ DOMAIN asked = Callers
           /\ asked[x] = [stage |-> asked[x].stage, kind |-> asked[x].kind, got |-> asked[x].got,
                          sure |-> asked[x].sure, reply |-> asked[x].reply]
           /\ asked[x].sure \in BOOLEAN
           /\ asked[x].sure => Certain
  BY DEF WorkerInv, WorkerType, Asked, Certain

LEMMA CookieIs ==
    ASSUME WorkerInv
    PROVE  /\ Worker!Cookie \in 0 .. visits /\ visits \in Nat /\ stored \in BOOLEAN /\ sure \in BOOLEAN
           /\ site # None => site \in 1 .. visits
           /\ sure => Certain
  BY DEF WorkerInv, WorkerType, Worker!Cookie, Worker!Empty, Certain

(* What becomes of the record of a request.                                      *)
LEMMA FieldsChange ==
    ASSUME NEW m \in Asked, NEW value
    PROVE  /\ [m EXCEPT !.stage = value] = [stage |-> value, kind |-> m.kind, got |-> m.got,
                                            sure |-> m.sure, reply |-> m.reply]
           /\ [m EXCEPT !.kind = value] = [stage |-> m.stage, kind |-> value, got |-> m.got,
                                           sure |-> m.sure, reply |-> m.reply]
           /\ [m EXCEPT !.got = value] = [stage |-> m.stage, kind |-> m.kind, got |-> value,
                                          sure |-> m.sure, reply |-> m.reply]
           /\ [m EXCEPT !.sure = value] = [stage |-> m.stage, kind |-> m.kind, got |-> m.got,
                                           sure |-> value, reply |-> m.reply]
           /\ [m EXCEPT !.reply = value] = [stage |-> m.stage, kind |-> m.kind, got |-> m.got,
                                            sure |-> m.sure, reply |-> value]
  BY DEF Asked

LEMMA RecordBegins ==
    ASSUME NEW x \in Callers, NEW kind \in RequestKinds, NEW place \in Waits, NEW value \in Gots,
           Worker!Begins(x, kind, place, value), sure \in BOOLEAN
    PROVE  /\ Worker!Ended(x) /\ waiting' = Append(waiting, x)
           /\ asked' = [asked EXCEPT ![x] = [stage |-> place, kind |-> kind, got |-> value,
                                             sure |-> sure, reply |-> None]]
  <1> DEFINE a == [Worker!Idle EXCEPT !.kind = kind]
             b == [a EXCEPT !.sure = sure]
             c == [b EXCEPT !.stage = place]
  <1>1. Worker!Idle \in Asked
    BY DEF Worker!Idle, Asked, Gots, RequestKinds, Replies
  <1>2. /\ a = [stage |-> "idle", kind |-> kind, got |-> None, sure |-> FALSE, reply |-> None]
        /\ a \in Asked
    BY <1>1, FieldsChange DEF Worker!Idle, Asked
  <1> HIDE DEF a
  <1>3. /\ b = [stage |-> "idle", kind |-> kind, got |-> None, sure |-> sure, reply |-> None]
        /\ b \in Asked
    BY <1>2, FieldsChange DEF Asked
  <1> HIDE DEF b
  <1>4. /\ c = [stage |-> place, kind |-> kind, got |-> None, sure |-> sure, reply |-> None]
        /\ c \in Asked
    BY <1>3, FieldsChange DEF Asked
  <1> HIDE DEF c
  <1>5. [c EXCEPT !.got = value] = [stage |-> place, kind |-> kind, got |-> value,
                                    sure |-> sure, reply |-> None]
    BY <1>4, FieldsChange
  <1> QED  BY <1>5 DEF Worker!Begins, Worker!Begun, a, b, c

LEMMA RecordAsks ==
    ASSUME WorkerInv, NEW x \in Callers, NEW place \in Waits, NEW value, Worker!Asks(x, place, value)
    PROVE  /\ waiting' = Append(Worker!Others(x), x)
           /\ asked' = [asked EXCEPT ![x] = [stage |-> place, kind |-> asked[x].kind, got |-> value,
                                             sure |-> asked[x].sure, reply |-> asked[x].reply]]
  <1> DEFINE a == [asked[x] EXCEPT !.stage = place]
             b == [a EXCEPT !.got = value]
  <1>1. asked \in [Callers -> Asked] /\ asked[x] \in Asked
    BY DEF WorkerInv, WorkerType
  <1>2. /\ a = [stage |-> place, kind |-> asked[x].kind, got |-> asked[x].got,
                sure |-> asked[x].sure, reply |-> asked[x].reply]
        /\ a \in Asked
    BY <1>1, FieldsChange DEF Asked
  <1>3. [asked EXCEPT ![x].stage = place, ![x].got = value] = [asked EXCEPT ![x] = b]
    BY <1>1
  <1> HIDE DEF a
  <1>4. b = [stage |-> place, kind |-> asked[x].kind, got |-> value,
             sure |-> asked[x].sure, reply |-> asked[x].reply]
    BY <1>2, FieldsChange
  <1> QED  BY <1>3, <1>4 DEF Worker!Asks

LEMMA RecordAnswers ==
    ASSUME WorkerInv, NEW x \in Callers, NEW status, Worker!Answers(x, status)
    PROVE  /\ waiting' = Worker!Others(x)
           /\ asked' = [asked EXCEPT ![x] = [stage |-> "answered", kind |-> asked[x].kind, got |-> None,
                                             sure |-> asked[x].sure, reply |-> status]]
  <1> DEFINE a == [asked[x] EXCEPT !.stage = "answered"]
             b == [a EXCEPT !.got = None]
             c == [b EXCEPT !.reply = status]
  <1>1. asked \in [Callers -> Asked] /\ asked[x] \in Asked
    BY DEF WorkerInv, WorkerType
  <1>2. /\ a = [stage |-> "answered", kind |-> asked[x].kind, got |-> asked[x].got,
                sure |-> asked[x].sure, reply |-> asked[x].reply]
        /\ a \in Asked
    BY <1>1, FieldsChange DEF Asked
  <1>3. [asked EXCEPT ![x].stage = "answered", ![x].got = None, ![x].reply = status]
            = [asked EXCEPT ![x] = c]
    BY <1>1
  <1> HIDE DEF a
  <1>4. /\ b = [stage |-> "answered", kind |-> asked[x].kind, got |-> None,
                sure |-> asked[x].sure, reply |-> asked[x].reply]
        /\ b \in Asked
    BY <1>2, FieldsChange DEF Asked, Gots
  <1> HIDE DEF b
  <1>5. c = [stage |-> "answered", kind |-> asked[x].kind, got |-> None,
             sure |-> asked[x].sure, reply |-> status]
    BY <1>4, FieldsChange
  <1> QED  BY <1>3, <1>5 DEF Worker!Answers

(* Requests begin.                                                               *)
LEMMA ReadBegins == ASSUME WorkerInv, NEW x \in Callers, Worker!Read(x) PROVE WorkerInv'
  <1>1. PICK kind \in {"account", "session"} : Worker!Begins(x, kind, "loading", stored)
    BY DEF Worker!Read
  <1> DEFINE m == [stage |-> "loading", kind |-> kind, got |-> stored, sure |-> sure, reply |-> None]
  <1>2. /\ Worker!Ended(x) /\ asked' = [asked EXCEPT ![x] = m] /\ waiting' = Append(waiting, x)
        /\ UNCHANGED <<site, visits, stored, ours, rule, sure>>
    BY <1>1, RecordBegins, CookieIs DEF Worker!Read, RequestKinds, Reading, Waits, Gots
  <1>3. m \in Asked /\ Fits(m)
    BY CookieIs DEF Asked, RequestKinds, Gots, Replies, Fits, Reading, Waits
  <1>4. FindsNone(m) => ~Certain
    BY SureMeans DEF FindsNone, AllOfSite
  <1>5. m.stage = "loading" /\ m.sure = sure
    OBVIOUS
  <1> HIDE DEF m
  <1>6. Worker!Held' <=> Worker!Held
    BY <1>2 DEF Worker!Held
  <1> QED  BY <1>2, <1>3, <1>4, <1>5, <1>6, LineMoves, SureMeans, CookieIs, RequestMoves DEF Waits

LEMMA ChangeBegins ==
    ASSUME WorkerInv, NEW x \in Callers, Worker!Change(x) \/ Worker!Tick(x) PROVE WorkerInv'
  <1> DEFINE asks == [stage |-> "loading", kind |-> "change", got |-> stored, sure |-> sure,
                      reply |-> None]
             over == [stage |-> "answered", kind |-> "change", got |-> None, sure |-> sure,
                      reply |-> "notConnected"]
  <1>1. UNCHANGED <<site, visits, stored, ours, rule, sure>> /\ Worker!Ended(x)
    BY DEF Worker!Change, Worker!Tick, Worker!Begins
  <1>2. \/ asked' = [asked EXCEPT ![x] = asks] /\ waiting' = Append(waiting, x)
        \/ asked' = [asked EXCEPT ![x] = over] /\ waiting' = waiting
    BY DEF Worker!Change, Worker!Tick, Worker!Begins, Worker!Begun, Worker!Idle
  <1>3. asks \in Asked /\ Fits(asks) /\ over \in Asked /\ Fits(over)
    BY CookieIs DEF Asked, RequestKinds, Gots, Replies, Fits, Reading, Waits
  <1>4. /\ asks.stage = "loading" /\ asks.sure = sure /\ asks.kind = "change" /\ ~FindsNone(asks)
        /\ over.stage = "answered" /\ over.sure = sure /\ over.kind = "change" /\ ~FindsNone(over)
    BY DEF FindsNone, Reading
  <1> HIDE DEF asks, over
  <1>5. Worker!Held' <=> Worker!Held
    BY <1>1 DEF Worker!Held
  <1>6. CASE asked' = [asked EXCEPT ![x] = asks] /\ waiting' = Append(waiting, x)
    BY <1>1, <1>3, <1>4, <1>5, <1>6, LineMoves, SureMeans, CookieIs, RequestMoves DEF Waits
  <1>7. CASE asked' = [asked EXCEPT ![x] = over] /\ waiting' = waiting
    BY <1>1, <1>3, <1>4, <1>5, <1>7, LineMoves, SureMeans, CookieIs, RequestMoves DEF Waits
  <1> QED  BY <1>2, <1>6, <1>7

LEMMA ConnectBegins == ASSUME WorkerInv, NEW x \in Callers, Worker!Connect(x) PROVE WorkerInv'
  <1> DEFINE m == [stage |-> "taking", kind |-> "connect", got |-> Worker!Cookie, sure |-> sure,
                   reply |-> None]
  <1>1. /\ Worker!Ended(x) /\ asked' = [asked EXCEPT ![x] = m] /\ waiting' = Append(waiting, x)
        /\ UNCHANGED <<site, visits, stored, ours, rule, sure>>
    <2>1. Worker!Cookie \in Gots /\ "connect" \in RequestKinds /\ "taking" \in Waits /\ sure \in BOOLEAN
      BY CookieIs DEF Gots, RequestKinds, Waits
    <2>2. Worker!Begins(x, "connect", "taking", Worker!Cookie)
      BY DEF Worker!Connect
    <2>3. /\ Worker!Ended(x) /\ waiting' = Append(waiting, x) /\ asked' = [asked EXCEPT ![x] = m]
      BY <2>1, <2>2, RecordBegins
    <2> QED  BY <2>3 DEF Worker!Connect
  <1>2. m \in Asked /\ Fits(m) /\ ~FindsNone(m)
    BY CookieIs DEF Asked, RequestKinds, Gots, Replies, Fits, Reading, Waits, FindsNone
  <1>3. m.stage = "taking" /\ m.sure = sure /\ m.got = Worker!Cookie
    OBVIOUS
  <1> HIDE DEF m
  <1>4. Worker!Held' <=> Worker!Held
    BY <1>1 DEF Worker!Held
  <1> QED  BY <1>1, <1>2, <1>3, <1>4, LineMoves, SureMeans, CookieIs, RequestMoves DEF Waits

(* A read goes on to the copy.                                                   *)
LEMMA ReadCaptures ==
    ASSUME WorkerInv, NEW x \in Callers, Worker!Loaded(x), asked[x].got PROVE WorkerInv'
  <1> DEFINE m == [stage |-> "capturing", kind |-> asked[x].kind, got |-> Worker!Cookie,
                   sure |-> asked[x].sure, reply |-> asked[x].reply]
  <1>1. /\ Worker!Heard(x, "loading") /\ asked[x].kind # "change"
        /\ asked' = [asked EXCEPT ![x] = m] /\ waiting' = Append(Worker!Others(x), x)
        /\ UNCHANGED <<site, visits, stored, ours, rule, sure>>
    BY RecordAsks DEF Worker!Loaded, Waits
  <1>2. /\ asked[x].stage = "loading"
        /\ \A q \in Callers : Ahead(waiting, q, x) => asked[q].stage # "loading"
    BY <1>1, HeardInTurn DEF Worker!Of
  <1>3. m \in Asked /\ Fits(m) /\ ~FindsNone(m)
    <2>1. asked[x].kind \in Reading /\ asked[x] \in Asked
      BY <1>1, <1>2, AskedIs DEF Fits
    <2>2. Worker!Cookie \in 0 .. visits /\ Worker!Cookie \in Gots
      BY CookieIs DEF Gots
    <2>3. m \in Asked
      BY <2>1, <2>2 DEF Asked, Waits
    <2> QED  BY <2>1, <2>2, <2>3 DEF Fits, FindsNone
  <1>4. m.sure => \A q \in Callers : ~FindsNone(asked[q])
    <2>1. SureIsServed(x)
      BY DEF WorkerInv
    <2> QED  BY <1>1, <1>2, <2>1 DEF SureIsServed, FindsNone
  <1>5. m.stage = "capturing" /\ m.sure = asked[x].sure /\ m.got = Worker!Cookie
    OBVIOUS
  <1> HIDE DEF m
  <1>6. Worker!Held' <=> Worker!Held
    BY <1>1 DEF Worker!Held
  <1> QED  BY <1>1, <1>3, <1>4, <1>5, <1>6, LineMoves, SureMeans, CookieIs, AskedIs, RequestMoves DEF Waits

(* A read has its copy: the browser's, unless no session was stored.             *)
LEMMA CopyIsTaken ==
    ASSUME WorkerInv, NEW x \in Callers, NEW copy, Worker!TakeCopy(x, copy),
           asked[x].kind \in Reading,
           \/ FindsNone(asked[x]) /\ Worker!Heard(x, "loading") /\ copy = None
           \/ asked[x].stage = "capturing" /\ copy = asked[x].got
    PROVE  WorkerInv'
  <1> DEFINE status == IF copy \in {None, Worker!Empty} THEN "notConnected" ELSE "ok"
             told == [stage |-> "answered", kind |-> asked[x].kind, got |-> None,
                      sure |-> asked[x].sure, reply |-> status]
             goes == [stage |-> "ruled", kind |-> asked[x].kind, got |-> None,
                      sure |-> asked[x].sure, reply |-> asked[x].reply]
  <1>1. ours' = copy /\ UNCHANGED <<site, visits, stored, sure>>
    BY DEF Worker!TakeCopy
  <1>2. \/ /\ asked' = [asked EXCEPT ![x] = told] /\ waiting' = Worker!Others(x) /\ rule' = rule
        \/ /\ asked' = [asked EXCEPT ![x] = goes] /\ waiting' = Append(Worker!Others(x), x)
           /\ rule' = Worker!RuleOf(copy)
    BY RecordAsks, RecordAnswers DEF Worker!TakeCopy, Waits
  <1>3. told \in Asked /\ Fits(told) /\ goes \in Asked /\ Fits(goes)
    BY AskedIs DEF Asked, RequestKinds, Gots, Replies, Fits, Reading, Waits
  <1>4. asked[x].sure => asked[x].stage = "capturing" /\ \A q \in Callers : ~FindsNone(asked[q])
    <2>1. SureIsServed(x) /\ Once(waiting)
      BY DEF WorkerInv, WaitingInLine
    <2>2. ~Ahead(waiting, x, x)
      BY <2>1 DEF Ahead, Once
    <2> QED  BY <2>1, <2>2 DEF SureIsServed, FindsNone, Reading
  <1>5. Certain /\ asked[x].stage = "capturing" =>
            Worker!Held' /\ Worker!RuleOf(copy) = site /\ copy = site /\ status = "ok"
    <2> SUFFICES ASSUME Certain, asked[x].stage = "capturing"
                 PROVE  Worker!Held' /\ Worker!RuleOf(copy) = site /\ copy = site /\ status = "ok"
      OBVIOUS
    <2>1. copy = site /\ site # None
      BY SureMeans DEF AllOfSite, OfSite, FindsNone
    <2>2. site # 0
      BY <2>1, CookieIs
    <2> QED  BY <1>1, <2>1, <2>2 DEF Worker!Held, Worker!RuleOf, Worker!Empty
  <1>6. asked[x].stage = "capturing" \/ FindsNone(asked[x])
    OBVIOUS
  <1>7. /\ told.stage = "answered" /\ told.sure = asked[x].sure /\ told.reply = status
        /\ goes.stage = "ruled" /\ goes.sure = asked[x].sure
        /\ ~FindsNone(told) /\ ~FindsNone(goes)
    BY DEF FindsNone
  <1> HIDE DEF told, goes, status
  <1>8. CASE /\ asked' = [asked EXCEPT ![x] = told] /\ waiting' = Worker!Others(x) /\ rule' = rule
    BY <1>1, <1>3, <1>4, <1>5, <1>6, <1>7, <1>8, LineMoves, SureMeans, CookieIs, AskedIs, RequestMoves DEF Waits
  <1>9. CASE /\ asked' = [asked EXCEPT ![x] = goes] /\ waiting' = Append(Worker!Others(x), x)
             /\ rule' = Worker!RuleOf(copy)
    BY <1>1, <1>3, <1>4, <1>5, <1>6, <1>7, <1>9, LineMoves, SureMeans, CookieIs, AskedIs, RequestMoves DEF Waits
  <1> QED  BY <1>2, <1>8, <1>9

LEMMA ReadLoads == ASSUME WorkerInv, NEW x \in Callers, Worker!Loaded(x) PROVE WorkerInv'
  <1>1. CASE asked[x].got
    BY <1>1, ReadCaptures
  <1>2. CASE ~asked[x].got
    <2>1. Worker!Heard(x, "loading") /\ asked[x].kind # "change" /\ Worker!TakeCopy(x, None)
      BY <1>2 DEF Worker!Loaded
    <2>2. asked[x].stage = "loading" /\ asked[x].kind \in Reading /\ asked[x].got = FALSE
      BY <1>2, <2>1, HeardInTurn, AskedIs DEF Fits
    <2> QED  BY <2>1, <2>2, CopyIsTaken DEF FindsNone
  <1> QED  BY <1>1, <1>2

LEMMA ReadCaptured == ASSUME WorkerInv, NEW x \in Callers, Worker!Captured(x) PROVE WorkerInv'
  <1>1. asked[x].stage = "capturing" /\ Worker!TakeCopy(x, asked[x].got)
    BY HeardInTurn DEF Worker!Captured
  <1>2. asked[x].kind \in Reading
    BY <1>1, AskedIs DEF Fits
  <1> QED  BY <1>1, <1>2, CopyIsTaken

(* A request is answered and touches nothing but its record and its place.       *)
LEMMA IsAnswered ==
    ASSUME WorkerInv, NEW x \in Callers, NEW status \in Replies, Worker!Answers(x, status),
           UNCHANGED <<site, visits, stored, ours, rule, sure>>,
           asked[x].sure /\ asked[x].kind # "change" => status = "ok"
    PROVE  WorkerInv'
  <1> DEFINE m == [stage |-> "answered", kind |-> asked[x].kind, got |-> None,
                   sure |-> asked[x].sure, reply |-> status]
  <1>1. asked' = [asked EXCEPT ![x] = m] /\ waiting' = Worker!Others(x)
    BY RecordAnswers
  <1>2. m \in Asked /\ Fits(m) /\ ~FindsNone(m)
    BY AskedIs DEF Asked, Gots, Fits, FindsNone
  <1>3. m.stage = "answered" /\ m.sure = asked[x].sure /\ m.kind = asked[x].kind /\ m.reply = status
    OBVIOUS
  <1> HIDE DEF m
  <1>4. Worker!Held' <=> Worker!Held
    BY DEF Worker!Held
  <1> QED
    BY <1>1, <1>2, <1>3, <1>4, LineMoves, SureMeans, CookieIs, AskedIs, RequestMoves DEF Waits

LEMMA ReadIsHandled == ASSUME WorkerInv, NEW x \in Callers, Worker!Handled(x) PROVE WorkerInv'
  <1>1. asked[x].stage = "ruled" /\ UNCHANGED <<site, visits, stored, ours, rule, sure>>
    BY HeardInTurn DEF Worker!Handled
  <1>2. asked[x].kind \in Reading /\ asked[x] \in Asked
    BY <1>1, AskedIs DEF Fits
  <1>3. asked[x].sure => Worker!Reply = "ok" /\ \A q \in Callers : ~FindsNone(asked[q])
    <2>1. SureIsServed(x)
      BY DEF WorkerInv
    <2> QED  BY <1>1, <1>2, <2>1, SureMeans, AskedIs DEF SureIsServed, AllOfSite, Worker!Reply, Reading
  <1>4. CASE Worker!Answers(x, Worker!Reply)
    <2>1. Worker!Reply \in Replies
      BY DEF Worker!Reply, Replies
    <2> QED  BY <1>1, <1>3, <1>4, <2>1, IsAnswered
  <1>5. CASE /\ asked[x].kind = "account"
             /\ asked' = [asked EXCEPT ![x].stage = "loading", ![x].got = stored, ![x].kind = "again"]
             /\ waiting' = Append(Worker!Others(x), x)
    <2> DEFINE a == [asked[x] EXCEPT !.stage = "loading"]
               b == [a EXCEPT !.got = stored]
               m == [b EXCEPT !.kind = "again"]
    <2>1. /\ a = [stage |-> "loading", kind |-> asked[x].kind, got |-> asked[x].got,
                  sure |-> asked[x].sure, reply |-> asked[x].reply]
          /\ a \in Asked
      BY <1>2, FieldsChange DEF Asked, Waits
    <2>2. asked \in [Callers -> Asked]
      BY DEF WorkerInv, WorkerType
    <2>3. asked' = [asked EXCEPT ![x] = m]
      BY <1>5, <2>2
    <2> HIDE DEF a
    <2>4. /\ b = [stage |-> "loading", kind |-> asked[x].kind, got |-> stored,
                  sure |-> asked[x].sure, reply |-> asked[x].reply]
          /\ b \in Asked
      BY <2>1, CookieIs, FieldsChange DEF Asked, Gots
    <2> HIDE DEF b
    <2>5. /\ m = [stage |-> "loading", kind |-> "again", got |-> stored,
                  sure |-> asked[x].sure, reply |-> asked[x].reply]
          /\ m \in Asked
      BY <2>4, CookieIs, FieldsChange DEF Asked, RequestKinds, Reading
    <2> HIDE DEF m
    <2>6. Fits(m)
      BY <2>5, CookieIs DEF Fits, Reading
    <2>7. m.stage = "loading" /\ m.sure = asked[x].sure /\ m.got = stored
      BY <2>5
    <2>8. FindsNone(m) => ~Certain
      BY <2>7, SureMeans DEF FindsNone, AllOfSite
    <2>9. Worker!Held' <=> Worker!Held
      BY <1>1 DEF Worker!Held
    <2> QED
      BY <1>1, <2>3, <1>5, <2>5, <2>6, <2>7, <2>8, <2>9, LineMoves, SureMeans, CookieIs, AskedIs,
         RequestMoves DEF Waits
  <1> QED  BY <1>4, <1>5 DEF Worker!Handled

LEMMA ChangeIsMade == ASSUME WorkerInv, NEW x \in Callers, Worker!Changed(x) PROVE WorkerInv'
  <1>1. Worker!Reply \in Replies
    BY DEF Worker!Reply, Replies
  <1> QED  BY <1>1, IsAnswered DEF Worker!Changed

(* A connection, step by step.                                                   *)
LEMMA SessionIsTaken == ASSUME WorkerInv, NEW x \in Callers, Worker!Taken(x) PROVE WorkerInv'
  <1>1. /\ asked[x].stage = "taking" /\ UNCHANGED <<site, visits, rule, sure>>
        /\ \A q \in Callers : Ahead(waiting, q, x) => asked[q].stage \notin {"capturing", "taking"}
    BY HeardInTurn DEF Worker!Taken, Worker!Of
  <1>2. asked[x].kind = "connect" /\ asked[x].got \in 0 .. visits /\ asked[x] \in Asked
    BY <1>1, AskedIs DEF Fits
  <1>3. Certain => asked[x].got = site /\ site # None /\ asked[x].got # 0
    BY <1>1, SureMeans, CookieIs DEF AllOfSite, OfSite
  <1>4. CASE asked[x].got = 0
    <2>1. Worker!Answers(x, "notConnected") /\ UNCHANGED <<stored, ours>>
      BY <1>4 DEF Worker!Taken, Worker!Empty
    <2>2. "notConnected" \in Replies
      BY DEF Replies
    <2>3. ~asked[x].sure
      BY <1>3, <1>4, AskedIs
    <2> QED  BY <1>1, <2>1, <2>2, <2>3, IsAnswered
  <1>5. CASE asked[x].got # 0
    <2> DEFINE m == [stage |-> "storing", kind |-> asked[x].kind, got |-> asked[x].got,
                     sure |-> asked[x].sure, reply |-> asked[x].reply]
    <2>1. Worker!Asks(x, "storing", asked[x].got) /\ ours' = asked[x].got /\ stored' = TRUE
      BY <1>5 DEF Worker!Taken, Worker!Empty
    <2>2. asked' = [asked EXCEPT ![x] = m] /\ waiting' = Append(Worker!Others(x), x)
      BY <2>1, RecordAsks DEF Waits
    <2>3. m \in Asked
      BY <1>2 DEF Asked, Waits
    <2>4. Fits(m) /\ ~FindsNone(m)
      BY <1>2, <1>5, CookieIs DEF Fits, FindsNone
    <2>5. m.stage = "storing" /\ m.sure = asked[x].sure /\ m.got = asked[x].got
      OBVIOUS
    <2> HIDE DEF m
    <2>6. Certain => Worker!Held'
      BY <1>3, <2>1 DEF Worker!Held, Worker!Empty
    <2> QED
      BY <1>1, <2>1, <2>2, <2>3, <2>4, <2>5, <2>6, LineMoves, SureMeans, CookieIs, AskedIs,
         RequestMoves DEF Waits
  <1> QED  BY <1>4, <1>5

LEMMA SessionIsStored == ASSUME WorkerInv, NEW x \in Callers, Worker!Stored(x) PROVE WorkerInv'
  <1> DEFINE m == [stage |-> "connected", kind |-> asked[x].kind, got |-> asked[x].got,
                   sure |-> asked[x].sure, reply |-> asked[x].reply]
  <1>1. /\ asked[x].stage = "storing" /\ UNCHANGED <<site, visits, stored, ours, sure>>
        /\ rule' = asked[x].got
        /\ \A q \in Callers : Ahead(waiting, q, x) => asked[q].stage # "storing"
    BY HeardInTurn DEF Worker!Stored, Worker!Of
  <1>2. asked[x].kind = "connect" /\ asked[x].got \in 1 .. visits /\ asked[x] \in Asked
    BY <1>1, AskedIs DEF Fits
  <1>3. asked' = [asked EXCEPT ![x] = m] /\ waiting' = Append(Worker!Others(x), x)
    BY RecordAsks DEF Worker!Stored, Waits
  <1>4. m \in Asked
    BY <1>2 DEF Asked, Waits
  <1>5. Fits(m) /\ ~FindsNone(m)
    BY <1>2 DEF Fits, FindsNone
  <1>6. m.stage = "connected" /\ m.sure = asked[x].sure /\ m.got = asked[x].got
    OBVIOUS
  <1> HIDE DEF m
  <1>7. Certain => rule' = site
    BY <1>1, SureMeans DEF AllOfSite, OfSite
  <1>8. Worker!Held' <=> Worker!Held
    BY <1>1 DEF Worker!Held
  <1> QED
    BY <1>1, <1>3, <1>4, <1>5, <1>6, <1>7, <1>8, LineMoves, SureMeans, CookieIs, AskedIs,
       RequestMoves DEF Waits

LEMMA IsConnected == ASSUME WorkerInv, NEW x \in Callers, Worker!Connected(x) PROVE WorkerInv'
  <1> DEFINE m == [stage |-> "answered", kind |-> asked[x].kind, got |-> None,
                   sure |-> asked[x].sure, reply |-> "ok"]
  <1>1. /\ asked[x].stage = "connected" /\ UNCHANGED <<site, visits, stored, ours, rule>>
        /\ sure' = (stored /\ site = asked[x].got)
    BY HeardInTurn DEF Worker!Connected
  <1>2. asked[x].got \in 1 .. visits /\ asked[x].kind = "connect"
    BY <1>1, AskedIs DEF Fits
  <1>3. sure' \in BOOLEAN /\ (sure' => AllOfSite)
    <2>1. ConnectsInTurn(x) /\ None \notin 1 .. visits
      BY InstancesSuit DEF WorkerInv, WorkerType, Worker!SessionAssumption
    <2> QED  BY <1>1, <1>2, <2>1 DEF ConnectsInTurn, AllOfSite
  <1>4. asked' = [asked EXCEPT ![x] = m] /\ waiting' = Worker!Others(x)
    BY RecordAnswers DEF Worker!Connected
  <1>5. m \in Asked /\ Fits(m) /\ ~FindsNone(m)
    BY AskedIs DEF Asked, Gots, Replies, Fits, FindsNone
  <1>6. m.stage = "answered" /\ m.sure = asked[x].sure /\ m.reply = "ok"
    OBVIOUS
  <1> HIDE DEF m
  <1>7. Worker!Held' <=> Worker!Held
    BY <1>1 DEF Worker!Held
  <1> QED
    BY <1>1, <1>3, <1>4, <1>5, <1>6, <1>7, LineMoves, CookieIs, AskedIs, RequestMoves DEF Waits

(* What ends the certainty.                                                      *)
LEMMA UncertainIs ==
    ASSUME WorkerInv
    PROVE  /\ Worker!Uncertain \in [Callers -> Asked]
           /\ \A r \in Callers :
                 /\ Worker!Uncertain[r].stage = asked[r].stage /\ Worker!Uncertain[r].kind = asked[r].kind
                 /\ Worker!Uncertain[r].got = asked[r].got /\ ~Worker!Uncertain[r].sure
  <1>1. ASSUME NEW r \in Callers
        PROVE  /\ [asked[r] EXCEPT !.sure = FALSE]
                     = [stage |-> asked[r].stage, kind |-> asked[r].kind, got |-> asked[r].got,
                        sure |-> FALSE, reply |-> asked[r].reply]
               /\ [asked[r] EXCEPT !.sure = FALSE] \in Asked
    BY AskedIs, FieldsChange DEF Asked
  <1> QED  BY <1>1 DEF Worker!Uncertain

LEMMA UserSigns == ASSUME WorkerInv, Worker!Sign PROVE WorkerInv'
  <1>1. /\ sure' = FALSE /\ asked' = Worker!Uncertain /\ UNCHANGED <<stored, waiting>>
        /\ \/ visits < MaxSignings /\ visits' = visits + 1 /\ site' = visits + 1
           \/ site' = None /\ visits' = visits
    BY DEF Worker!Sign
  <1>2. MaxSignings \in Nat /\ visits \in 0 .. MaxSignings
    BY InstancesSuit DEF WorkerInv, WorkerType, Worker!SessionAssumption
  <1>3. /\ asked' \in [Callers -> Asked]
        /\ \A r \in Callers : /\ asked'[r].stage = asked[r].stage /\ asked'[r].kind = asked[r].kind
                              /\ asked'[r].got = asked[r].got /\ ~asked'[r].sure
    BY <1>1, UncertainIs
  <1>4. WorkerType'
    <2>1. /\ visits' \in 0 .. MaxSignings /\ site' \in (1 .. visits') \cup {None}
          /\ \A n \in 0 .. visits : n \in 0 .. visits'
          /\ \A n \in 1 .. visits : n \in 1 .. visits'
      BY <1>1, <1>2
    <2>2. ASSUME NEW r \in Callers PROVE Fits(asked[r])'
      BY <1>3, <2>1, AskedIs DEF Fits
    <2>3. stored' \in BOOLEAN /\ sure' \in BOOLEAN
      BY <1>1, CookieIs
    <2> QED  BY <1>3, <2>1, <2>2, <2>3 DEF WorkerType
  <1>5. WaitingInLine'
    BY <1>1, <1>3 DEF WorkerInv, WaitingInLine
  <1>6. ~Certain'
    BY <1>1, <1>3 DEF Certain
  <1>7. ASSUME NEW r \in Callers PROVE ConnectsInTurn(r)'
    <2>1. asked[r].stage \in {"taking", "storing", "connected"} => asked[r].got \in 0 .. visits
      <3>1. Fits(asked[r])
        BY AskedIs
      <3>2. \A n \in 1 .. visits : n \in 0 .. visits
        BY <1>2
      <3> QED  BY <3>1, <3>2 DEF Fits
    <2>2. asked[r].stage \in {"taking", "storing", "connected"} /\ site' # None => asked[r].got # site'
      BY <1>1, <1>2, <2>1
    <2> QED  BY <1>3, <2>2 DEF ConnectsInTurn
  <1>8. \A r \in Callers : SureIsServed(r)'
    BY <1>3 DEF SureIsServed
  <1> QED  BY <1>4, <1>5, <1>6, <1>7, <1>8 DEF WorkerInv, SessionStandsStill

LEMMA UserDisconnects == ASSUME WorkerInv, NEW x \in Callers, Worker!Disconnect(x) PROVE WorkerInv'
  <1> DEFINE m == [Worker!Idle EXCEPT !.kind = "disconnect"]
  <1>1. /\ Worker!Ended(x) /\ stored' = FALSE /\ sure' = FALSE /\ UNCHANGED <<site, visits, waiting>>
        /\ asked' = [Worker!Uncertain EXCEPT ![x] = m]
    BY DEF Worker!Disconnect
  <1>2. /\ m = [stage |-> "idle", kind |-> "disconnect", got |-> None, sure |-> FALSE, reply |-> None]
        /\ m \in Asked
    <2>1. Worker!Idle \in Asked
      BY DEF Worker!Idle, Asked, Gots, RequestKinds, Replies
    <2> QED  BY <2>1, FieldsChange DEF Worker!Idle, Asked, RequestKinds
  <1>3. m.stage = "idle" /\ ~m.sure
    BY <1>2
  <1> HIDE DEF m
  <1>4. /\ asked' \in [Callers -> Asked] /\ asked'[x] = m
        /\ \A r \in Callers \ {x} :
              /\ asked'[r].stage = asked[r].stage /\ asked'[r].kind = asked[r].kind
              /\ asked'[r].got = asked[r].got /\ ~asked'[r].sure
    BY <1>1, <1>2, UncertainIs
  <1>5. WorkerType'
    BY <1>1, <1>3, <1>4 DEF WorkerInv, WorkerType, Fits
  <1>6. WaitingInLine'
    BY <1>1, <1>3, <1>4 DEF WorkerInv, WaitingInLine, Waits, Worker!Ended
  <1>7. ~Certain'
    BY <1>1, <1>3, <1>4 DEF Certain
  <1>8. ASSUME NEW r \in Callers PROVE ConnectsInTurn(r)'
    BY <1>1, <1>3, <1>4 DEF ConnectsInTurn, OfSite, WorkerInv
  <1>9. \A r \in Callers : SureIsServed(r)'
    BY <1>3, <1>4 DEF SureIsServed
  <1> QED  BY <1>5, <1>6, <1>7, <1>8, <1>9 DEF WorkerInv, SessionStandsStill

LEMMA WorkerIsTornDown == ASSUME WorkerInv, Worker!TearDown PROVE WorkerInv'
  <1>1. /\ asked' = [r \in Callers |-> Worker!Idle] /\ waiting' = <<>>
        /\ UNCHANGED <<site, visits, stored, sure>>
    BY DEF Worker!TearDown
  <1>2. /\ Worker!Idle \in Asked /\ Worker!Idle.stage = "idle" /\ ~Worker!Idle.sure
    BY DEF Worker!Idle, Asked, Gots, RequestKinds, Replies
  <1>3. /\ asked' \in [Callers -> Asked]
        /\ \A r \in Callers : asked'[r].stage = "idle" /\ ~asked'[r].sure
    BY <1>1, <1>2
  <1>4. WorkerType'
    BY <1>1, <1>3 DEF WorkerInv, WorkerType, Fits
  <1>5. WaitingInLine'
    BY <1>1, <1>3 DEF WaitingInLine, Waits, Among, Once
  <1>6. SessionStandsStill'
    BY <1>1, <1>3 DEF WorkerInv, SessionStandsStill, AllOfSite, Certain, OfSite
  <1>7. \A r \in Callers : ConnectsInTurn(r)' /\ SureIsServed(r)'
    BY <1>3 DEF ConnectsInTurn, SureIsServed
  <1> QED  BY <1>4, <1>5, <1>6, <1>7 DEF WorkerInv

LEMMA WorkerStarts == ASSUME AccountInit PROVE WorkerInv
  <1>1. /\ asked = [r \in Callers |-> Worker!Idle] /\ waiting = <<>>
        /\ site = None /\ visits = 0 /\ stored = FALSE /\ sure = FALSE
    BY DEF AccountInit, Worker!Init
  <1>2. MaxSignings \in Nat
    BY InstancesSuit DEF Worker!SessionAssumption
  <1>3. /\ Worker!Idle \in Asked /\ Worker!Idle.stage = "idle" /\ ~Worker!Idle.sure
    BY DEF Worker!Idle, Asked, Gots, RequestKinds, Replies
  <1>4. asked \in [Callers -> Asked] /\ \A r \in Callers : asked[r].stage = "idle" /\ ~asked[r].sure
    BY <1>1, <1>3
  <1>5. WorkerType
    <2>1. 0 \in 0 .. MaxSignings
      BY <1>2
    <2>2. \A r \in Callers : Fits(asked[r])
      BY <1>4 DEF Fits
    <2> QED  BY <1>1, <1>4, <2>1, <2>2 DEF WorkerType
  <1>6. WaitingInLine
    BY <1>1, <1>4 DEF WaitingInLine, Waits, Among, Once
  <1> QED  BY <1>1, <1>4, <1>5, <1>6 DEF WorkerInv, SessionStandsStill, Certain, ConnectsInTurn, SureIsServed

LEMMA WorkerSteps == ASSUME WorkerInv, [AccountNext]_accountVars PROVE WorkerInv'
  <1>1. CASE Worker!Next
    <2>1. ASSUME NEW x \in Callers,
                 \/ Worker!Read(x) \/ Worker!Loaded(x) \/ Worker!Captured(x) \/ Worker!Handled(x)
                 \/ Worker!Change(x) \/ Worker!Tick(x) \/ Worker!Changed(x)
                 \/ Worker!Connect(x) \/ Worker!Taken(x) \/ Worker!Stored(x) \/ Worker!Connected(x)
                 \/ Worker!Disconnect(x)
          PROVE  WorkerInv'
      BY <2>1, ReadBegins, ReadLoads, ReadCaptured, ReadIsHandled, ChangeBegins, ChangeIsMade,
         ConnectBegins, SessionIsTaken, SessionIsStored, IsConnected, UserDisconnects
    <2> QED  BY <1>1, <2>1, UserSigns, WorkerIsTornDown DEF Worker!Next
  <1>2. CASE UNCHANGED workerVars
    BY <1>2 DEF workerVars, WorkerInv, WorkerType, Fits, WaitingInLine, SessionStandsStill, AllOfSite,
       Certain, OfSite, ConnectsInTurn, SureIsServed, Worker!Held, Worker!Failed
  <1> QED  BY <1>1, <1>2 DEF AccountNext, accountVars

(* Once a connection has been answered, a read begun since is answered under it, *)
(* however requests overlap it, in whatever order the browser gets to them, and  *)
(* however often the worker is torn down (loadOurCookie, setCookieRule).         *)
THEOREM ConnectionIsServed == AccountSpec => []Worker!ConnectedIsServed
  <1>1. AccountInit => WorkerInv
    BY WorkerStarts
  <1>2. WorkerInv /\ [AccountNext]_accountVars => WorkerInv'
    BY WorkerSteps
  <1>3. WorkerInv => Worker!ConnectedIsServed
    BY DEF WorkerInv, SureIsServed, Worker!ConnectedIsServed
  <1> QED  BY <1>1, <1>2, <1>3, PTL DEF AccountSpec

--------------------------------------------------------------------------------
(* The changes keep their promise for any number of requests, settings, values   *)
(* and addresses: CloudUpdates implements AtomicUpdates, as long as only client  *)
(* settings share a block and a write given up on is not carried out later.      *)

OwnBlocks == \A s \in Settings \ Queued : SameBlock(s) = {s}

Active  == {"resolving", "preparing", "writing", "sent", "taken", "pausing"}
Written == {"writing", "sent", "taken"}
IsQueued(r) == wants[r].setting \in Queued

--------------------------------------------------------------------------------
(* The invariant.  A queued request under way is at the head of the line, so     *)
(* nobody writes its block between its reading and its own write.                *)

RequestsStand ==
    /\ config = [s \in Settings |-> config[s]]
    /\ stage \in [Requests -> Stages]
    /\ DOMAIN wants = Requests /\ DOMAIN answer = Requests /\ DOMAIN block = Requests
    /\ \A r \in Requests :
          /\ stage[r] = "unasked" <=> wants[r] = None
          /\ wants[r] # None => wants[r] \in [setting : Settings, value : Values]
          /\ answer[r] = None <=> stage[r] # "over"
          /\ stage[r] = "taken" => r \in carried

InLine ==
    /\ line \in Seq(Requests)
    /\ \A r \in Requests : stage[r] \in Active \cup {"waiting"} /\ IsQueued(r) =>
          \E i \in 1 .. Len(line) : line[i] = r
    /\ \A r \in Requests : stage[r] = "waiting" => IsQueued(r)
    /\ \A r \in Requests : stage[r] \in Active /\ IsQueued(r) => Head(line) = r

BlocksCurrent ==
    \A r \in Requests : stage[r] \in Written =>
        /\ DOMAIN block[r] = SameBlock(wants[r].setting)
        /\ \A s \in SameBlock(wants[r].setting) :
              block[r][s] = IF s = wants[r].setting THEN wants[r].value ELSE config[s]

NoStray == stray = {}

UpdatesInv == RequestsStand /\ InLine /\ BlocksCurrent /\ NoStray

(* None marks what is absent, and is no request, record or answer of its own.    *)
NoneApart ==
    /\ None \notin [setting : Settings, value : Values]
    /\ None \notin {"done", "failed"}

Parameters == UpdatesAssumption /\ OwnBlocks /\ ~Late /\ NoneApart

--------------------------------------------------------------------------------
LEMMA InitUpdatesInv ==
    ASSUME Parameters, Init
    PROVE  UpdatesInv
<1> USE DEF Init, Parameters, NoneApart
<1>1. RequestsStand
  BY DEF RequestsStand, Stages
<1>2. InLine
  BY DEF InLine, Active
<1>3. BlocksCurrent /\ NoStray
  BY DEF BlocksCurrent, NoStray, Written
<1> QED BY <1>1, <1>2, <1>3 DEF UpdatesInv

(* Whoever writes, writes what it asked for, and nothing else moves.             *)
LEMMA WriteIsTheChange ==
    ASSUME Parameters, UpdatesInv, NEW r \in Requests, stage[r] \in Written
    PROVE  Carries(block[r]) = [config EXCEPT ![wants[r].setting] = wants[r].value]
<1>1. /\ DOMAIN block[r] = SameBlock(wants[r].setting)
      /\ \A s \in SameBlock(wants[r].setting) :
            block[r][s] = IF s = wants[r].setting THEN wants[r].value ELSE config[s]
  BY DEF UpdatesInv, BlocksCurrent
<1>2. wants[r].setting \in Settings /\ wants[r].setting \in SameBlock(wants[r].setting)
  BY DEF UpdatesInv, RequestsStand, Written, SameBlock
<1>3. config = [s \in Settings |-> config[s]]
  BY DEF UpdatesInv, RequestsStand
<1> QED BY <1>1, <1>2, <1>3 DEF Carries

(* A request that writes leaves the blocks of the others as they were read.      *)
LEMMA WritesApart ==
    ASSUME Parameters, UpdatesInv,
           NEW r \in Requests, stage[r] \in Active,
           NEW o \in Requests, stage[o] \in Active, o # r,
           NEW s \in SameBlock(wants[o].setting), s # wants[o].setting
    PROVE  s # wants[r].setting
<1>1. wants[o].setting \in Settings /\ wants[r].setting \in Settings
  BY DEF UpdatesInv, RequestsStand, Active
<1>2. wants[o].setting \in Queued
  BY <1>1 DEF Parameters, OwnBlocks
<1>3. s \in Queued
  BY <1>1, <1>2 DEF Parameters, UpdatesAssumption, SameBlock
<1>4. wants[r].setting \notin Queued
  BY <1>2 DEF UpdatesInv, InLine, IsQueued
<1> QED BY <1>3, <1>4

LEMMA StepAsked ==
    ASSUME Parameters, UpdatesInv, [Next]_vars
    PROVE  RequestsStand'
<1> USE DEF Parameters, NoneApart, UpdatesInv, RequestsStand, NoStray
<1>1. ASSUME NEW r \in Requests, NEW s \in Settings, NEW v \in Values, Ask(r, s, v)
      PROVE  RequestsStand'
  BY <1>1 DEF Ask, To, Stages
<1>2. ASSUME NEW r \in Requests,
             Begin(r) \/ Resolve(r) \/ Prepare(r) \/ Send(r) \/ Lapsed(r) \/ Missing(r) \/ Resume(r)
      PROVE  RequestsStand'
  BY <1>2 DEF Begin, Resolve, Prepare, Send, Lapsed, Missing, Resume, To, Stages, promised
<1>3. ASSUME NEW r \in Requests, NEW a, a \in {"done", "failed"}, Over(r, a),
             stage[r] \in Active
      PROVE  RequestsStand'
  BY <1>3 DEF Over, To, Stages, Active
<1>4. ASSUME NEW r \in Requests, Answered(r) \/ Refused(r) \/ Deadline(r)
      PROVE  RequestsStand'
  BY <1>3, <1>4 DEF Answered, Refused, Deadline, VerdictOnLoss, Active, Stages
<1>5. ASSUME NEW r \in Requests, Lost(r)
      PROVE  RequestsStand'
  <2>1. CASE left[r] > 0
    BY <1>5, <2>1 DEF Lost, To, Stages, promised
  <2>2. CASE ~(left[r] > 0)
    BY <1>3, <1>5, <2>2 DEF Lost, VerdictOnLoss, Active
  <2> QED BY <2>1, <2>2
<1>6. ASSUME NEW r \in Requests, Arrive(r)
      PROVE  RequestsStand'
  BY <1>6 DEF Arrive, To, Stages, Carries
<1>7. ASSUME StrayArrives
      PROVE  RequestsStand'
  BY <1>7 DEF StrayArrives
<1>8. CASE UNCHANGED vars
  BY <1>8 DEF vars, promised
<1> QED BY <1>1, <1>2, <1>4, <1>5, <1>6, <1>7, <1>8 DEF Next, Step

LEMMA StepNoStray ==
    ASSUME Parameters, UpdatesInv, [Next]_vars
    PROVE  NoStray'
<1> USE DEF Parameters, UpdatesInv, NoStray
<1>1. \A r \in Requests : GivenUp(r) = {}
  BY DEF GivenUp
<1> QED
  BY <1>1 DEF Next, Step, Ask, Begin, Resolve, Prepare, Send, Arrive, StrayArrives, Answered,
              Refused, Lapsed, Missing, Resume, Lost, Deadline, vars

(* An answer takes its own request off the head of the line, and the others      *)
(* move up.                                                                      *)
LEMMA OverInLine ==
    ASSUME Parameters, UpdatesInv, NEW r \in Requests, NEW a, Over(r, a), stage[r] \in Active
    PROVE  InLine'
<1> USE DEF Over, To, Active
<1>1. wants' = wants /\ \A o \in Requests : stage'[o] = IF o = r THEN "over" ELSE stage[o]
  BY DEF UpdatesInv, RequestsStand
<1>2. CASE wants[r].setting \in Queued
  <2>1. line' = Tail(line)
    BY <1>2 DEF LineAfter, Setting
  <2>2. line \in Seq(Requests) /\ Head(line) = r /\ line # <<>>
    BY <1>2 DEF UpdatesInv, InLine, IsQueued
  <2>3. line' \in Seq(Requests) /\ \A i \in 1 .. Len(line) : i # 1 => i - 1 \in 1 .. Len(line')
                                                                   /\ line'[i - 1] = line[i]
    BY <2>1, <2>2
  <2>4. ASSUME NEW o \in Requests, stage'[o] \in Active \cup {"waiting"}, IsQueued(o)'
        PROVE  \E i \in 1 .. Len(line') : line'[i] = o
    <3>1. o # r /\ IsQueued(o) /\ stage[o] \in Active \cup {"waiting"}
      BY <1>1, <2>4 DEF IsQueued
    <3>2. PICK i \in 1 .. Len(line) : line[i] = o
      BY <3>1 DEF UpdatesInv, InLine
    <3>3. i # 1
      BY <2>2, <3>1, <3>2
    <3> QED BY <2>3, <3>2, <3>3
  <2>5. ASSUME NEW o \in Requests, stage'[o] \in Active
        PROVE  ~IsQueued(o)'
    BY <1>1, <1>2, <2>2, <2>5 DEF UpdatesInv, InLine, IsQueued
  <2>6. \A o \in Requests : stage'[o] = "waiting" => IsQueued(o)'
    BY <1>1 DEF UpdatesInv, InLine, IsQueued
  <2> QED BY <2>3, <2>4, <2>5, <2>6 DEF InLine
<1>3. CASE wants[r].setting \notin Queued
  <2>1. line' = line
    BY <1>3 DEF LineAfter, Setting
  <2> QED BY <1>1, <2>1 DEF UpdatesInv, InLine, IsQueued
<1> QED BY <1>2, <1>3

(* One that only goes on keeps its place.                                        *)
LEMMA GoingOnInLine ==
    ASSUME Parameters, UpdatesInv, NEW r \in Requests, stage[r] \in Active,
           NEW to \in Active, To(r, to), UNCHANGED <<wants, line>>
    PROVE  InLine'
<1>1. \A o \in Requests : stage'[o] = IF o = r THEN to ELSE stage[o]
  BY DEF To, UpdatesInv, RequestsStand
<1> QED BY <1>1 DEF UpdatesInv, InLine, IsQueued, Active

LEMMA StepInLine ==
    ASSUME Parameters, UpdatesInv, [Next]_vars
    PROVE  InLine'
<1>1. ASSUME NEW r \in Requests, NEW s \in Settings, NEW v \in Values, Ask(r, s, v)
      PROVE  InLine'
  <2>1. stage[r] = "unasked"
    BY <1>1 DEF Ask, UpdatesInv, RequestsStand
  <2>2. \A o \in Requests : o # r => wants'[o] = wants[o] /\ stage'[o] = stage[o]
    BY <1>1 DEF Ask, To, UpdatesInv, RequestsStand
  <2>3. wants'[r].setting = s /\ stage'[r] = IF s \in Queued THEN "waiting" ELSE "resolving"
    BY <1>1 DEF Ask, To, UpdatesInv, RequestsStand
  <2>4. CASE s \in Queued
    <3>1. line' = Append(line, r) /\ line \in Seq(Requests)
      BY <1>1, <2>4 DEF Ask, UpdatesInv, InLine
    <3>2. /\ line' \in Seq(Requests)
          /\ \A i \in 1 .. Len(line) : i \in 1 .. Len(line') /\ line'[i] = line[i]
          /\ Len(line') \in 1 .. Len(line') /\ line'[Len(line')] = r
      BY <3>1
    <3>3. ASSUME NEW o \in Requests, stage'[o] \in Active \cup {"waiting"}, IsQueued(o)'
          PROVE  \E i \in 1 .. Len(line') : line'[i] = o
      BY <2>2, <3>2, <3>3 DEF UpdatesInv, InLine, IsQueued
    <3>4. ASSUME NEW o \in Requests, stage'[o] \in Active, IsQueued(o)'
          PROVE  Head(line') = o
      <4>1. o # r /\ IsQueued(o) /\ stage[o] \in Active
        BY <2>2, <2>3, <2>4, <3>4 DEF Active, IsQueued
      <4>2. Head(line) = o /\ line # <<>>
        BY <4>1 DEF UpdatesInv, InLine
      <4> QED BY <3>1, <4>2
    <3> QED BY <2>2, <2>3, <2>4, <3>2, <3>3, <3>4 DEF UpdatesInv, InLine, IsQueued
  <2>5. CASE s \notin Queued
    <3>1. line' = line
      BY <1>1, <2>5 DEF Ask
    <3> QED BY <2>2, <2>3, <2>5, <3>1 DEF UpdatesInv, InLine, IsQueued
  <2> QED BY <2>4, <2>5
<1>2. ASSUME NEW r \in Requests, Begin(r)
      PROVE  InLine'
  <2>1. stage[r] = "waiting" /\ Head(line) = r /\ UNCHANGED <<wants, line>>
    BY <1>2 DEF Begin, TurnOf, promised
  <2>2. \A o \in Requests : stage'[o] = IF o = r THEN "resolving" ELSE stage[o]
    BY <1>2 DEF Begin, To, UpdatesInv, RequestsStand
  <2> QED BY <2>1, <2>2 DEF UpdatesInv, InLine, IsQueued, Active
<1>3. ASSUME NEW r \in Requests,
             Resolve(r) \/ Prepare(r) \/ Send(r) \/ Lapsed(r) \/ Missing(r) \/ Resume(r) \/ Arrive(r)
      PROVE  InLine'
  <2>1. stage[r] \in Active /\ UNCHANGED <<wants, line>> /\ \E to \in Active : To(r, to)
    BY <1>3 DEF Resolve, Prepare, Send, Lapsed, Missing, Resume, Arrive, promised, Active
  <2> QED BY <2>1, GoingOnInLine
<1>4. ASSUME NEW r \in Requests, Answered(r) \/ Refused(r) \/ Deadline(r)
      PROVE  InLine'
  <2>1. stage[r] \in Active /\ \E a \in {"done", "failed"} : Over(r, a)
    BY <1>4 DEF Answered, Refused, Deadline, VerdictOnLoss, Active, UpdatesInv, RequestsStand, Stages
  <2> QED BY <2>1, OverInLine
<1>5. ASSUME NEW r \in Requests, Lost(r)
      PROVE  InLine'
  <2>1. CASE left[r] > 0
    <3>1. stage[r] \in Active /\ To(r, "writing") /\ UNCHANGED <<wants, line>>
      BY <1>5, <2>1 DEF Lost, promised, Active
    <3> QED BY <3>1, GoingOnInLine DEF Active
  <2>2. CASE ~(left[r] > 0)
    <3>1. stage[r] \in Active /\ Over(r, VerdictOnLoss(r))
      BY <1>5, <2>2 DEF Lost, Active
    <3> QED BY <3>1, OverInLine
  <2> QED BY <2>1, <2>2
<1>6. ASSUME StrayArrives
      PROVE  InLine'
  BY <1>6 DEF StrayArrives, UpdatesInv, NoStray
<1>7. CASE UNCHANGED vars
  BY <1>7 DEF vars, promised, UpdatesInv, InLine, IsQueued
<1> QED BY <1>1, <1>2, <1>3, <1>4, <1>5, <1>6, <1>7 DEF Next, Step

LEMMA StepBlocks ==
    ASSUME Parameters, UpdatesInv, [Next]_vars
    PROVE  BlocksCurrent'
<1>1. ASSUME NEW r \in Requests, NEW s \in Settings, NEW v \in Values, Ask(r, s, v)
      PROVE  BlocksCurrent'
  BY <1>1 DEF Ask, To, UpdatesInv, RequestsStand, BlocksCurrent, Written, SameBlock
<1>2. ASSUME NEW r \in Requests,
             Begin(r) \/ Resolve(r) \/ Lapsed(r) \/ Missing(r) \/ Resume(r)
      PROVE  BlocksCurrent'
  <2>1. UNCHANGED <<config, wants, block>>
    BY <1>2 DEF Begin, Resolve, Lapsed, Missing, Resume, promised
  <2>2. \A o \in Requests : stage'[o] \in Written => stage[o] \in Written
    BY <1>2 DEF Begin, Resolve, Lapsed, Missing, Resume, To, Written, UpdatesInv, RequestsStand
  <2> QED BY <2>1, <2>2 DEF UpdatesInv, BlocksCurrent, SameBlock
<1>3. ASSUME NEW r \in Requests, Prepare(r)
      PROVE  BlocksCurrent'
  <2>1. UNCHANGED <<config, wants>>
    BY <1>3 DEF Prepare, promised
  <2>2. /\ \A o \in Requests : o # r => stage'[o] = stage[o] /\ block'[o] = block[o]
        /\ block'[r] = Prepared(r)
    BY <1>3 DEF Prepare, To, UpdatesInv, RequestsStand
  <2> QED BY <2>1, <2>2 DEF UpdatesInv, BlocksCurrent, SameBlock, Prepared, Setting
<1>4. ASSUME NEW r \in Requests, Send(r)
      PROVE  BlocksCurrent'
  <2>1. UNCHANGED <<config, wants, block>>
    BY <1>4 DEF Send, promised
  <2>2. \A o \in Requests : stage'[o] \in Written => stage[o] \in Written
    BY <1>4 DEF Send, To, Written, UpdatesInv, RequestsStand
  <2> QED BY <2>1, <2>2 DEF UpdatesInv, BlocksCurrent, SameBlock
<1>5. ASSUME NEW r \in Requests, NEW a, Over(r, a), stage[r] \in Active
      PROVE  BlocksCurrent'
  <2>1. UNCHANGED <<config, wants>>
    BY <1>5 DEF Over
  <2>2. \A o \in Requests : stage'[o] \in Written
            => o # r /\ stage[o] \in Written /\ block'[o] = block[o]
    BY <1>5 DEF Over, To, Written, UpdatesInv, RequestsStand
  <2> QED BY <2>1, <2>2 DEF UpdatesInv, BlocksCurrent, SameBlock
<1>6. ASSUME NEW r \in Requests, Answered(r) \/ Refused(r) \/ Deadline(r)
      PROVE  BlocksCurrent'
  <2>1. stage[r] \in Active /\ \E a \in {"done", "failed"} : Over(r, a)
    BY <1>6 DEF Answered, Refused, Deadline, VerdictOnLoss, Active, UpdatesInv, RequestsStand, Stages
  <2> QED BY <1>5, <2>1
<1>7. ASSUME NEW r \in Requests, Lost(r)
      PROVE  BlocksCurrent'
  <2>1. CASE left[r] > 0
    <3>1. UNCHANGED <<config, wants, block>>
      BY <1>7, <2>1 DEF Lost, promised
    <3>2. \A o \in Requests : stage'[o] \in Written => stage[o] \in Written
      BY <1>7, <2>1 DEF Lost, To, Written, UpdatesInv, RequestsStand
    <3> QED BY <3>1, <3>2 DEF UpdatesInv, BlocksCurrent, SameBlock
  <2>2. CASE ~(left[r] > 0)
    BY <1>5, <1>7, <2>2 DEF Lost, Active
  <2> QED BY <2>1, <2>2
<1>8. ASSUME NEW r \in Requests, Arrive(r)
      PROVE  BlocksCurrent'
  <2>1. stage[r] = "sent" /\ UNCHANGED <<wants, block>>
    BY <1>8 DEF Arrive
  <2>2. config' = [config EXCEPT ![wants[r].setting] = wants[r].value]
    BY <1>8, <2>1, WriteIsTheChange DEF Arrive, Written
  <2>3. \A o \in Requests : stage'[o] \in Written => stage[o] \in Written
    BY <1>8 DEF Arrive, To, Written, UpdatesInv, RequestsStand
  <2>4. ASSUME NEW o \in Requests, stage[o] \in Written,
               NEW s \in SameBlock(wants[o].setting), s # wants[o].setting
        PROVE  config'[s] = config[s]
    <3>1. s # wants[r].setting
      <4>1. CASE o = r
        BY <2>4, <4>1
      <4>2. CASE o # r
        BY <2>1, <2>4, <4>2, WritesApart DEF Written, Active
      <4> QED BY <4>1, <4>2
    <3> QED BY <2>2, <3>1 DEF UpdatesInv, RequestsStand, SameBlock
  <2> QED BY <2>1, <2>3, <2>4 DEF UpdatesInv, BlocksCurrent, SameBlock
<1>9. ASSUME StrayArrives
      PROVE  BlocksCurrent'
  BY <1>9 DEF StrayArrives, UpdatesInv, NoStray
<1>10. CASE UNCHANGED vars
  BY <1>10 DEF vars, promised, UpdatesInv, BlocksCurrent, SameBlock
<1> QED BY <1>1, <1>2, <1>3, <1>4, <1>6, <1>7, <1>8, <1>9, <1>10 DEF Next, Step

LEMMA StepUpdatesInv ==
    ASSUME Parameters, UpdatesInv, [Next]_vars
    PROVE  UpdatesInv'
BY StepAsked, StepInLine, StepBlocks, StepNoStray DEF UpdatesInv

--------------------------------------------------------------------------------
(* The refinement: a write arriving is the change carried out, an end its        *)
(* answer, and every other step of a request changes nothing promised.           *)

LEMMA OverAnswers ==
    ASSUME Parameters, UpdatesInv, NEW r \in Requests, NEW a \in {"done", "failed"}, Over(r, a),
           stage[r] \in Active,
           a = "done" => r \in carried \/ Setting(r) \in Severing
    PROVE  Promise!Answer(r, a)
<1>1. wants[r] # None /\ answer[r] = None
  BY DEF UpdatesInv, RequestsStand, Active
<1>2. wants[r].setting \in Queued => Head(line) = r
  BY DEF UpdatesInv, InLine, IsQueued
<1> QED
  BY <1>1, <1>2 DEF Over, LineAfter, Setting, Promise!Answer, Promise!Pending, Promise!InTurn

LEMMA StepKeepsThePromise ==
    ASSUME Parameters, UpdatesInv, [Next]_vars
    PROVE  [Promise!Next]_(Promise!vars)
<1> DEFINE Answering(r) == \E a \in {"done", "failed"} : Promise!Answer(r, a)
<1>1. ASSUME NEW r \in Requests, NEW s \in Settings, NEW v \in Values, Ask(r, s, v)
      PROVE  Promise!Next
  BY <1>1 DEF Ask, Promise!Next, Promise!Ask
<1>2. ASSUME NEW r \in Requests,
             Begin(r) \/ Resolve(r) \/ Prepare(r) \/ Send(r) \/ Lapsed(r) \/ Missing(r) \/ Resume(r)
      PROVE  UNCHANGED Promise!vars
  BY <1>2 DEF Begin, Resolve, Prepare, Send, Lapsed, Missing, Resume, promised, Promise!vars
<1>3. ASSUME NEW r \in Requests, Answered(r)
      PROVE  Answering(r)
  BY <1>3, OverAnswers DEF Answered, Active, UpdatesInv, RequestsStand
<1>4. ASSUME NEW r \in Requests, Refused(r)
      PROVE  Answering(r)
  BY <1>4, OverAnswers DEF Refused, Active
<1>5. ASSUME NEW r \in Requests, Deadline(r)
      PROVE  Answering(r)
  <2>1. stage[r] \in Active
    BY <1>5 DEF Deadline, Active, UpdatesInv, RequestsStand, Stages
  <2> QED BY <1>5, <2>1, OverAnswers DEF Deadline, VerdictOnLoss
<1>6. ASSUME NEW r \in Requests, Lost(r)
      PROVE  Answering(r) \/ UNCHANGED Promise!vars
  <2>1. CASE left[r] > 0
    BY <1>6, <2>1 DEF Lost, promised, Promise!vars
  <2>2. CASE ~(left[r] > 0)
    BY <1>6, <2>2, OverAnswers DEF Lost, VerdictOnLoss, Active
  <2> QED BY <2>1, <2>2
<1>7. ASSUME NEW r \in Requests, Arrive(r)
      PROVE  Promise!CarryOut(r)
  <2>1. config' = [config EXCEPT ![wants[r].setting] = wants[r].value]
    BY <1>7, WriteIsTheChange DEF Arrive, Written
  <2>2. wants[r] # None /\ answer[r] = None
    BY <1>7 DEF Arrive, UpdatesInv, RequestsStand
  <2>3. wants[r].setting \in Queued => Head(line) = r
    BY <1>7 DEF Arrive, UpdatesInv, InLine, IsQueued, Active
  <2> QED
    BY <1>7, <2>1, <2>2, <2>3
       DEF Arrive, Promise!CarryOut, Promise!Pending, Promise!InTurn
<1>8. ~StrayArrives
  BY DEF StrayArrives, UpdatesInv, NoStray
<1>9. CASE UNCHANGED vars
  BY <1>9 DEF vars, promised, Promise!vars
<1>10. CASE Next
  <2>1. PICK r \in Requests :
           \/ \E s \in Settings, v \in Values : Ask(r, s, v)
           \/ Step(r) \/ Arrive(r)
    BY <1>8, <1>10 DEF Next
  <2>2. Answering(r) \/ Promise!CarryOut(r) => Promise!Next
    BY DEF Promise!Next
  <2> QED BY <1>1, <1>2, <1>3, <1>4, <1>5, <1>6, <1>7, <2>1, <2>2 DEF Step
<1> QED BY <1>9, <1>10

(* Every behaviour of the account's changes is one the promise allows: each      *)
(* touches its own setting alone, in the order asked, and is answered done only  *)
(* if made (updateClient, deviceMutationTail, sendTo, applyRouterConfigUpdate).  *)
THEOREM PromiseKept ==
    ASSUME Parameters
    PROVE  Spec => KeepsThePromise
<1>1. Init => UpdatesInv /\ Promise!Init
  BY InitUpdatesInv DEF Init, Promise!Init
<1>2. UpdatesInv /\ [Next]_vars => UpdatesInv' /\ [Promise!Next]_(Promise!vars)
  BY StepUpdatesInv, StepKeepsThePromise
<1> QED BY <1>1, <1>2, PTL DEF Spec, KeepsThePromise, Promise!Spec

(* So do the account's, of which the changes are a part.                         *)
THEOREM AccountKeepsItsPromise ==
    ASSUME Parameters
    PROVE  AccountSpec => KeepsThePromise
<1>1. AccountInit => UpdatesInv /\ Promise!Init
  BY InitUpdatesInv DEF AccountInit, Init, Promise!Init
<1>2. UpdatesInv /\ [AccountNext]_accountVars => UpdatesInv' /\ [Promise!Next]_(Promise!vars)
  <2>1. [AccountNext]_accountVars => [Next]_vars
    BY DEF AccountNext, accountVars
  <2> QED BY <2>1, StepUpdatesInv, StepKeepsThePromise
<1> QED BY <1>1, <1>2, PTL DEF AccountSpec, KeepsThePromise, Promise!Spec
================================================================================
