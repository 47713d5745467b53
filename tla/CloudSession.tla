----------------------------- MODULE CloudSession ------------------------------
(* The session of the account: the stored cookie, the tokens minted from it and  *)
(* what is remembered beside them, in cloud/starlinkCloudHandler.ts: freshCookie,*)
(* withFreshCookie, resolveIds, resolveControllerId, connect and disconnect.     *)
(*                                                                               *)
(* A cookie is the account and the token Starlink issued it last.  Calls run     *)
(* concurrently, from one await to the next.  A read may share another's refresh *)
(* and has no deadline of its own; a change brings its own refresh and deadline. *)
EXTENDS Naturals, FiniteSets

CONSTANTS
    Accounts, Reads, Changes, None,
    MaxIssued, MaxSignings, MaxUpsets      \* bounds

VARIABLES
    store,          \* the stored cookie (readCookie), or None
    cached,         \* cachedCookie
    aged,           \* REFRESH_TTL_MS has passed since cachedAt
    sharing,        \* the call whose refresh refreshInFlight is, or None
    ids,            \* the account cachedIds and cachedControllerId are of, or None
    call,           \* call[c]: [stage, base, cookie, again]; base is the cookie a
                    \* refresh started from, or the call whose refresh is shared
    issued,         \* issued[a]: the last token issued (Starlink's)
    floor,          \* floor[a]: the least token still taken (Starlink's)
    alive,          \* the accounts whose sign-in still stands (Starlink's)
    signings, upsets,
    old,            \* the calls under way when the account was last changed, and those
                    \* that have shared a refresh of one since
    spoiled         \* what one of them brought has been kept since

session == <<store, cached, aged, sharing, ids>>
starlink == <<issued, floor, alive>>
vars == <<session, call, starlink, signings, upsets, old, spoiled>>

Calls   == Reads \cup Changes
Cookies == [account : Accounts, token : 0 .. MaxIssued]
Stages  == {"idle", "begin", "asking", "told", "sharing", "listing", "working",
            "ok", "notConnected", "failed"}
Idle    == [stage |-> "idle", base |-> None, cookie |-> None, again |-> FALSE]
Under(c) == call[c].stage \notin {"idle", "ok", "notConnected", "failed"}
Taken(cookie) == cookie.token >= floor[cookie.account] /\ cookie.account \in alive

SessionAssumption ==
    /\ Reads \cap Changes = {} /\ None \notin Accounts \cup Calls \cup Cookies
    /\ {MaxIssued, MaxSignings, MaxUpsets} \subseteq Nat

End(c, verdict) == [Idle EXCEPT !.stage = verdict]

(* withFreshCookie: a missed session is tried once more, with a forced refresh.  *)
Missed(c) ==
    IF call[c].again THEN End(c, "notConnected")
    ELSE [Idle EXCEPT !.stage = "begin", !.again = TRUE]

--------------------------------------------------------------------------------

Begin(c) ==
    /\ call[c].stage = "idle"
    /\ call' = [call EXCEPT ![c].stage = "begin"]
    /\ UNCHANGED <<session, starlink, signings, upsets, old, spoiled>>

(* freshCookie, up to its await.                                                 *)
NoSession(c) ==
    /\ call[c].stage = "begin" /\ store = None
    /\ call' = [call EXCEPT ![c] = End(c, "notConnected")]
    /\ UNCHANGED <<session, starlink, signings, upsets, old, spoiled>>

UseCached(c) ==
    /\ call[c].stage = "begin" /\ store # None
    /\ ~call[c].again /\ cached # None /\ ~aged
    /\ call' = [call EXCEPT ![c].stage = "listing", ![c].cookie = cached]
    /\ UNCHANGED <<session, starlink, signings, upsets, old, spoiled>>

Misses(c) == call[c].stage = "begin" /\ store # None /\ (call[c].again \/ cached = None \/ aged)

(* Bounded calls never inherit a refresh that may be stalled.                    *)
Shares(c) == ~call[c].again /\ sharing # None /\ c \in Reads

Share(c) ==
    /\ Misses(c) /\ Shares(c)
    /\ call' = [call EXCEPT ![c].stage = "sharing", ![c].base = sharing]
    /\ old' = IF sharing \in old THEN old \cup {c} ELSE old
    /\ UNCHANGED <<session, starlink, signings, upsets, spoiled>>

Refresh(c) ==
    /\ Misses(c) /\ ~Shares(c)
    /\ call' = [call EXCEPT ![c].stage = "asking", ![c].base = store]
    /\ sharing' = IF c \in Reads THEN c ELSE sharing
    /\ UNCHANGED <<store, cached, aged, ids, starlink, signings, upsets, old, spoiled>>

--------------------------------------------------------------------------------
(* auth/user: Starlink decides, and its reply is a while on the way.             *)

Issue(c) ==
    LET a == call[c].base.account
    IN  /\ call[c].stage = "asking" /\ a \in alive /\ issued[a] < MaxIssued
        /\ issued' = [issued EXCEPT ![a] = @ + 1]
        /\ call' = [call EXCEPT ![c].stage = "told",
                                ![c].cookie = [account |-> a, token |-> issued[a] + 1]]
        /\ UNCHANGED <<session, floor, alive, signings, upsets, old, spoiled>>

Reject(c) ==
    /\ call[c].stage = "asking" /\ call[c].base.account \notin alive
    /\ call' = [call EXCEPT ![c].stage = "told", ![c].cookie = None]
    /\ UNCHANGED <<session, starlink, signings, upsets, old, spoiled>>

Sharers(c) == { o \in Calls : call[o].stage = "sharing" /\ call[o].base = c }

(* The reply: what it brought is persisted, whatever became of the stored cookie *)
(* meanwhile, and those who shared the refresh share it.                         *)
Refreshed(c) ==
    LET told == {c} \cup Sharers(c)
    IN  /\ call[c].stage = "told" /\ call[c].cookie # None
        /\ store' = call[c].cookie /\ cached' = call[c].cookie /\ aged' = FALSE
        /\ sharing' = IF c \in Reads THEN None ELSE sharing
        /\ call' = [o \in Calls |->
                        IF o \in told THEN [call[o] EXCEPT !.stage = "listing", !.base = None,
                                                           !.cookie = call[c].cookie]
                        ELSE call[o]]
        /\ spoiled' = (spoiled \/ c \in old)
        /\ UNCHANGED <<ids, starlink, signings, upsets, old>>

Forget == cached' = None /\ aged' = FALSE /\ ids' = None

Dead(c) ==
    LET told == {c} \cup Sharers(c)
    IN  /\ call[c].stage = "told" /\ call[c].cookie = None
        /\ Forget
        /\ sharing' = IF c \in Reads THEN None ELSE sharing
        /\ call' = [o \in Calls |-> IF o \in told THEN Missed(o) ELSE call[o]]
        /\ UNCHANGED <<store, starlink, signings, upsets, old, spoiled>>

--------------------------------------------------------------------------------
(* resolveIds and resolveControllerId, then what the call is for.                *)

Turned(c, stages) ==
    /\ call[c].stage \in stages /\ ~Taken(call[c].cookie)
    /\ call' = [call EXCEPT ![c] = Missed(c)]
    /\ UNCHANGED <<session, starlink, signings, upsets, old, spoiled>>

Listed(c) ==
    /\ call[c].stage = "listing"
    /\ ids # None \/ Taken(call[c].cookie)
    /\ ids' = IF ids # None THEN ids ELSE call[c].cookie.account
    /\ spoiled' = (spoiled \/ (ids = None /\ c \in old))
    /\ call' = [call EXCEPT ![c].stage = "working"]
    /\ UNCHANGED <<store, cached, aged, sharing, starlink, signings, upsets, old>>

Worked(c) ==
    /\ call[c].stage = "working" /\ Taken(call[c].cookie)
    /\ call' = [call EXCEPT ![c] = End(c, "ok")]
    /\ UNCHANGED <<session, starlink, signings, upsets, old, spoiled>>

(* The network fails a call, its sharers with it; a change's deadline passes.    *)
Fails(c) ==
    LET told == {c} \cup Sharers(c)
    IN  /\ call[c].stage \in {"asking", "told", "listing", "working"}
        /\ call' = [o \in Calls |-> IF o \in told THEN End(o, "failed") ELSE call[o]]
        /\ sharing' = IF c \in Reads /\ call[c].stage \in {"asking", "told"} THEN None ELSE sharing
        /\ UNCHANGED <<store, cached, aged, ids, starlink, signings, upsets, old, spoiled>>

--------------------------------------------------------------------------------
(* The person, the clock and Starlink.                                           *)

Sign ==
    /\ signings < MaxSignings
    /\ signings' = signings + 1
    /\ old' = { c \in Calls : Under(c) } /\ spoiled' = FALSE

(* [mutant] Connecting forgets nothing.                                          *)
ForgottenNothing == UNCHANGED <<cached, aged, ids>>

Forgotten == Forget

(* connect, up to its own first call.                                            *)
Connect(a) ==
    /\ Sign /\ a \in alive
    /\ store' = [account |-> a, token |-> issued[a]]
    /\ Forgotten
    /\ UNCHANGED <<sharing, call, starlink, upsets>>

Disconnect ==
    /\ Sign /\ store # None
    /\ store' = None
    /\ Forgotten
    /\ UNCHANGED <<sharing, call, starlink, upsets>>

Age ==
    /\ cached # None /\ ~aged /\ aged' = TRUE
    /\ UNCHANGED <<store, cached, sharing, ids, call, starlink, signings, upsets, old, spoiled>>

(* Every token of the account but those yet to come upsets.                      *)
Lapse(a) ==
    /\ upsets < MaxUpsets
    /\ upsets' = upsets + 1
    /\ floor' = [floor EXCEPT ![a] = issued[a] + 1]
    /\ UNCHANGED <<session, call, issued, alive, signings, old, spoiled>>

SignInEnds(a) ==
    /\ upsets < MaxUpsets
    /\ upsets' = upsets + 1
    /\ alive' = alive \ {a}
    /\ UNCHANGED <<session, call, issued, floor, signings, old, spoiled>>

Init ==
    /\ store \in {None} \cup [account : Accounts, token : {0}]
    /\ cached = None /\ aged = FALSE /\ sharing = None /\ ids = None
    /\ call = [c \in Calls |-> Idle]
    /\ issued = [a \in Accounts |-> 0] /\ floor = [a \in Accounts |-> 0] /\ alive = Accounts
    /\ signings = 0 /\ upsets = 0 /\ old = {} /\ spoiled = FALSE

Inside(c) ==
    \/ NoSession(c) \/ UseCached(c) \/ Share(c) \/ Refresh(c) \/ Refreshed(c) \/ Dead(c)
    \/ Turned(c, {"listing", "working"}) \/ Listed(c) \/ Worked(c)
    \/ Issue(c) \/ Reject(c) \/ Fails(c)

Next ==
    \/ \E c \in Calls : Begin(c) \/ Inside(c)
    \/ \E a \in Accounts : Connect(a) \/ Lapse(a) \/ SignInEnds(a)
    \/ Disconnect \/ Age

Spec == Init /\ [][Next]_vars

(* The worker runs, and a change's deadline fires; nothing is assumed of reads.  *)
Fairness == \A c \in Changes : WF_vars(Inside(c))

--------------------------------------------------------------------------------
(* Cookies, caches and calls are what the code can hold of them.                 *)
TypeOK ==
    /\ {store, cached} \subseteq Cookies \cup {None}
    /\ sharing \in Reads \cup {None} /\ ids \in Accounts \cup {None}
    /\ \A c \in Calls :
          /\ call[c].stage \in Stages /\ call[c].again \in BOOLEAN
          /\ call[c].base \in Cookies \cup Calls \cup {None}
          /\ call[c].cookie \in Cookies \cup {None}
    /\ old \subseteq Calls /\ spoiled \in BOOLEAN

(* What is remembered is of the account that is stored, however calls overlap,   *)
(* unless one that began under another account came back after the change        *)
(* (connect, disconnect, forgetSession).                                         *)
CachesAreTheAccounts ==
    ~spoiled =>
        /\ cached # None => store # None /\ cached.account = store.account
        /\ ids # None => store # None /\ ids = store.account

(* While the sign-in stands, a token that upsets under a call is renewed and the *)
(* call goes on: it is told "not connected" only if the account was signed out   *)
(* or changed, whoever else refreshes meanwhile (withFreshCookie).               *)
OneLapseHeals ==
    [][\A c \in Calls :
          Under(c) /\ call'[c].stage = "notConnected"
          => store = None \/ store.account \notin alive \/ c \in old \/ spoiled]_vars

(* A change is always answered, even while the reads beside it hang for ever     *)
(* (freshCookie: bounded mutations use their own abortable refresh).             *)
ChangesEnd == \A c \in Changes : Under(c) ~> ~Under(c)

(* Once disconnected, an account stays so until connected again: no session is   *)
(* stored that was not captured by connecting (disconnect, PRIVACY.md).          *)
DisconnectedStays == [][store = None /\ store' # None => signings' # signings]_vars
================================================================================
