---------------------------- MODULE ExtensionSession ----------------------------
(* The session the extension holds of the account: a stored mark that it is      *)
(* connected, the browser's own cookies, the copy the worker keeps in memory and *)
(* the rule that appends it to the worker's requests (extension/lib/             *)
(* cloudHandler.ts), over requests that overlap and a worker torn down between   *)
(* them.  What the shared handler does with the copy is CloudSession's.          *)
(*                                                                               *)
(* The browser carries out what the worker asks of its store, of its cookies and *)
(* of its rules in the order each was asked, and answers in that order: a value  *)
(* is taken, and an effect had, as it is asked for; the worker goes on later.    *)
EXTENDS Naturals, SequencesExt

CONSTANTS
    Requests,                   \* those a dashboard makes, and the recorder's ticks
    None,
    MaxSignings, MaxWakes       \* bounds: sign-ins at the site, and teardowns

VARIABLES
    site,           \* the browser's session at starlink.com, or None
    signings,
    stored,         \* cloudSession is in the extension's store
    ours,           \* ourCookie: a session, "" or None
    rule,           \* the session the cookie rule appends, or None
    req,            \* what each request is doing
    line,           \* those waiting for the browser, in the order they asked
    wakes,
    sure            \* history: connected, answered so, and nothing ended it since

vars == <<site, signings, stored, ours, rule, req, line, wakes, sure>>

SessionAssumption == MaxSignings \in Nat /\ MaxWakes \in Nat /\ None \notin 1..MaxSignings

Empty == 0

Idle     == [stage |-> "idle", kind |-> "none", got |-> None, sure |-> FALSE, reply |-> None]
Cookie   == IF site = None THEN Empty ELSE site
Signed   == ours # None
Held     == ours \notin {None, Empty}
RuleOf(c) == IF c = Empty THEN None ELSE c

Of(stage) == CASE stage \in {"loading", "storing"}   -> "store"
               [] stage \in {"capturing", "taking"}  -> "cookies"
               [] stage \in {"ruled", "connected"}   -> "rules"
               [] OTHER                              -> "nobody"

(* The browser has answered r: it answered those who asked the same before.      *)
Heard(r, stage) ==
    /\ req[r].stage = stage
    /\ \A i, j \in 1..Len(line) :
          i < j /\ line[j] = r => Of(req[line[i]].stage) # Of(stage)

(* r asks the browser for something, or has its answer.                          *)
Others(r) ==
    IF r \in ToSet(line) THEN RemoveAt(line, CHOOSE i \in 1..Len(line) : line[i] = r) ELSE line

Asks(r, stage, value) ==
    /\ req' = [req EXCEPT ![r].stage = stage, ![r].got = value]
    /\ line' = Append(Others(r), r)

Answers(r, status) ==
    /\ req' = [req EXCEPT ![r].stage = "answered", ![r].got = None, ![r].reply = status]
    /\ line' = Others(r)

Ended(r) == req[r].stage \in {"idle", "answered"}

Begun(r, kind) == [Idle EXCEPT !.kind = kind, !.sure = sure]

Begins(r, kind, stage, value) ==
    /\ Ended(r)
    /\ req' = [req EXCEPT ![r] = [Begun(r, kind) EXCEPT !.stage = stage, !.got = value]]
    /\ line' = Append(line, r)

(* What ends the certainty, for those under way too.                             *)
Uncertain == [r \in Requests |-> [req[r] EXCEPT !.sure = FALSE]]

--------------------------------------------------------------------------------
(* handleCloudRequest: reads.                                                    *)

(* loadOurCookie asks the store.                                                 *)
Read(r) ==
    /\ \E kind \in {"account", "session"} : Begins(r, kind, "loading", stored)
    /\ UNCHANGED <<site, signings, stored, ours, rule, wakes, sure>>

(* It has its copy; setCookieRule, but for GET /cloud/session, which answers     *)
(* with what it has.                                                             *)
TakeCopy(r, copy) ==
    /\ ours' = copy
    /\ IF req[r].kind = "session"
       THEN /\ Answers(r, IF copy \in {None, Empty} THEN "notConnected" ELSE "ok")
            /\ UNCHANGED rule
       ELSE rule' = RuleOf(copy) /\ Asks(r, "ruled", None)
    /\ UNCHANGED <<site, signings, stored, wakes, sure>>

(* The store has answered: captureSession asks for the cookies.                  *)
Loaded(r) ==
    /\ Heard(r, "loading") /\ req[r].kind # "change"
    /\ IF req[r].got
       THEN /\ Asks(r, "capturing", Cookie)
            /\ UNCHANGED <<site, signings, stored, ours, rule, wakes, sure>>
       ELSE TakeCopy(r, None)

Captured(r) == Heard(r, "capturing") /\ TakeCopy(r, req[r].got)

(* What the account makes of a request, under the rule of this moment; without a *)
(* copy it is not asked.                                                         *)
Reply == IF ~Held THEN "notConnected" ELSE IF rule # None /\ rule = site THEN "ok" ELSE "refused"

(* cloudHandler.handle; an account without its identity is read once more.       *)
Handled(r) ==
    /\ Heard(r, "ruled")
    /\ \/ Answers(r, Reply)
       \/ /\ req[r].kind = "account" /\ Reply = "ok"
          /\ req' = [req EXCEPT ![r].stage = "loading", ![r].got = stored, ![r].kind = "again"]
          /\ line' = Append(Others(r), r)
    /\ UNCHANGED <<site, signings, stored, ours, rule, wakes, sure>>

--------------------------------------------------------------------------------
(* Changes: the device's, the dish's and the router's, a tick's among them.      *)

(* A pause asks the store first which device is this one.                        *)
Change(r) ==
    /\ Begins(r, "change", "loading", stored)
    /\ UNCHANGED <<site, signings, stored, ours, rule, wakes, sure>>

(* A tick's settleDeviceBlocks, which sends nothing unless accountSignedIn.      *)
Tick(r) ==
    /\ IF Signed THEN Begins(r, "change", "loading", stored)
       ELSE /\ Ended(r) /\ UNCHANGED line
            /\ req' = [req EXCEPT ![r] = [Begun(r, "change") EXCEPT !.stage = "answered",
                                                                    !.reply = "notConnected"]]
    /\ UNCHANGED <<site, signings, stored, ours, rule, wakes, sure>>

Changed(r) ==
    /\ Heard(r, "loading") /\ req[r].kind = "change" /\ Answers(r, Reply)
    /\ UNCHANGED <<site, signings, stored, ours, rule, wakes, sure>>

--------------------------------------------------------------------------------
(* POST and DELETE /cloud/session.                                               *)

Connect(r) ==
    /\ Begins(r, "connect", "taking", Cookie)
    /\ UNCHANGED <<site, signings, stored, ours, rule, wakes, sure>>

Taken(r) ==
    /\ Heard(r, "taking")
    /\ IF req[r].got = Empty
       THEN Answers(r, "notConnected") /\ UNCHANGED <<stored, ours>>
       ELSE Asks(r, "storing", req[r].got) /\ ours' = req[r].got /\ stored' = TRUE
    /\ UNCHANGED <<site, signings, rule, wakes, sure>>

Stored(r) ==
    /\ Heard(r, "storing") /\ rule' = req[r].got /\ Asks(r, "connected", req[r].got)
    /\ UNCHANGED <<site, signings, stored, ours, wakes, sure>>

Connected(r) ==
    /\ Heard(r, "connected") /\ Answers(r, "ok")
    /\ sure' = (stored /\ site = req[r].got)
    /\ UNCHANGED <<site, signings, stored, ours, rule, wakes>>

Disconnect(r) ==
    /\ Ended(r)
    /\ ours' = None /\ stored' = FALSE /\ rule' = None /\ sure' = FALSE
    /\ req' = [Uncertain EXCEPT ![r] = [Idle EXCEPT !.kind = "disconnect"]]
    /\ UNCHANGED <<site, signings, line, wakes>>

--------------------------------------------------------------------------------
(* Around it.                                                                    *)

(* The user signs in at starlink.com, or out.                                    *)
Sign ==
    /\ \/ signings < MaxSignings /\ signings' = signings + 1 /\ site' = signings + 1
       \/ site # None /\ site' = None /\ UNCHANGED signings
    /\ sure' = FALSE /\ req' = Uncertain
    /\ UNCHANGED <<stored, ours, rule, line, wakes>>

(* The worker is torn down; with the browser, its rules are gone as well.        *)
TearDown ==
    /\ wakes < MaxWakes /\ wakes' = wakes + 1
    /\ ours' = None /\ req' = [r \in Requests |-> Idle] /\ line' = <<>>
    /\ rule' \in {rule, None}
    /\ UNCHANGED <<site, signings, stored, sure>>

Init ==
    /\ site = None /\ signings = 0 /\ stored = FALSE /\ ours = None /\ rule = None
    /\ req = [r \in Requests |-> Idle] /\ line = <<>> /\ wakes = 0 /\ sure = FALSE

Next ==
    \/ Sign \/ TearDown
    \/ \E r \in Requests :
          \/ Read(r) \/ Loaded(r) \/ Captured(r) \/ Handled(r)
          \/ Change(r) \/ Tick(r) \/ Changed(r)
          \/ Connect(r) \/ Taken(r) \/ Stored(r) \/ Connected(r) \/ Disconnect(r)

Spec == Init /\ [][Next]_vars

--------------------------------------------------------------------------------
Failed(r) == req[r].stage = "answered" /\ req[r].reply \in {"notConnected", "refused"}

(* Once a connection has been answered, a read begun since is answered under it, *)
(* whatever reads were under way as it was made and however often the worker was *)
(* torn down since (loadOurCookie, setCookieRule).                               *)
ConnectedIsServed ==
    \A r \in Requests : req[r].sure /\ req[r].kind # "change" => ~Failed(r)

(* Violated: "our copy is mirrored here and reloaded before each request is      *)
(* served", a change or a tick's pause too.                                      *)
EachRequestIsServed == \A r \in Requests : req[r].sure => ~Failed(r)

(* Violated: once disconnected, and with nothing under way, no copy is held and  *)
(* no rule carries it (disconnect).                                              *)
DisconnectedHoldsNothing ==
    ~stored /\ (\A r \in Requests : Ended(r)) => ours = None /\ rule = None
================================================================================
