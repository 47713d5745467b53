--------------------------------- MODULE SignIn --------------------------------
(* Connecting the account from a login window: signIn, openLoginWindow and       *)
(* tryAdopt of src/electron/cloud.ts.  The site mints a session over redirects,  *)
(* its durable cookie before the token that authorizes it; whatever the window's *)
(* jar holds is tried on the account until it is taken.                          *)
EXTENDS Naturals

CONSTANTS
    None,
    MaxWindows,         \* bound: how often a person signs in
    MaxUpsets           \* bound: how often the session is lost or the account fails

VARIABLES
    jar,                \* the window's cookies: "none", "early" (no token) or "good"
    loading,            \* a page of the site is still to finish loading
    windows,            \* sign-ins so far
    window,             \* the last one's: "none", "silent" (signIn's own try), "open"
                        \* or "closed"
    verdict,            \* what it was resolved with, None till then
    adopt,              \* tryAdopt, which outlives its window: see Idle
    upsets,
    session             \* the account's cookie as stored: None, "early" or "good"

vars == <<jar, loading, windows, window, verdict, adopt, upsets, session>>

Attempts == 4
Idle == [stage |-> "idle", attempt |-> 0, tried |-> None, rejected |-> None]

Resolved(how) == verdict' = IF verdict = None THEN how ELSE verdict

--------------------------------------------------------------------------------
(* The site, and the person at it.                                               *)

(* tryAdopt, on a cookie or a load: one at a time.                               *)
TryAdopt ==
    adopt' = IF adopt.stage = "idle" THEN [Idle EXCEPT !.stage = "reading"] ELSE adopt

(* The durable cookie is written, the token follows, and the page loads.         *)
CookieWritten ==
    /\ window = "open" /\ jar = "none" /\ jar' \in {"early", "good"} /\ loading' = TRUE
    /\ TryAdopt
    /\ UNCHANGED <<windows, window, verdict, upsets, session>>

TokenWritten ==
    /\ window = "open" /\ jar = "early" /\ jar' = "good" /\ loading' = TRUE
    /\ UNCHANGED <<windows, window, verdict, adopt, upsets, session>>

Loaded ==
    /\ window = "open" /\ loading /\ loading' = FALSE
    /\ TryAdopt
    /\ UNCHANGED <<jar, windows, window, verdict, upsets, session>>

SessionLost ==
    /\ upsets < MaxUpsets /\ upsets' = upsets + 1
    /\ jar' = "none"
    /\ UNCHANGED <<loading, windows, window, verdict, adopt, session>>

(* A jar that is still signed in is tried first, with no window.                 *)
SignInAsked ==
    /\ window \in {"none", "closed"} /\ adopt.stage = "idle"
    /\ windows < MaxWindows /\ windows' = windows + 1
    /\ verdict' = None
    /\ IF jar = "none"
       THEN window' = "open" /\ loading' = TRUE /\ adopt' = Idle /\ UNCHANGED session
       ELSE /\ window' = "silent" /\ loading' = FALSE /\ session' = jar
            /\ adopt' = [Idle EXCEPT !.stage = "verifying", !.tried = jar]
    /\ UNCHANGED <<jar, upsets>>

Close ==
    /\ window = "open" /\ window' = "closed"
    /\ Resolved("cancelled")
    /\ UNCHANGED <<jar, loading, windows, adopt, upsets, session>>

--------------------------------------------------------------------------------
(* The attempts.  handler.connect stores the cookie before it asks the account.  *)

(* [mutant] One that failed leaves the latch behind.                             *)
LatchedFor(last) == [Idle EXCEPT !.stage = "latched", !.rejected = last]

LatchFreed(last) == [Idle EXCEPT !.rejected = last]

(* An attempt was no use.  A silent try that failed opens the window.  When all  *)
(* four have, a session that was refused is the problem and the window goes (its *)
(* `closed` may say cancelled first); a fault of the account's leaves it up.     *)
Afterwards(last) ==
    \/ /\ window = "silent"
       /\ window' = "open" /\ loading' = TRUE /\ adopt' = Idle /\ UNCHANGED verdict
    \/ /\ window # "silent" /\ adopt.attempt + 1 < Attempts
       /\ adopt' = [adopt EXCEPT !.stage = "waiting", !.tried = None, !.rejected = last]
       /\ UNCHANGED <<loading, window, verdict>>
    \/ /\ window # "silent" /\ adopt.attempt + 1 = Attempts
       /\ adopt' = LatchFreed(last)
       /\ IF last # "refused" THEN UNCHANGED <<window, verdict>>
          ELSE window' = "closed" /\ \E how \in {"refused", "cancelled"} : Resolved(how)
       /\ UNCHANGED loading

ReadJar ==
    /\ adopt.stage = "reading"
    /\ \/ /\ jar # "none" /\ session' = jar
          /\ adopt' = [adopt EXCEPT !.stage = "verifying", !.tried = jar]
          /\ UNCHANGED <<loading, window, verdict>>
       \/ jar = "none" /\ Afterwards(adopt.rejected) /\ UNCHANGED session
    /\ UNCHANGED <<jar, windows, upsets>>

(* The account takes a good cookie and refuses one without its token.  One it    *)
(* has taken shuts the window.                                                   *)
Taken ==
    /\ adopt.stage = "verifying" /\ adopt.tried = "good"
    /\ adopt' = Idle
    /\ window' = "closed" /\ Resolved("ok")
    /\ UNCHANGED <<jar, loading, windows, upsets, session>>

Refused ==
    /\ adopt.stage = "verifying" /\ adopt.tried = "early"
    /\ Afterwards("refused")
    /\ UNCHANGED <<jar, windows, upsets, session>>

Faulted ==
    /\ adopt.stage = "verifying"
    /\ upsets < MaxUpsets /\ upsets' = upsets + 1
    /\ Afterwards("fault")
    /\ UNCHANGED <<jar, windows, session>>

Again ==
    /\ adopt.stage = "waiting"
    /\ adopt' = [adopt EXCEPT !.stage = "reading", !.attempt = @ + 1]
    /\ UNCHANGED <<jar, loading, windows, window, verdict, upsets, session>>

Init ==
    /\ jar \in {"none", "early", "good"} /\ loading = FALSE
    /\ windows = 0 /\ window = "none" /\ verdict = None
    /\ adopt = Idle /\ upsets = 0 /\ session = None

Next ==
    \/ CookieWritten \/ TokenWritten \/ Loaded \/ SessionLost \/ SignInAsked \/ Close
    \/ ReadJar \/ Taken \/ Refused \/ Faulted \/ Again

Spec == Init /\ [][Next]_vars

(* A page that loads finishes, the account answers and timers fire.              *)
Adopts   == ReadJar \/ Taken \/ Refused \/ Faulted \/ Again
Fairness == WF_vars(Loaded) /\ WF_vars(Adopts)

--------------------------------------------------------------------------------
(* A window whose jar holds a good session does not stay: it is taken, refused   *)
(* or closed, however often it was tried too early (openLoginWindow: failure     *)
(* must not close the door).  Only after a fault at the last attempt, with no    *)
(* load to come, is nobody left to try.                                          *)
GoodSessionIsTaken ==
    window = "open" /\ jar = "good" ~>
        \/ window # "open" \/ jar # "good"
        \/ adopt.stage = "idle" /\ adopt.rejected = "fault" /\ ~loading

(* Violated: cancelled, or refused, nothing is connected.                        *)
OnlyOkConnects == verdict \in {"cancelled", "refused"} => session = None

(* Violated: nobody is left parked on a good session.                            *)
NobodyIsParked == window = "open" /\ jar = "good" ~> window # "open" \/ jar # "good"
================================================================================
