----------------------------- MODULE RouterSources -----------------------------
(* The devices and the configuration of the router as the dashboard shows them:  *)
(* read from the router itself while it answers, and through the account while   *)
(* it does not (useRouterNetwork, in src/hooks/useRouterNetwork.ts).  The panel  *)
(* opens and closes; what it has read stays.                                     *)
(*                                                                               *)
(* An effect that depends on a state is rerun with the step that changes it.     *)
EXTENDS Integers

CONSTANTS
    MaxMounts,          \* bound: how often the panel opens
    MaxEdits,           \* bound: changes of the router's configuration
    None

VARIABLES
    lan, account,       \* the router: "answers" or "silent"; or "missing", a session
    version,            \* of the router's configuration
    loads,              \* whether the client that calls the router can be loaded
    mounts, active,     \* openings so far; whether the last one stands
    effect,             \* effect[e]: the polling effect of that opening
    answering, ever, misses,   \* what the standing effect knows of the router
    reachable, source,  \* routerReachable, clientsSource
    requested,          \* accountRosterRequested
    roster,             \* the account's roster: "off", "out", "due" or "stopped"
    config,             \* its configuration: "off", "out", "due" or "done"
    shown, viaAccount,  \* wifiConfig: [version, from]; and how it is labelled
    reads               \* other reads of the configuration that are out

router == <<lan, account, version, loads>>
panel  == <<mounts, active, effect>>
polls  == <<answering, ever, misses>>
view   == <<reachable, source, requested>>
behind == <<roster, config>>
label  == <<shown, viaAccount>>
vars   == <<router, panel, polls, view, behind, label, reads>>

Disposed(e) == ~(active /\ e = mounts)
MISSES_BEFORE_UNREACHABLE == 2

(* The two effects that read through the account, while nothing is known of the  *)
(* router; each starts over when what it depends on changes.                     *)
RosterWanted == active /\ reachable = FALSE /\ requested
ConfigWanted == active /\ reachable = FALSE
Rerun ==
    /\ roster' = IF ~RosterWanted' THEN "off" ELSE IF RosterWanted THEN roster ELSE "out"
    /\ config' = IF ~ConfigWanted' THEN "off" ELSE IF ConfigWanted THEN config ELSE "out"

--------------------------------------------------------------------------------
(* The panel and its poll.                                                       *)

Mount ==
    /\ ~active /\ mounts < MaxMounts
    /\ active' = TRUE /\ mounts' = mounts + 1
    /\ effect' = [effect EXCEPT ![mounts + 1] = "starting"]
    /\ answering' = FALSE /\ ever' = FALSE /\ misses' = 0
    /\ UNCHANGED <<router, view, label, reads>>
    /\ Rerun

(* The timers go that the effect has set by now; an effect in its first poll or  *)
(* its first tail goes on to set its own.                                        *)
Unmount ==
    /\ active /\ active' = FALSE
    /\ effect' = [effect EXCEPT ![mounts] = IF @ \in {"starting", "first"} THEN @ ELSE "over"]
    /\ UNCHANGED <<router, mounts, polls, view, label, reads>>
    /\ Rerun

(* Its first poll and first tail are over and the timers are set, which nobody   *)
(* asks the effect before.                                                       *)
TimersSet(e) ==
    /\ effect[e] = "first"
    /\ effect' = [effect EXCEPT ![e] = "waiting"]
    /\ UNCHANGED <<router, mounts, active, polls, view, behind, label, reads>>

Tick(e) ==
    /\ effect[e] = "waiting"
    /\ effect' = [effect EXCEPT ![e] = "polling"]
    /\ UNCHANGED <<router, mounts, active, polls, view, behind, label, reads>>

(* The client's promise is kept in clientRef, a rejected one too: no opening gets *)
(* past a load that failed, and none sets its timers.                            *)
LoadFails(e) ==
    /\ effect[e] = "starting" /\ ~loads
    /\ effect' = [effect EXCEPT ![e] = "over"]
    /\ reachable' = IF Disposed(e) THEN reachable ELSE FALSE
    /\ UNCHANGED <<router, mounts, active, polls, source, requested, label, reads>>
    /\ Rerun

Calls(e) == effect[e] = "polling" \/ (effect[e] = "starting" /\ loads)
Ended(e) == effect' = [effect EXCEPT ![e] = IF @ = "starting" THEN "first" ELSE "waiting"]

(* A poll ends that says something: the router's own configuration is read when  *)
(* it has come back.                                                             *)
PollAnswered(e) ==
    /\ Calls(e) /\ ~Disposed(e) /\ lan = "answers"
    /\ Ended(e)
    /\ source' = "lan" /\ requested' = FALSE /\ reachable' = TRUE
    /\ answering' = TRUE /\ ever' = TRUE /\ misses' = 0
    /\ reads' = IF answering THEN reads
                ELSE reads \cup {[from |-> "lan", asked |-> version]}
    /\ UNCHANGED <<router, mounts, active, label>>
    /\ Rerun

PollMissed(e) ==
    /\ Calls(e) /\ ~Disposed(e) /\ lan = "silent"
    /\ Ended(e)
    /\ misses' = IF misses < MISSES_BEFORE_UNREACHABLE THEN misses + 1 ELSE misses
    /\ LET lost == ~ever \/ misses' >= MISSES_BEFORE_UNREACHABLE IN
       /\ reachable' = IF lost THEN FALSE ELSE reachable
       /\ answering' = (answering /\ ~lost)
    /\ UNCHANGED <<router, mounts, active, ever, source, requested, label, reads>>
    /\ Rerun

(* Nothing of a disposed effect's is heard, but its steps go on; only the seed   *)
(* of the series, if it was that, ends it.                                       *)
PollUnheard(e) ==
    /\ Calls(e) /\ Disposed(e)
    /\ Ended(e) \/ (effect[e] = "starting" /\ effect' = [effect EXCEPT ![e] = "over"])
    /\ UNCHANGED <<router, mounts, active, polls, view, behind, label, reads>>

--------------------------------------------------------------------------------
(* Through the account.                                                          *)

(* readRosterViaAccount.                                                         *)
AskAccount ==
    /\ active /\ ~requested /\ requested' = TRUE
    /\ UNCHANGED <<router, panel, polls, reachable, source, label, reads>>
    /\ Rerun

RosterRead ==
    /\ roster = "out"
    /\ source' = IF account = "answers" THEN "cloud" ELSE source
    /\ roster' = IF account = "missing" THEN "stopped" ELSE "due"
    /\ UNCHANGED <<router, panel, polls, reachable, requested, config, label, reads>>

ConfigRead ==
    /\ config = "out"
    /\ IF account = "answers"
       THEN /\ config' = "done" /\ viaAccount' = TRUE
            /\ shown' = [version |-> version, from |-> "account"]
       ELSE config' = "due" /\ UNCHANGED label
    /\ UNCHANGED <<router, panel, polls, view, roster, reads>>

(* [mutant] A configuration that could not be read is not asked for again.       *)
AskedOnce == "done"

AskedAgain == "out"

(* The timers of the two.                                                        *)
ConfigDue ==
    /\ config = "due" /\ config' = AskedAgain
    /\ UNCHANGED <<router, panel, polls, view, roster, label, reads>>

RosterDue ==
    /\ roster = "due" /\ roster' = "out"
    /\ UNCHANGED <<router, panel, polls, view, config, label, reads>>

(* refreshConfig, after a change made from here: from whatever serves the roster.*)
Refresh ==
    /\ active /\ version < MaxEdits /\ version' = version + 1
    /\ LET from == IF source = "cloud" THEN "account" ELSE "lan" IN
       reads' = reads \cup {[from |-> from, asked |-> version']}
    /\ UNCHANGED <<lan, account, loads, panel, polls, view, behind, label>>

(* It lands, with what the router said since it was asked.  Only the router's    *)
(* own is labelled, and dropped when the panel has closed.                       *)
ReadLands(read) ==
    /\ (IF read.from = "lan" THEN lan ELSE account) = "answers"
    /\ reads' = reads \ {read}
    /\ \E v \in read.asked .. version :
        IF read.from = "lan" /\ ~active THEN UNCHANGED label
        ELSE /\ shown' = [version |-> v, from |-> read.from]
             /\ viaAccount' = (viaAccount /\ read.from # "lan")
    /\ UNCHANGED <<router, panel, polls, view, behind>>

ReadFails(read) ==
    /\ reads' = reads \ {read}
    /\ UNCHANGED <<router, panel, polls, view, behind, label>>

--------------------------------------------------------------------------------
(* The router comes and goes, and so does the account's session, which is        *)
(* announced (subscribeCloudSession).                                            *)
LanTurns ==
    /\ lan' = IF lan = "answers" THEN "silent" ELSE "answers"
    /\ UNCHANGED <<account, version, loads, panel, polls, view, behind, label, reads>>

AccountTurns ==
    /\ account' \in {"answers", "silent", "missing"} \ {account}
    /\ roster' = IF RosterWanted /\ "missing" \in {account, account'} THEN "out" ELSE roster
    /\ config' = IF ConfigWanted /\ "missing" \in {account, account'} THEN "out" ELSE config
    /\ UNCHANGED <<lan, version, loads, panel, polls, view, label, reads>>

Init ==
    /\ lan \in {"answers", "silent"} /\ account \in {"answers", "silent", "missing"}
    /\ loads \in BOOLEAN
    /\ version = 0 /\ mounts = 0 /\ active = FALSE
    /\ effect = [e \in 1 .. MaxMounts |-> "over"]
    /\ answering = FALSE /\ ever = FALSE /\ misses = 0
    /\ reachable = None /\ source = None /\ requested = FALSE
    /\ roster = "off" /\ config = "off"
    /\ shown = None /\ viaAccount = FALSE /\ reads = {}

Poll(e) ==
    \/ LoadFails(e) \/ TimersSet(e) \/ Tick(e)
    \/ PollAnswered(e) \/ PollMissed(e) \/ PollUnheard(e)

Next ==
    \/ Mount \/ Unmount \/ (\E e \in 1 .. MaxMounts : Poll(e))
    \/ AskAccount \/ RosterRead \/ ConfigRead \/ ConfigDue \/ RosterDue \/ Refresh
    \/ \E read \in reads : ReadLands(read) \/ ReadFails(read)
    \/ LanTurns \/ AccountTurns

Spec == Init /\ [][Next]_vars

(* Timers fire and every request ends.                                           *)
Fairness ==
    /\ \A e \in 1 .. MaxMounts : WF_vars(Poll(e))
    /\ WF_vars(ConfigRead) /\ WF_vars(ConfigDue)

--------------------------------------------------------------------------------
(* While the panel is open, a router that answers is what serves it, if its      *)
(* client loads, and one that is silent leaves no configuration unread that the  *)
(* account could give (useRouterNetwork: retried until one read lands).          *)
EitherSourceServes ==
    /\ active /\ loads /\ lan = "answers" ~> ~active \/ lan # "answers" \/ source = "lan"
    /\ active /\ lan = "silent" /\ account = "answers" ~>
           ~active \/ lan # "silent" \/ account # "answers" \/ shown # None

(* Violated: a router that answers serves the panel, though its client could not *)
(* be loaded when it was first wanted: nothing loads it again.                   *)
AnsweringServes ==
    active /\ lan = "answers" ~> ~active \/ lan # "answers" \/ source = "lan"

(* Violated: the router is polled only while a surface that shows it is open     *)
(* (the header of useRouterNetwork.ts): one that closes while it is first read   *)
(* leaves its timers set.                                                        *)
PolledOnlyWhileOpen == \A e \in 1 .. MaxMounts : effect[e] = "polling" => ~Disposed(e)

(* Violated: the label says which way the configuration was read                 *)
(* (wifiConfigViaAccount).                                                       *)
ConfigNamesItsSource == shown # None => (shown.from = "account") = viaAccount

(* Violated: a router that came back shows its own configuration in the end; the *)
(* one read that asks for it may fail.                                           *)
ConfigComesHome ==
    active /\ lan = "answers" ~> ~active \/ lan # "answers" \/ (shown # None /\ ~viaAccount)
================================================================================
