----------------------------- MODULE AlertEpisodes -----------------------------
(* Alerts as they become news: the engine of core/alertEngine.ts, the readings   *)
(* the recorder's pollAlerts hands it, and the episodes written down from what   *)
(* it reports (AlertStore, episodesForTransitions).                              *)
(*                                                                               *)
(* The engine is memory and starts from the episodes left open: after a kill in  *)
(* the recorder, on every tick in the extension.                                 *)
EXTENDS Naturals, FiniteSets

CONSTANTS
    DishKeys, RouterKeys,
    Latched,                    \* noEthernetLink, which the dish leaves set
    None,
    Retention,                  \* how long a closed episode is kept
    MaxTime, MaxRestarts        \* bounds

VARIABLES
    firing,         \* the engine's alerts
    presence,       \* its routerPresence, None at first
    episode,        \* episode[a]: when the open episode of a began, or None
    closed,         \* closed[a]: the last one closed, [start, end], or None
    todo,           \* transitions reported and not yet written down
    cycle,          \* the polls under way: what the dish said to each, and when; at
                    \* is None until it has
    now, restarts,
    word,           \* the device alerts set when their device last answered
    said,           \* what the dish last said of the router
    silent,         \* the devices that did not answer when last asked
    torn,           \* what a kill may have lost, until the devices answer again
    heard           \* the dish has answered since the engine was made

engine == <<firing, presence>>
log    == <<episode, closed>>
ghosts == <<word, said, silent, torn, heard>>
vars   == <<engine, log, todo, cycle, now, restarts, ghosts>>

DishAlerts   == {"dish"} \X DishKeys
RouterAlerts == {"router"} \X RouterKeys
DishSilence   == <<"system", "dishUnreachable">>
RouterSilence == <<"system", "routerUnreachable">>
Alerts == DishAlerts \cup RouterAlerts \cup {DishSilence, RouterSilence}

DishScope   == DishAlerts \cup {DishSilence}
RouterScope == RouterAlerts \cup {RouterSilence}
Presences   == {"present", "bypassed", "absent"}

AlertsAssumption ==
    /\ Latched \in DishKeys /\ None \notin Presences /\ None \notin Nat
    /\ {Retention, MaxTime, MaxRestarts} \subseteq Nat

--------------------------------------------------------------------------------
(* AlertEngine.update, one device after another.                                 *)

(* [mutant] The firmware's latched flag is believed.                             *)
AsFlagged(reply) == {"dish"} \X reply.flags

(* resolveAlerts and correctLatchedEthernetFlag.                                 *)
Corrected(reply) ==
    {"dish"} \X (IF reply.linked THEN reply.flags \ {Latched} ELSE reply.flags)

(* heldFor: silence is not a recovery.                                           *)
HeldFor(before, own) == before \cap own

DishWants(before, reply) ==
    IF reply = None THEN HeldFor(before, DishAlerts) \cup {DishSilence} ELSE Corrected(reply)

(* routerSilenceExpected.                                                        *)
RouterSilenceExpected(saying) == saying \in {"bypassed", "absent"}

RouterWants(before, reply, saying) ==
    IF reply # None THEN {"router"} \X reply
    ELSE HeldFor(before, RouterAlerts)
         \cup (IF RouterSilenceExpected(saying) THEN {} ELSE {RouterSilence})

(* reconcile.                                                                    *)
Reconcile(before, scope, desired) == (before \ scope) \cup desired
Crossed(before, after, at) ==
    { [kind |-> "fired", alert |-> a, at |-> at] : a \in after \ before }
    \cup { [kind |-> "cleared", alert |-> a, at |-> at] : a \in before \ after }

--------------------------------------------------------------------------------
(* pollAlerts: each device is asked in turn, and answers a while later.          *)

DishReplies == [flags : SUBSET DishKeys, linked : BOOLEAN, presence : Presences]

(* What a reply of the dish means: with a link up, Latched is a leftover.         *)
Meant(reply) ==
    { a \in DishAlerts : a[2] \in reply.flags /\ (a[2] = Latched => ~reply.linked) }

(* nonOverlapping.                                                               *)
MayBegin == cycle = {}

Begin ==
    /\ todo = {} /\ MayBegin
    /\ cycle' = cycle \cup {[reply |-> None, at |-> None]}
    /\ UNCHANGED <<engine, log, todo, now, restarts, ghosts>>

HearDish(c, reply) ==
    /\ todo = {} /\ c.at = None
    /\ cycle' = (cycle \ {c}) \cup {[reply |-> reply, at |-> now]}
    /\ IF reply = None
       THEN silent' = silent \cup {"dish"} /\ UNCHANGED <<word, said>>
       ELSE /\ silent' = silent \ {"dish"}
            /\ word' = (word \ DishAlerts) \cup Meant(reply)
            /\ said' = reply.presence
    /\ UNCHANGED <<engine, log, todo, now, restarts, torn, heard>>

(* The router's answer, and the whole observation goes to the engine. The outage *)
(* alert, read off samples already at hand, is left out.                         *)
HearRouter(c, reply) ==
    /\ todo = {} /\ c.at # None
    /\ LET saying == IF c.reply = None THEN presence ELSE c.reply.presence
           first  == Reconcile(firing, DishScope, DishWants(firing, c.reply))
           second == Reconcile(first, RouterScope, RouterWants(first, reply, saying))
       IN  /\ firing' = second /\ presence' = saying
           /\ todo' = Crossed(firing, first, c.at) \cup Crossed(first, second, now)
           /\ cycle' = cycle \ {c}
           /\ silent' = IF reply = None THEN silent \cup {"router"} ELSE silent \ {"router"}
           /\ word' = IF reply = None THEN word ELSE (word \ RouterAlerts) \cup ({"router"} \X reply)
           /\ heard' = (heard \/ c.reply # None)
           /\ torn' = torn \ ({ d \in {"dish"} : c.reply # None }
                             \cup { d \in {"router"} : reply # None } \cup {"silences"})
           /\ UNCHANGED <<log, now, restarts, said>>

--------------------------------------------------------------------------------
(* recordAlertTransitions: AlertStore's open and close, each with its flush.     *)

Kept(past) == IF past # None /\ past.start + Retention < now THEN None ELSE past

(* One transition; those of one poll are about different alerts, and their order *)
(* tells nothing apart.                                                          *)
Record ==
    LET t == CHOOSE t \in todo : TRUE IN
    /\ todo # {} /\ todo' = todo \ {t}
    /\ IF (episode[t.alert] = None) = (t.kind = "cleared")
       THEN UNCHANGED log
       ELSE IF t.kind = "fired"
       THEN /\ episode' = [episode EXCEPT ![t.alert] = t.at]
            /\ closed' = [a \in Alerts |-> Kept(closed[a])]
       ELSE /\ episode' = [episode EXCEPT ![t.alert] = None]
            /\ closed' = [a \in Alerts |->
                            Kept(IF a = t.alert THEN [start |-> episode[a], end |-> t.at] ELSE closed[a])]
    /\ UNCHANGED <<engine, cycle, now, restarts, ghosts>>

OpenAlerts == { a \in Alerts : episode[a] # None }

Seed == OpenAlerts

(* Killed, or torn down between ticks, and started again.                        *)
Restart ==
    /\ restarts < MaxRestarts
    /\ restarts' = restarts + 1
    /\ firing' = Seed /\ presence' = None /\ heard' = FALSE
    /\ torn' = IF todo = {} /\ cycle = {} THEN torn
               ELSE {"dish", "router", "silences"}
    /\ todo' = {} /\ cycle' = {}
    /\ UNCHANGED <<log, now, word, said, silent>>

Tick ==
    /\ now < MaxTime /\ todo = {}
    /\ now' = now + 1
    /\ UNCHANGED <<engine, log, todo, cycle, restarts, ghosts>>

Init ==
    /\ firing = {} /\ presence = None
    /\ episode = [a \in Alerts |-> None] /\ closed = [a \in Alerts |-> None]
    /\ todo = {} /\ cycle = {}
    /\ now = 0 /\ restarts = 0
    /\ word = {} /\ said = None /\ silent = {} /\ torn = {} /\ heard = FALSE

Next ==
    \/ Tick \/ Restart \/ Begin \/ Record
    \/ \E c \in cycle :
          \/ \E reply \in DishReplies \cup {None} : HearDish(c, reply)
          \/ \E reply \in (SUBSET RouterKeys) \cup {None} : HearRouter(c, reply)

Spec == Init /\ [][Next]_vars

--------------------------------------------------------------------------------
(* The engine, the log and the readings hold what the code can.                  *)
TypeOK ==
    /\ firing \subseteq Alerts /\ presence \in Presences \cup {None}
    /\ episode \in [Alerts -> (0 .. MaxTime) \cup {None}]
    /\ \A a \in Alerts : closed[a] # None => {closed[a].start, closed[a].end} \subseteq 0 .. MaxTime
    /\ \A t \in todo : t.kind \in {"fired", "cleared"} /\ t.alert \in Alerts /\ t.at \in 0 .. MaxTime

Settled == todo = {} /\ cycle = {}

(* Between polls the open episodes are the alerts each device had set when it    *)
(* last answered, and the silence of the dish: neither a device that stops       *)
(* answering nor a restart opens or closes one of them (AlertEngine.update,      *)
(* heldFor, the engine's seed).                                                  *)
EpisodesFollowDevices ==
    Settled =>
        /\ \A a \in DishAlerts \cup RouterAlerts :
              a[1] \notin torn => (a \in OpenAlerts <=> a \in word)
        /\ "silences" \notin torn => (DishSilence \in OpenAlerts <=> "dish" \in silent)

(* A router that does not answer is a fault unless the dish, when it last spoke, *)
(* knew of a reason (routerPresence).                                            *)
JudgesRouter == RouterSilence \in OpenAlerts
                    <=> "router" \in silent /\ said \notin {"bypassed", "absent"}
RouterIsJudgedByTheDish == Settled /\ heard /\ "silences" \notin torn => JudgesRouter

(* The same after a restart, before the dish has answered: a dish that stops     *)
(* replying has no new opinion.                                                  *)
TheDishsWordIsHeld == Settled /\ said # None /\ torn = {} => JudgesRouter

(* The episodes of one alert follow one another: none overlaps the one before,   *)
(* and none closes before it opens (pollAlerts, nonOverlapping).                 *)
EpisodesAreApart ==
    \A a \in Alerts : closed[a] # None =>
        /\ closed[a].start <= closed[a].end
        /\ episode[a] # None => closed[a].end <= episode[a]
================================================================================
