--------------------------- MODULE AlertAnnouncements --------------------------
(* Who is told of an alert on the desktop: the page that shows it                *)
(* (src/hooks/useDeviceAlerts.ts, src/lib/notifications.ts) sounds a chime while *)
(* its window is in front (src/lib/alertSound.ts), and the main process, which   *)
(* hears of it from the recorder (startAlertNotifications), posts a notification *)
(* while it is not.  The two ask the device each at its own time.  That an alert is  *)
(* over is announced likewise, under a key of its own, and is left out.          *)
EXTENDS Naturals

VARIABLES
    answers, faulty,    \* the device
    told, online,       \* the page's status (None, or what it said) and connection
    shown,              \* previousActiveRef: the alerts of its last render
    firing,             \* the recorder's engine's
    window,             \* "none", "away" or "front"
    audible,            \* the page can sound: alertSoundEnabled, and an audioContext
    wanted,             \* preferences().notifications
    posted,             \* keys posted or held back within the minute (NotificationThrottle)
    chimed,             \* keys chimed within the minute (alertSound)
    times,              \* times[x]: announcements of the onset of x in hand
    plain               \* plain[x]: nothing came between the two hearing of it

CONSTANT None

device == <<answers, faulty>>
page   == <<told, online, shown>>
vars   == <<device, page, firing, window, audible, wanted, posted, chimed, times, plain>>

(* A fault of the device's own, and its silence.                                 *)
Alerts   == {"fault", "unreachable"}
Held(x)  == IF x = "fault" THEN answers /\ faulty ELSE ~answers
Quiet(x) == ~Held(x) /\ x \notin shown /\ x \notin firing

(* Twice is once too often: none is counted further.                             *)
Many == 2

(* The ghosts, after announcing these keys and holding back those.               *)
Counted(heard, heldBack) ==
    /\ times' = [x \in Alerts |->
         IF Quiet(x)' THEN 0
         ELSE IF x \in heard /\ times[x] < Many THEN times[x] + 1 ELSE times[x]]
    /\ plain' = [x \in Alerts |-> Quiet(x)' \/ (plain[x] /\ x \notin heldBack)]
Muddled ==
    /\ times' = [x \in Alerts |-> IF Quiet(x)' THEN 0 ELSE times[x]]
    /\ plain' = [x \in Alerts |-> Quiet(x)']

--------------------------------------------------------------------------------
(* The page (useDishTelemetry's poll, then the effect over `active`).  The last  *)
(* status stands on failure, and a device that does not answer shows none of its *)
(* own alerts.                                                                   *)
Active(status, connected) ==
    (IF connected /\ status = TRUE THEN {"fault"} ELSE {})
    \cup (IF connected THEN {} ELSE {"unreachable"})

(* announceAlert: away from the window it is left to the host, and in front of it*)
(* to playAlertSound, which does nothing while it cannot be heard.               *)
Announce(keys) ==
    LET sounds == IF window = "front" /\ audible THEN keys \ chimed ELSE {}
    IN  /\ chimed' = chimed \cup sounds
        /\ Counted(sounds, (keys \cap chimed)
                           \cup ((shown \cap firing) \ shown'))

PagePolls ==
    /\ window # "none"
    /\ told' = IF answers THEN faulty ELSE told
    /\ online' = answers
    /\ shown' = Active(told', online')
    /\ UNCHANGED <<device, firing, window, audible, wanted, posted>>
    /\ Announce(shown' \ shown)

(* The recorder's poll.  Silence is not a recovery (AlertEngine).                *)
EngineHears == IF answers THEN (IF faulty THEN {"fault"} ELSE {})
               ELSE firing \cup {"unreachable"}

(* [mutant] The host does not look where the window is.                          *)
PostedAnyway == TRUE

(* windowIsForeground holds a banner back, after the throttle has taken note.    *)
Posted == window # "front"

RecorderPolls ==
    LET keys  == EngineHears \ firing
        fresh == IF wanted THEN keys \ posted ELSE {}
    IN  /\ firing' = EngineHears
        /\ posted' = posted \cup fresh
        /\ UNCHANGED <<device, page, window, audible, wanted, chimed>>
        /\ Counted(IF Posted THEN fresh ELSE {}, keys \cap posted)

--------------------------------------------------------------------------------
(* The device and the person.                                                    *)

(* An alert that returns before both have let go of it is taken for the same.    *)
DeviceTurns ==
    /\ answers' \in BOOLEAN /\ faulty' \in BOOLEAN /\ device' # device
    /\ UNCHANGED <<page, firing, window, audible, wanted, posted, chimed, times>>
    /\ plain' = [x \in Alerts |->
         plain[x] /\ ~(Held(x)' /\ ~Held(x) /\ ~Quiet(x))]

(* The page mounts with no status, which is rendered, and announced, as it comes,*)
(* and with no audio context.                                                    *)
Open ==
    /\ window = "none" /\ window' = "front"
    /\ told' = None /\ online' = TRUE /\ shown' = {} /\ chimed' = {} /\ audible' = FALSE
    /\ UNCHANGED <<device, firing, wanted, posted>>
    /\ Muddled

Focus ==
    /\ window # "none"
    /\ window' = IF window = "front" THEN "away" ELSE "front"
    /\ UNCHANGED <<device, page, firing, audible, wanted, posted, chimed>>
    /\ Muddled

(* The first gesture opens the context (armAlertSoundOnFirstGesture), and there  *)
(* is a switch of the sound (setAlertSoundEnabled).                              *)
Touch ==
    /\ window = "front" /\ audible' = ~audible
    /\ UNCHANGED <<device, page, firing, window, wanted, posted, chimed>>
    /\ Muddled

Close ==
    /\ window # "none" /\ window' = "none" /\ audible' = FALSE
    /\ shown' = {} /\ told' = None /\ online' = TRUE
    /\ UNCHANGED <<device, firing, wanted, posted, chimed>>
    /\ Muddled

Toggle ==
    /\ wanted' = ~wanted
    /\ UNCHANGED <<device, page, firing, window, audible, posted, chimed>>
    /\ Muddled

(* The minute of a key is over.                                                  *)
MinutePasses ==
    /\ \E key \in posted \cup chimed : posted' = posted \ {key} /\ chimed' = chimed \ {key}
    /\ UNCHANGED <<device, page, firing, window, audible, wanted, times, plain>>

Init ==
    /\ answers = TRUE /\ faulty = FALSE
    /\ told = None /\ online = TRUE /\ shown = {} /\ firing = {}
    /\ window \in {"none", "front"} /\ audible = FALSE /\ wanted \in BOOLEAN
    /\ posted = {} /\ chimed = {}
    /\ times = [x \in Alerts |-> 0] /\ plain = [x \in Alerts |-> TRUE]

Next ==
    \/ PagePolls \/ RecorderPolls \/ DeviceTurns
    \/ Open \/ Focus \/ Touch \/ Close \/ Toggle \/ MinutePasses

Spec == Init /\ [][Next]_vars

--------------------------------------------------------------------------------
(* An alert that the page and the recorder have both heard of has been announced *)
(* at most once, whichever heard of it first, and once unless the window it is   *)
(* left to cannot sound: as long as neither window, sound nor preference changed *)
(* in between, no minute's throttle held it back, and the device did not fall    *)
(* silent over it (useDeviceAlerts: there is no double, because the host         *)
(* suppresses its own notification while the window is in front).                *)
AnnouncedOnce ==
    \A x \in shown \cap firing :
        plain[x] /\ (wanted \/ window = "front") =>
            /\ times[x] <= 1
            /\ (window = "front" => audible) => times[x] = 1

(* "With the window in front the renderer sounds its own chime and this posts    *)
(* nothing" (startAlertNotifications).  Violated: with the sound switched off, or*)
(* before the first gesture, the host posts nothing and the page is silent.      *)
TheChimeIsHeard ==
    \A x \in shown \cap firing : plain[x] /\ window = "front" => times[x] = 1

(* The page announces that a fault is over only when the device said so.         *)
(* Violated: a device that falls silent is a stale snapshot, not an all-clear    *)
(* (useDeviceAlerts), and is announced as one.                                   *)
ClearsAreClears ==
    [][window' = window /\ "fault" \in shown \ shown' => told' = FALSE]_vars

(* Whatever the window does in between: violated, an alert that each leaves to   *)
(* the other is announced by neither, and by both the other way round.           *)
AnnouncedWhateverTheFocus ==
    \A x \in shown \cap firing : wanted => times[x] >= 1
================================================================================
