------------------------------ MODULE DataDirLock ------------------------------
(***************************************************************************)
(* claimDataDir and releaseDataDir of collector/historian.mts: the pidfile *)
(* that lets one recorder, and no more, write a data directory.            *)
(*                                                                         *)
(* A process is known by its pid.  Each action is one system call on the   *)
(* lock file, the unit other processes interleave with.  Opening with "wx" *)
(* makes an empty file that its maker writes through its own descriptor,   *)
(* so a file also remembers who made it: a write to one that has been      *)
(* unlinked since reaches nobody.                                          *)
(***************************************************************************)
EXTENDS Integers

CONSTANTS
    Pids,          \* pids a recorder can be given; one that died can come back
    NoPid,         \* no pid: what an empty file reads as
    MaxAttempts,   \* how often a claim is tried: 5 in the code
    Overlap        \* whether one recorder may start while another is claiming

ASSUME NoPidIsNone         == NoPid \notin Pids
ASSUME AttemptsArePositive == MaxAttempts \in Nat \ {0, 1}
ASSUME OverlapIsBoolean    == Overlap \in BOOLEAN

VARIABLES
    lock,    \* the lock file: Absent, or who made it and the pid it holds
    at,      \* at[p]: where p is
    tries    \* tries[p]: attempts p has used up

vars == <<lock, at, tries>>

Claiming == {"opening", "writing", "reading", "unlinking"}
Places   == {"off", "owner", "releasing", "refused"} \cup Claiming

Absent == [maker |-> NoPid, pid |-> NoPid]
Locks  == [maker : Pids, pid : Pids \cup {NoPid}] \cup {Absent}

Alive(p) == at[p] # "off"

Init ==
    /\ lock = Absent
    /\ at = [p \in Pids |-> "off"]
    /\ tries = [p \in Pids |-> 0]

GoTo(p, place) == at' = [at EXCEPT ![p] = place]

Start(p) ==
    /\ at[p] = "off"
    /\ Overlap \/ \A q \in Pids : at[q] \notin Claiming
    /\ GoTo(p, "opening")
    /\ tries' = [tries EXCEPT ![p] = 0]
    /\ UNCHANGED lock

\* openSync(LOCK_FILE, "wx"): made, or EEXIST.
Open(p) ==
    /\ at[p] = "opening"
    /\ IF lock = Absent
       THEN lock' = [maker |-> p, pid |-> NoPid] /\ GoTo(p, "writing")
       ELSE GoTo(p, "reading") /\ UNCHANGED lock
    /\ UNCHANGED tries

\* [mutant] The claim is taken for made and the pid never reaches the file.
WritePidUnsaid(p) ==
    /\ at[p] = "writing"
    /\ GoTo(p, "owner")
    /\ UNCHANGED <<lock, tries>>

\* writeSync of the pid, through the descriptor of the file p made.
WritePid(p) ==
    /\ at[p] = "writing"
    /\ lock' = IF lock = [maker |-> p, pid |-> NoPid]
               THEN [lock EXCEPT !.pid = p] ELSE lock
    /\ GoTo(p, "owner")
    /\ UNCHANGED tries

\* An empty file reads as no pid; p's own pid is left by an earlier life of it.
OwnedByAnother(p) == lock.pid \in Pids \ {p} /\ Alive(lock.pid)

\* [mutant] A lock that names nobody alive is respected too.
ReadOwnerRespectingStale(p) ==
    /\ at[p] = "reading"
    /\ GoTo(p, IF lock = Absent \/ lock.pid # p THEN "refused" ELSE "unlinking")
    /\ UNCHANGED <<lock, tries>>

\* readFileSync: a live owner refuses p, and a file gone since ends p's start with
\* the error it raises, which nothing catches.
ReadOwner(p) ==
    /\ at[p] = "reading"
    /\ GoTo(p, IF lock = Absent \/ OwnedByAnother(p) THEN "refused" ELSE "unlinking")
    /\ UNCHANGED <<lock, tries>>

\* unlinkSync takes away whatever file has the name by now.
Unlink(p) ==
    /\ at[p] = "unlinking"
    /\ lock' = Absent
    /\ tries' = [tries EXCEPT ![p] = @ + 1]
    /\ GoTo(p, IF tries[p] + 1 = MaxAttempts THEN "refused" ELSE "opening")

\* The exit handler reads the file and then removes it if it is still p's.
Exit(p) ==
    /\ at[p] = "owner"
    /\ GoTo(p, IF lock.pid = p THEN "releasing" ELSE "off")
    /\ UNCHANGED <<lock, tries>>

Release(p) ==
    /\ at[p] = "releasing"
    /\ lock' = Absent
    /\ GoTo(p, "off")
    /\ UNCHANGED tries

\* A process dies where it stands, no handler run; a refused one goes the same way.
Die(p) ==
    /\ at[p] # "off"
    /\ GoTo(p, "off")
    /\ UNCHANGED <<lock, tries>>

Step(p) == Open(p) \/ WritePid(p) \/ ReadOwner(p) \/ Unlink(p) \/ Release(p)

Next == \E p \in Pids : Start(p) \/ Step(p) \/ Exit(p) \/ Die(p)

Spec == Init /\ [][Next]_vars

\* A process runs on until it is killed.
FairSpec == Spec /\ \A p \in Pids : WF_vars(Step(p))

--------------------------------------------------------------------------------
TypeOK ==
    /\ lock \in Locks
    /\ at \in [Pids -> Places]
    /\ tries \in [Pids -> 0 .. MaxAttempts]

\* A single collector owns a data directory, whoever crashed before it and at
\* whichever step (claimDataDir: two writers clobber each other's snapshots).
SingleOwner == \A p, q \in Pids : at[p] = "owner" /\ at[q] = "owner" => p = q

\* What that rests on while starts do not overlap: a recorder that owns the
\* directory is named by the lock, and nobody else is about to remove that lock.
LockNamesTheOwner ==
    \A p \in Pids :
        /\ at[p] \in {"owner", "releasing"} => lock.pid = p
        /\ at[p] = "writing" => lock = [maker |-> p, pid |-> NoPid]
        /\ at[p] = "unlinking" => lock # Absent /\ ~OwnedByAnother(p)

\* A crash does not wedge the next start: with no recorder owning the directory or
\* leaving it, and nothing else dying, one that starts comes to own it.
CrashNeverWedges ==
    LET Alone(p) == \A q \in Pids : Alive(q) <=> q = p
    IN  (\E p \in Pids : Alone(p) /\ at[p] = "opening")
            ~> \A p \in Pids : Alone(p) => at[p] = "owner"

================================================================================
