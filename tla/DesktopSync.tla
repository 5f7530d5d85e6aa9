---------------------------- MODULE DesktopSync ----------------------------
(***************************************************************************)
(* The desktop's own skill sync: performSync, run once at startup and by a   *)
(* timer, in a clone of the repository that both share.  Only the timer's    *)
(* runs exclude one another.  The administrator moves the pin meanwhile.     *)
(***************************************************************************)
EXTENDS Naturals

CONSTANTS
    Pins,        \* versions the distribution config may name
    NoPin,       \* no version: no clone, no metadata
    MaxPinMoves, MaxSyncFaults, MaxPeriodicOps   \* bounds

ASSUME PinAssumption == NoPin \notin Pins

Runs == {"startup", "tick"}

VARIABLES
    pinned,     \* the version the distribution config names
    clone,      \* the version checked out in cacheDir
    staged,     \* the version copied last into destDir.tmp
    dest,       \* the version copied last into destDir, in whole or in part
    synced,     \* the version in cacheDir/.sync-metadata.json
    run,        \* run[r]: the step the run awaits, its target version
    periodicStatus,     \* status of the periodic sync
    timer,      \* timerId is set
    syncing,    \* the flag of tick
    torn,       \* history: a run failed between its copy into destDir and its metadata
    moves       \* pin moves, faults, starts and stops so far

shared == <<pinned, clone, staged, dest, synced, torn>>
deskVars == <<shared, run, periodicStatus, timer, syncing, moves>>

DeskInit ==
    /\ pinned \in Pins
    /\ clone = NoPin /\ staged = NoPin /\ dest = NoPin /\ synced = NoPin
    /\ torn = FALSE
    /\ run = [r \in Runs |-> [step |-> IF r = "startup" THEN "new" ELSE "none", target |-> NoPin]]
    /\ periodicStatus = "idle" /\ timer = FALSE /\ syncing = FALSE
    /\ moves = [pins |-> 0, faults |-> 0, periodic |-> 0]

Await(r, step) == run' = [run EXCEPT ![r].step = step]

-----------------------------------------------------------------------------
(* performSync, step by step.                                                *)

StartupSync ==
    /\ run["startup"].step = "new"
    /\ Await("startup", "pin")
    /\ UNCHANGED <<shared, periodicStatus, timer, syncing, moves>>

PinRead(r) ==
    /\ run[r].step = "pin"
    /\ run' = [run EXCEPT ![r] = [step |-> "metadata", target |-> pinned]]
    /\ UNCHANGED <<shared, periodicStatus, timer, syncing, moves>>

(* fromCache: the metadata names the target. *)
MetadataCompared(r) ==
    /\ run[r].step = "metadata"
    /\ Await(r, IF synced = run[r].target THEN "update" ELSE "clone")
    /\ UNCHANGED <<shared, periodicStatus, timer, syncing, moves>>

CloneOrUpdate(r) ==
    /\ run[r].step = "clone"
    /\ clone' = run[r].target
    /\ Await(r, "stage")
    /\ UNCHANGED <<pinned, staged, dest, synced, torn, periodicStatus, timer, syncing, moves>>

(* Whatever the clone has checked out by now.  copyDir merges: files that     *)
(* only an earlier version had stay, under those of the last one.            *)
SkillsStaged(r) ==
    /\ run[r].step = "stage"
    /\ staged' = clone
    /\ Await(r, "copy")
    /\ UNCHANGED <<pinned, clone, dest, synced, torn, periodicStatus, timer, syncing, moves>>

SkillsCopied(r) ==
    /\ run[r].step = "copy"
    /\ dest' = staged
    /\ Await(r, "update")
    /\ UNCHANGED <<pinned, clone, staged, synced, torn, periodicStatus, timer, syncing, moves>>

(* How a run's end shows: tick keeps a status, startupSync rejects. *)
Ends(r, outcome) ==
    /\ Await(r, "none")
    /\ IF r = "tick"
       THEN periodicStatus' = outcome /\ syncing' = FALSE
       ELSE UNCHANGED <<periodicStatus, syncing>>

(* Mutated form of MetadataUpdated: the pin is read again for the metadata. *)
MetadataOfPinNow(r) ==
    /\ run[r].step = "update"
    /\ synced' = pinned
    /\ Ends(r, "synced")
    /\ UNCHANGED <<pinned, clone, staged, dest, torn, timer, moves>>

MetadataUpdated(r) ==
    /\ run[r].step = "update"
    /\ synced' = run[r].target
    /\ Ends(r, "synced")
    /\ UNCHANGED <<pinned, clone, staged, dest, torn, timer, moves>>

(* No config, no network, no disk: the run ends where it is, and what it was  *)
(* copying or checking out may be there in part.                             *)
DeskStepFails(r) ==
    /\ run[r].step \notin {"none", "new"}
    /\ moves.faults < MaxSyncFaults
    /\ moves' = [moves EXCEPT !.faults = @ + 1]
    /\ clone' \in IF run[r].step = "clone" THEN {clone, run[r].target} ELSE {clone}
    /\ staged' \in IF run[r].step = "stage" THEN {staged, clone} ELSE {staged}
    /\ dest' \in IF run[r].step = "copy" THEN {dest, staged} ELSE {dest}
    /\ torn' = (torn \/ run[r].step \in {"copy", "update"})
    /\ Ends(r, "error")
    /\ UNCHANGED <<pinned, synced, timer>>

-----------------------------------------------------------------------------
(* createPeriodicSync.                                                       *)

Start ==
    /\ ~timer /\ moves.periodic < MaxPeriodicOps
    /\ timer' = TRUE /\ periodicStatus' = "idle"
    /\ moves' = [moves EXCEPT !.periodic = @ + 1]
    /\ UNCHANGED <<shared, run, syncing>>

Stop ==
    /\ moves.periodic < MaxPeriodicOps
    /\ timer' = FALSE
    /\ periodicStatus' = IF syncing THEN periodicStatus ELSE "idle"
    /\ moves' = [moves EXCEPT !.periodic = @ + 1]
    /\ UNCHANGED <<shared, run, syncing>>

(* The interval elapses; a tick during a sync does nothing. *)
TickFires ==
    /\ timer /\ ~syncing
    /\ syncing' = TRUE /\ periodicStatus' = "syncing"
    /\ Await("tick", "pin")
    /\ UNCHANGED <<shared, timer, moves>>

PinMoves ==
    /\ moves.pins < MaxPinMoves
    /\ pinned' \in Pins \ {pinned}
    /\ moves' = [moves EXCEPT !.pins = @ + 1]
    /\ UNCHANGED <<clone, staged, dest, synced, torn, run, periodicStatus, timer, syncing>>

-----------------------------------------------------------------------------
RunProceeds(r) ==
    \/ PinRead(r)
    \/ MetadataCompared(r)
    \/ CloneOrUpdate(r)
    \/ SkillsStaged(r)
    \/ SkillsCopied(r)
    \/ MetadataUpdated(r)

DeskNext ==
    \/ StartupSync
    \/ \E r \in Runs : RunProceeds(r) \/ DeskStepFails(r)
    \/ Start
    \/ Stop
    \/ TickFires
    \/ PinMoves

DeskSpec == DeskInit /\ [][DeskNext]_deskVars

(* The interval timer fires and file and git commands end. *)
DeskFairness ==
    /\ \A r \in Runs : WF_deskVars(RunProceeds(r))
    /\ WF_deskVars(TickFires)

DeskTypeOK ==
    /\ pinned \in Pins
    /\ {clone, synced, staged, dest} \subseteq Pins \cup {NoPin}
    /\ run \in [Runs -> [step : {"new", "none", "pin", "metadata", "clone", "stage", "copy", "update"},
                         target : Pins \cup {NoPin}]]
    /\ periodicStatus \in {"idle", "syncing", "synced", "error"}
    /\ {timer, syncing, torn} \subseteq BOOLEAN
    /\ moves \in [pins : Nat, faults : Nat, periodic : Nat]

(* While the timer runs, a pin that stays where it is ends up installed: its  *)
(* version is the one copied last into destDir, and the metadata names it    *)
(* ("Pin changes propagate without user action (T047, verified)",            *)
(* kitty-specs/003-skill-mcp-distribution/tasks/WP08-desktop-git-sync.md:180). *)
PinsPropagate == <>[]timer => <>[](synced = pinned /\ dest = pinned)

Overlap == \A r \in Runs : run[r].step \notin {"none", "new"}

(* So it does, however often the pin moves and runs fail or the timer is      *)
(* stopped, as long as no tick meets the startup sync in the clone they share *)
(* and no run fails between its copy into destDir and its metadata (which a   *)
(* pin moved back would take for the version it names; syncLifecycle.ts:35-41, *)
(* :72-86).                                                                  *)
PinsPropagateAlone ==
    []~Overlap /\ []~torn /\ <>[]timer => <>[](synced = pinned /\ dest = pinned)
=============================================================================
