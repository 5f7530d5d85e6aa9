----------------------------- MODULE SkillSync -----------------------------
(***************************************************************************)
(* syncSkills: installing a pinned version of the skills, by the command     *)
(* line tool and by the sidecar, which may run it at the same time.          *)
(*                                                                         *)
(* A sync takes the lock file, reads the metadata, brings the git cache to    *)
(* the version, compares, backs up what the user modified, copies file by     *)
(* file, writes the metadata and releases the lock.  A process that does not  *)
(* get the lock in time rewrites the metadata all the same.  Any I/O may      *)
(* fail, a process may be stopped between two steps, and the user edits the   *)
(* installed files.  The repository's URL does not change.                   *)
(***************************************************************************)
EXTENDS Naturals

CONSTANTS
    Syncers,     \* processes that call syncSkills
    Tags,        \* versions in the repository
    Skills,      \* files of the skills
    Tree,        \* Tree[v][f]: content of f in version v
    Texts,       \* contents files of the repository have
    NoText,      \* no such file
    UserText,    \* what the user makes of a file
    NoTag,       \* no version
    MaxSyncs, MaxUserEdits, MaxStops  \* bounds

ASSUME TreeAssumption ==
    /\ Tree \in [Tags -> [Skills -> Texts \cup {NoText}]]
    /\ NoText # UserText /\ {NoText, UserText} \cap Texts = {}
    /\ NoTag \notin Tags

ASSUME SyncBounds == MaxSyncs \in Nat /\ MaxUserEdits \in Nat /\ MaxStops \in Nat

NoTree == [f \in Skills |-> NoText]

(* The metadata file: the version and the hashes of the files it manages.    *)
Metadata ==
    [status : {"success", "offline", "error", "locked"},
     version : Tags \cup {NoTag},
     managed : [Skills -> Texts \cup {NoText}]]

(* What a missing or unreadable metadata file stands for. *)
NoMetadata == [status |-> "success", version |-> NoTag, managed |-> NoTree]

VARIABLES
    lockFile,   \* .sync.lock exists
    gitCache,   \* the version checked out in the cache, or NoTag without one
    metadata,   \* .sync-metadata.json
    skills,     \* the installed files
    at,         \* where each process is suspended
    wanted,     \* targetVersion
    current,    \* currentMetadata
    modified,   \* modifiedFiles
    todo,       \* files yet to be copied or removed
    settled,    \* how the process's last sync ended
    late,       \* history: files the user edited since the process compared them
    ops         \* how often processes were started, cut short (stopped, or their
                \* lock file could not be removed) and files edited

diskState == <<lockFile, gitCache, metadata, skills>>
localState == <<wanted, current, modified, todo>>
syncVars == <<diskState, at, localState, settled, late, ops>>

SyncInit ==
    /\ lockFile = FALSE
    /\ gitCache = NoTag
    /\ metadata = NoMetadata
    /\ skills = NoTree
    /\ at = [p \in Syncers |-> "idle"]
    /\ wanted = [p \in Syncers |-> NoTag]
    /\ current = [p \in Syncers |-> NoMetadata]
    /\ modified = [p \in Syncers |-> {}]
    /\ todo = [p \in Syncers |-> {}]
    /\ settled = [p \in Syncers |-> "none"]
    /\ late = [p \in Syncers |-> {}]
    /\ ops = [syncs |-> 0, edits |-> 0, stops |-> 0]

Goes(p, place) == at' = [at EXCEPT ![p] = place]

(* Places inside the lock, and those where the metadata is being rewritten.  *)
WritePlaces == {"writing", "noop", "offline", "failing"}
LockPlaces == {"reading", "git", "comparing", "saving", "copying", "releasing"} \cup WritePlaces
Holds(p) == at[p] \in LockPlaces

-----------------------------------------------------------------------------
(* The lock.                                                                 *)

SyncStarts(p, v) ==
    /\ at[p] = "idle"
    /\ ops.syncs < MaxSyncs
    /\ ops' = [ops EXCEPT !.syncs = @ + 1]
    /\ wanted' = [wanted EXCEPT ![p] = v]
    /\ settled' = [settled EXCEPT ![p] = "none"]
    /\ Goes(p, "locking")
    /\ UNCHANGED <<diskState, current, modified, todo, late>>

(* Mutated form of LockTaken: the file is opened without the flag wx. *)
LockTakenAnyway(p) ==
    /\ at[p] = "locking"
    /\ lockFile' = TRUE
    /\ Goes(p, "reading")
    /\ UNCHANGED <<gitCache, metadata, skills, localState, settled, late, ops>>

LockTaken(p) ==
    /\ at[p] = "locking" /\ ~lockFile
    /\ lockFile' = TRUE
    /\ Goes(p, "reading")
    /\ UNCHANGED <<gitCache, metadata, skills, localState, settled, late, ops>>

(* A reader finds the metadata, or nothing it can parse while another        *)
(* process is rewriting the file.                                            *)
Readings(p) ==
    {metadata} \cup
    {NoMetadata : q \in {r \in Syncers \ {p} : at[r] \in WritePlaces \cup {"yielding"}}}

(* The retries are used up: the metadata is read, to be written back with    *)
(* status locked.                                                            *)
LockMissed(p) ==
    /\ at[p] = "locking" /\ lockFile
    /\ \E m \in Readings(p) : current' = [current EXCEPT ![p] = m]
    /\ Goes(p, "yielding")
    /\ UNCHANGED <<diskState, wanted, modified, todo, settled, late, ops>>

LockedReported(p) ==
    /\ at[p] = "yielding"
    /\ metadata' \in {metadata, [current[p] EXCEPT !.status = "locked"]}
    /\ settled' = [settled EXCEPT ![p] = "locked"]
    /\ Goes(p, "idle")
    /\ UNCHANGED <<lockFile, gitCache, skills, localState, late, ops>>

MetadataRead(p) ==
    /\ at[p] = "reading"
    /\ \E m \in Readings(p) : current' = [current EXCEPT ![p] = m]
    /\ Goes(p, "git")
    /\ UNCHANGED <<diskState, wanted, modified, todo, settled, late, ops>>

-----------------------------------------------------------------------------
(* The git cache.                                                            *)

CacheFits(p) == gitCache # NoTag /\ current[p].version = wanted[p]

(* Nothing to do, a clone, or a fetch and a checkout. *)
GitSucceeds(p) ==
    /\ at[p] = "git"
    /\ gitCache' = IF CacheFits(p) THEN gitCache ELSE wanted[p]
    /\ Goes(p, "comparing")
    /\ UNCHANGED <<lockFile, metadata, skills, localState, settled, late, ops>>

GitFails(p) ==
    /\ at[p] = "git" /\ ~CacheFits(p)
    /\ Goes(p, "offline") \/ Goes(p, "failing")
    /\ UNCHANGED <<diskState, localState, settled, late, ops>>

-----------------------------------------------------------------------------
(* Comparing, backing up and copying.                                        *)

Managed(p) == {f \in Skills : current[p].managed[f] # NoText}
InTree(v) == {f \in Skills : Tree[v][f] # NoText}

(* Mutated form of ModifiedFiles: whatever differs from the new version. *)
DiffersFromNew(p) == {f \in Managed(p) \cap InTree(gitCache) : skills[f] = Tree[gitCache][f]}

ModifiedFiles(p) == {f \in Managed(p) : skills[f] \notin {NoText, current[p].managed[f]}}

PerfectlySynced(p) ==
    /\ current[p].version = wanted[p]
    /\ ModifiedFiles(p) = {}
    /\ \A f \in InTree(gitCache) : skills[f] # NoText
    /\ current[p].managed = Tree[gitCache]

Compared(p) ==
    /\ at[p] = "comparing"
    /\ \/ PerfectlySynced(p) /\ Goes(p, "noop") /\ UNCHANGED <<modified, todo>>
       \/ /\ ~PerfectlySynced(p)
          /\ modified' = [modified EXCEPT ![p] = ModifiedFiles(p)]
          /\ todo' = [todo EXCEPT ![p] = Managed(p) \cup InTree(gitCache)]
          /\ Goes(p, "saving")
    /\ late' = [late EXCEPT ![p] = {}]
    /\ UNCHANGED <<diskState, wanted, current, settled, ops>>

(* createBackup: the copy fails if a modified file is gone by now. *)
Saved(p) ==
    /\ at[p] = "saving"
    /\ \A f \in modified[p] : skills[f] # NoText
    /\ Goes(p, "copying")
    /\ UNCHANGED <<diskState, localState, settled, late, ops>>

(* A file of the version is copied; files it no longer has are removed after *)
(* that, and a failure to remove one is ignored.                             *)
FileInstalled(p, f) ==
    /\ at[p] = "copying" /\ f \in todo[p]
    /\ f \in InTree(gitCache) \/ todo[p] \cap InTree(gitCache) = {}
    /\ \/ skills' = [skills EXCEPT ![f] = Tree[gitCache][f]]
       \/ f \notin InTree(gitCache) /\ UNCHANGED skills
    /\ todo' = [todo EXCEPT ![p] = @ \ {f}]
    /\ UNCHANGED <<lockFile, gitCache, metadata, at, wanted, current, modified, settled, late, ops>>

AllInstalled(p) ==
    /\ at[p] = "copying" /\ todo[p] = {}
    /\ Goes(p, "writing")
    /\ UNCHANGED <<diskState, localState, settled, late, ops>>

(* The catch block is entered from anywhere between the lock and the end. *)
StepFails(p) ==
    /\ at[p] \in {"comparing", "saving", "copying", "writing", "noop", "offline"}
    /\ Goes(p, "failing")
    /\ UNCHANGED <<diskState, localState, settled, late, ops>>

-----------------------------------------------------------------------------
(* Reporting and releasing.                                                  *)

SuccessWritten(p) ==
    /\ at[p] \in {"writing", "noop"}
    /\ metadata' = [status |-> "success", version |-> wanted[p], managed |-> Tree[gitCache]]
    /\ settled' = [settled EXCEPT ![p] = "success"]
    /\ Goes(p, "releasing")
    /\ UNCHANGED <<lockFile, gitCache, skills, localState, late, ops>>

OfflineWritten(p) ==
    /\ at[p] = "offline"
    /\ metadata' = [current[p] EXCEPT !.status = "offline"]
    /\ settled' = [settled EXCEPT ![p] = "offline"]
    /\ Goes(p, "releasing")
    /\ UNCHANGED <<lockFile, gitCache, skills, localState, late, ops>>

ErrorWritten(p) ==
    /\ at[p] = "failing"
    /\ metadata' \in {metadata, [current[p] EXCEPT !.status = "error"]}
    /\ settled' = [settled EXCEPT ![p] = "error"]
    /\ Goes(p, "releasing")
    /\ UNCHANGED <<lockFile, gitCache, skills, localState, late, ops>>

(* Mutated form of Released: not in a finally block, so a sync that failed    *)
(* ends without it.                                                          *)
ReleasedIfOk(p) ==
    /\ at[p] = "releasing"
    /\ lockFile' = (settled[p] = "error")
    /\ Goes(p, "idle")
    /\ UNCHANGED <<gitCache, metadata, skills, localState, settled, late, ops>>

Released(p) ==
    /\ at[p] = "releasing"
    /\ lockFile' = FALSE
    /\ Goes(p, "idle")
    /\ UNCHANGED <<gitCache, metadata, skills, localState, settled, late, ops>>

(* The file cannot be removed: release throws, and the file stays. *)
ReleaseFails(p) ==
    /\ at[p] = "releasing" /\ ops.stops < MaxStops
    /\ ops' = [ops EXCEPT !.stops = @ + 1]
    /\ settled' = [settled EXCEPT ![p] = "error"]
    /\ Goes(p, "idle")
    /\ UNCHANGED <<diskState, localState, late>>

(* A process is stopped: its lock file stays, and metadata it was writing    *)
(* may be left unreadable.                                                   *)
SyncStopped(p) ==
    /\ at[p] # "idle" /\ ops.stops < MaxStops
    /\ ops' = [ops EXCEPT !.stops = @ + 1]
    /\ \/ UNCHANGED metadata
       \/ at[p] \in WritePlaces \cup {"yielding"} /\ metadata' = NoMetadata
    /\ settled' = [settled EXCEPT ![p] = "none"]
    /\ Goes(p, "idle")
    /\ UNCHANGED <<lockFile, gitCache, skills, localState, late>>

UserModifies(f) ==
    /\ ops.edits < MaxUserEdits
    /\ ops' = [ops EXCEPT !.edits = @ + 1]
    /\ \E text \in {UserText, NoText} : text # skills[f] /\ skills' = [skills EXCEPT ![f] = text]
    /\ late' = [p \in Syncers |-> late[p] \cup {f}]
    /\ UNCHANGED <<lockFile, gitCache, metadata, at, localState, settled>>

-----------------------------------------------------------------------------
SyncProceeds(p) ==
    \/ LockTaken(p)
    \/ LockMissed(p)
    \/ LockedReported(p)
    \/ MetadataRead(p)
    \/ GitSucceeds(p)
    \/ GitFails(p)
    \/ Compared(p)
    \/ Saved(p)
    \/ \E f \in Skills : FileInstalled(p, f)
    \/ AllInstalled(p)
    \/ StepFails(p)
    \/ SuccessWritten(p)
    \/ OfflineWritten(p)
    \/ ErrorWritten(p)
    \/ Released(p)
    \/ ReleaseFails(p)

SyncNext ==
    \/ \E p \in Syncers :
        \/ \E v \in Tags : SyncStarts(p, v)
        \/ SyncProceeds(p)
        \/ SyncStopped(p)
    \/ \E f \in Skills : UserModifies(f)

SyncSpec == SyncInit /\ [][SyncNext]_syncVars

-----------------------------------------------------------------------------
SyncTypeOK ==
    /\ lockFile \in BOOLEAN
    /\ gitCache \in Tags \cup {NoTag}
    /\ metadata \in Metadata
    /\ skills \in [Skills -> Texts \cup {NoText, UserText}]
    /\ at \in [Syncers -> {"idle", "locking", "yielding"} \cup LockPlaces]
    /\ wanted \in [Syncers -> Tags \cup {NoTag}]
    /\ current \in [Syncers -> Metadata]
    /\ modified \in [Syncers -> SUBSET Skills]
    /\ todo \in [Syncers -> SUBSET Skills]
    /\ settled \in [Syncers -> {"none", "success", "offline", "error", "locked"}]
    /\ late \in [Syncers -> SUBSET Skills]
    /\ ops \in [syncs : Nat, edits : Nat, stops : Nat]

(* One process at a time works in the cache and the skills; what it is       *)
(* about to report as installed is all there, but for files the user changed *)
(* while it was copying (OQ-004 of 003/research.md; sync.ts:162, :439).      *)
InstalledAsOneVersion ==
    /\ \A p, q \in Syncers : Holds(p) /\ Holds(q) => p = q
    /\ \A p \in Syncers :
        at[p] = "writing" =>
            \A f \in InTree(gitCache) \ late[p] : skills[f] = Tree[gitCache][f]

(* What the user made of a file the metadata knew is overwritten only after  *)
(* it was put into the backup, unless made after the comparison              *)
(* (docs/developer-guides/skill-sync-setup.md:90, sync.ts:365-375, :418).    *)
EditsAreSaved ==
    [][\A p \in Syncers, f \in Skills :
         /\ at[p] = "copying" /\ f \in todo[p] /\ f \notin todo'[p]
         /\ skills[f] = UserText /\ skills'[f] # UserText
         => f \in modified[p] \cup late[p] \/ f \notin Managed(p)]_syncVars

(* A lock file that no process holds is left only by one that was stopped, or *)
(* could not remove it: no failure between the lock and the end leaves it, and *)
(* every later sync would end as locked then, since nothing reclaims the file  *)
(* (sync.ts:162-190, finally at :476).                                       *)
LockIsHeld == lockFile /\ (\A p \in Syncers : ~Holds(p)) => ops.stops > 0

(* "Rollback: Pinning to an older version (e.g., v1.0.0 after v1.1.0) should *)
(* work identically to a forward update" (kitty-specs/                       *)
(* 003-skill-mcp-distribution/tasks/WP04-version-pinning.md:175): a sync that *)
(* copies the files of a version copies those of the version asked for.      *)
CopiesWhatWasAsked == \A p \in Syncers : at[p] = "copying" => gitCache = wanted[p]
=============================================================================
