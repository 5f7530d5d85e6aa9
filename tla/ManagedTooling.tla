--------------------------- MODULE ManagedTooling ---------------------------
(***************************************************************************)
(* Managed tooling: the sidecar polls the distribution manifest, and a      *)
(* change syncs the skills, reconciles the managed hooks and MCP servers    *)
(* into the two settings files of Claude Code and writes the tenant config. *)
(*                                                                         *)
(* A poll runs from its fetch to the end of the change handler; a tick that  *)
(* finds one running does nothing, so pc is where the only poll is suspended *)
(* and `polling` is pc \notin {"down", "idle"}.  The user edits the settings *)
(* files and the operator publishes manifests at any time; any I/O may fail; *)
(* the sidecar may stop between any two steps and keeps only what is on disk. *)
(*                                                                         *)
(* An id stands for an event and matcher of the hooks, or a key of the MCP   *)
(* servers.  A settings file is a function from ids to the entry's content.  *)
(***************************************************************************)
EXTENDS Naturals

CONSTANTS
    Manifests,   \* the manifests the operator publishes
    Malformed,   \* what it may serve that is no valid manifest
    Bundles,     \* Bundles[m]: the bundles of manifest m
    Versions,    \* Versions[m]: the versions of these bundles, or of the configured one
    Content,     \* Content[m][t][i]: what m wants at id i of target t
    Ids,         \* the places of an entry in a settings file
    Managed,     \* ids whose matcher or key has the joyus: prefix
    MatcherOf,   \* MatcherOf[i]: the id without its event
    Values,      \* contents of entries that manifests have
    None, Mine,  \* contents no manifest has: no entry, and the user's own
    Absent,      \* a file that does not exist
    Corrupt,     \* a file that is not a JSON object
    NotUpdated,  \* a settings update with changed: false
    NoManifest,  \* no manifest yet
    InitialFiles,  \* settings files of a machine without managed tooling
    MaxPublishes, MaxEdits, MaxCrashes  \* bounds

Targets == {"global", "project"}

Entries == Values \cup {None, Mine}

ASSUME ManifestsAssumption ==
    /\ Bundles \in [Manifests -> SUBSET STRING]
    /\ Versions \in [Manifests -> SUBSET STRING]
    /\ Content \in [Manifests -> [Targets -> [Ids -> Values \cup {None}]]]
    /\ NoManifest \notin Manifests
    /\ Malformed \cap (Manifests \cup {NoManifest}) = {}
    /\ None # Mine /\ {None, Mine} \cap Values = {}

ASSUME IdsAssumption ==
    /\ Managed \subseteq Ids
    /\ \A i, j \in Ids : MatcherOf[i] = MatcherOf[j] => (i \in Managed <=> j \in Managed)

ASSUME BoundsAssumption == MaxPublishes \in Nat /\ MaxEdits \in Nat /\ MaxCrashes \in Nat

Readable == [Ids -> Entries]
Files == Readable \cup {Absent, Corrupt}
EmptyFile == [i \in Ids |-> None]

ASSUME FilesAssumption ==
    /\ Absent # Corrupt
    /\ {Absent, Corrupt, NotUpdated} \cap Readable = {}
    /\ NotUpdated \notin {Absent, Corrupt}
    /\ InitialFiles \subseteq Readable \cup {Absent, Corrupt}
    /\ \A file \in InitialFiles \cap Readable, i \in Managed : file[i] = None

(* What the endpoint serves: a text whose bundles, hooks and servers are all  *)
(* well formed, or one in which something is not.                            *)
Servable == Manifests \cup Malformed

VARIABLES
    published,     \* what the endpoint serves
    pc,            \* where the poll is suspended
    target,        \* the settings file being reconciled
    lastHash,      \* state.lastVersionHash of the poller
    lastManifest,  \* the handler's lastManifest
    handled,       \* the manifest the handler was last called with
    settings,      \* the two settings files
    registry,      \* keys of the entries in .joyus-managed.json
    tenantConfig,  \* the manifest the tenant config was last written from
    merged,        \* nextSettings
    backup,        \* the content createSettingsBackup copied
    update,        \* globalUpdate and projectUpdate: NotUpdated, or the backup
    outcome,       \* how the last run of the handler reconciled
    before,        \* history: the settings when the last reconcile began
    disturbed,     \* history: the user edited the settings since
    torn,          \* history: a rollback of that reconcile failed
    lapsed,        \* history: a reconcile was torn or cut short since the last success
    bounds         \* how often the operator, the user and the OS have acted

pollVars == <<lastHash, lastManifest, handled>>
localVars == <<target, merged, backup, update>>
diskVars == <<settings, registry, tenantConfig>>
historyVars == <<before, disturbed, torn, lapsed>>
vars == <<published, pc, pollVars, localVars, diskVars, outcome, historyVars, bounds>>

Init ==
    /\ published \in Servable
    /\ pc = "idle"
    /\ target = "global"
    /\ lastHash = NoManifest /\ lastManifest = NoManifest /\ handled = NoManifest
    /\ settings \in [Targets -> InitialFiles]
    /\ registry = {}
    /\ tenantConfig = NoManifest
    /\ merged = EmptyFile
    /\ backup = Absent
    /\ update = [t \in Targets |-> NotUpdated]
    /\ outcome = "none"
    /\ before = settings
    /\ disturbed = FALSE /\ torn = FALSE /\ lapsed = FALSE
    /\ bounds = [publishes |-> 0, edits |-> 0, crashes |-> 0]

-----------------------------------------------------------------------------
(* What the manifests say.                                                   *)

IdsIn(m) == {i \in Ids : \E t \in Targets : Content[m][t][i] # None}

Revokes(m) ==
    \/ Bundles[m] = {}
    \/ /\ lastManifest # NoManifest
       /\ \/ ~(Bundles[lastManifest] \subseteq Bundles[m])
          \/ ~(IdsIn(lastManifest) \subseteq IdsIn(m))

(* The version to sync the skills to: that of the manifest, or of the one    *)
(* before if it names none; several versions are ambiguous.                  *)
VersionKnown(m) ==
    LET last == IF Versions[m] = {} /\ lastManifest # NoManifest THEN lastManifest ELSE m
    IN  \E v \in Versions[last] : Versions[last] = {v}

(* Mutated form of Keys: those of the manifest handled before. *)
LastKeys(m) == IF lastManifest = NoManifest THEN {} ELSE IdsIn(lastManifest)

(* The registry's keys do not name the target: one entry for both files. *)
Keys(m) == IdsIn(m)

-----------------------------------------------------------------------------
(* The poller.                                                               *)

Poll ==
    /\ pc = "idle"
    /\ pc' = "fetching"
    /\ UNCHANGED <<published, pollVars, localVars, diskVars, outcome, historyVars, bounds>>

(* Mutated form of PollFails: `polling` stays true. *)
PollFailsStuck ==
    /\ pc = "fetching"
    /\ pc' = "failed"
    /\ UNCHANGED <<published, pollVars, localVars, diskVars, outcome, historyVars, bounds>>

(* No answer, or an error status. *)
PollFails ==
    /\ pc = "fetching"
    /\ pc' = "idle"
    /\ UNCHANGED <<published, pollVars, localVars, diskVars, outcome, historyVars, bounds>>

PollUnchanged ==
    /\ pc = "fetching"
    /\ published = lastHash
    /\ pc' = "idle"
    /\ UNCHANGED <<published, pollVars, localVars, diskVars, outcome, historyVars, bounds>>

(* A text that is not what was handled last is parsed and validated; one that *)
(* is refused leaves the hash as it was.                                     *)
ManifestRefused ==
    /\ pc = "fetching"
    /\ published \in Malformed
    /\ pc' = "idle"
    /\ UNCHANGED <<published, pollVars, localVars, diskVars, outcome, historyVars, bounds>>

-----------------------------------------------------------------------------
(* The change handler: sync, reconcile, write the tenant config.             *)

StartReconcile ==
    /\ pc' = "read"
    /\ target' = "global"
    /\ update' = [t \in Targets |-> NotUpdated]
    /\ outcome' = "none"
    /\ before' = settings
    /\ disturbed' = FALSE /\ torn' = FALSE
    /\ UNCHANGED <<merged, backup, lapsed>>

SkipReconcile ==
    /\ pc' = "config"
    /\ outcome' = "skipped"
    /\ UNCHANGED <<localVars, historyVars>>

ChangeDetected ==
    /\ pc = "fetching"
    /\ published # lastHash /\ published \in Manifests
    /\ handled' = published
    /\ \/ /\ VersionKnown(published)
          /\ pc' = "syncing"
          /\ outcome' = "none"
          /\ UNCHANGED <<localVars, historyVars>>
       \/ ~VersionKnown(published) /\ Revokes(published) /\ StartReconcile
       \/ ~VersionKnown(published) /\ ~Revokes(published) /\ SkipReconcile
    /\ UNCHANGED <<published, lastHash, lastManifest, diskVars, bounds>>

(* syncSkills ends; "failed" stands for the statuses locked and error and    *)
(* for an exception.                                                         *)
SyncSettles(status) ==
    /\ pc = "syncing"
    /\ \/ status = "success" /\ StartReconcile
       \/ status = "offline" /\ Revokes(handled) /\ StartReconcile
       \/ status = "offline" /\ ~Revokes(handled) /\ SkipReconcile
       \/ status = "failed" /\ SkipReconcile
    /\ UNCHANGED <<published, pollVars, diskVars, bounds>>

(* Whether the write succeeds or throws, the manifest counts as handled: the *)
(* handler never throws, so the poller stores the hash.                      *)
ConfigWritten ==
    /\ pc = "config"
    /\ tenantConfig' \in {tenantConfig, handled}
    /\ lastManifest' = handled
    /\ lastHash' = handled
    /\ pc' = "idle"
    /\ target' = "global"
    /\ merged' = EmptyFile
    /\ backup' = Absent
    /\ update' = [t \in Targets |-> NotUpdated]
    /\ UNCHANGED <<published, handled, settings, registry, outcome, historyVars, bounds>>

-----------------------------------------------------------------------------
(* reconcile: each settings file is read, merged, backed up and replaced.    *)

(* readSettingsFile takes a file it cannot read for an empty one. *)
ReadAs(file) == IF file \in {Absent, Corrupt} THEN EmptyFile ELSE file

(* Mutated form of Stale: whatever the manifest does not name. *)
StaleUnnamed(m, t, i) == ~\E j \in Ids : Content[m][t][j] # None /\ MatcherOf[j] = MatcherOf[i]

(* removeStaleHooks, removeStaleMcpServers: the prefix makes an entry        *)
(* managed, and a hook is kept when its matcher is active in any event.      *)
Stale(m, t, i) ==
    /\ i \in Managed
    /\ ~\E j \in Ids : Content[m][t][j] # None /\ MatcherOf[j] = MatcherOf[i]

Merge(m, t, file) ==
    [i \in Ids |->
        IF Content[m][t][i] # None THEN Content[m][t][i]
        ELSE IF Stale(m, t, i) THEN None ELSE file[i]]

NextTarget ==
    IF target = "global" THEN pc' = "read" /\ target' = "project"
    ELSE pc' = "registry" /\ UNCHANGED target

(* Mutated form of Undo: the global settings are forgotten. *)
UndoProject == pc' = "undo" /\ target' = "project"

Undo == pc' = "undo" /\ target' = "global"

FileRead ==
    /\ pc = "read"
    /\ LET current == ReadAs(settings[target])
           next == Merge(handled, target, current)
       IN  \/ next = current /\ NextTarget /\ UNCHANGED merged
           \/ next # current /\ merged' = next /\ pc' = "backup" /\ UNCHANGED target
    /\ UNCHANGED <<published, pollVars, backup, update, diskVars, outcome, historyVars, bounds>>

BackedUp ==
    /\ pc = "backup"
    /\ \/ pc' = "write" /\ backup' = settings[target] /\ UNCHANGED target
       \/ Undo /\ UNCHANGED backup
    /\ UNCHANGED <<published, pollVars, merged, update, diskVars, outcome, historyVars, bounds>>

(* The file is replaced by a rename, or the write throws. *)
FileWritten ==
    /\ pc = "write"
    /\ \/ /\ settings' = [settings EXCEPT ![target] = merged]
          /\ update' = [update EXCEPT ![target] = backup]
          /\ NextTarget
       \/ Undo /\ UNCHANGED <<settings, update>>
    /\ UNCHANGED <<published, pollVars, merged, backup, registry, tenantConfig, outcome,
                   historyVars, bounds>>

RegistryWritten ==
    /\ pc = "registry"
    /\ \/ /\ registry' = Keys(handled)
          /\ outcome' = "success"
          /\ pc' = "config"
          /\ lapsed' = FALSE
          /\ UNCHANGED target
       \/ Undo /\ UNCHANGED <<registry, outcome, lapsed>>
    /\ UNCHANGED <<published, pollVars, merged, backup, update, settings, tenantConfig,
                   before, disturbed, torn, bounds>>

(* Mutated form of Restored: the flag `changed` is not looked at. *)
RestoredAlways(file, saved) == saved

(* rollbackReconciledSettings; without a backup the new file is removed. *)
Restored(file, saved) == IF saved = NotUpdated THEN file ELSE saved

RolledBack ==
    /\ pc = "undo"
    /\ \/ /\ settings' = [settings EXCEPT ![target] = Restored(@, update[target])]
          /\ UNCHANGED <<torn, lapsed>>
       \/ /\ update[target] # NotUpdated
          /\ torn' = TRUE /\ lapsed' = TRUE
          /\ UNCHANGED settings
    /\ \/ target = "global" /\ target' = "project" /\ UNCHANGED <<pc, outcome>>
       \/ /\ target = "project"
          /\ pc' = "config"
          /\ outcome' = "rolled_back"
          /\ UNCHANGED target
    /\ UNCHANGED <<published, pollVars, merged, backup, update, registry, tenantConfig,
                   before, disturbed, bounds>>

-----------------------------------------------------------------------------
(* The operator, the user and the operating system.                          *)

Publish(m) ==
    /\ bounds.publishes < MaxPublishes
    /\ m # published
    /\ published' = m
    /\ bounds' = [bounds EXCEPT !.publishes = @ + 1]
    /\ UNCHANGED <<pc, pollVars, localVars, diskVars, outcome, historyVars>>

(* The user changes an entry of their own, removes the file or breaks it. *)
UserFiles(file) ==
    {Absent, Corrupt} \cup
    {[ReadAs(file) EXCEPT ![i] = entry] : i \in Ids \ Managed, entry \in {None, Mine}}

UserEdits(t) ==
    /\ bounds.edits < MaxEdits
    /\ \E file \in UserFiles(settings[t]) :
          /\ file # settings[t]
          /\ settings' = [settings EXCEPT ![t] = file]
    /\ disturbed' = TRUE
    /\ bounds' = [bounds EXCEPT !.edits = @ + 1]
    /\ UNCHANGED <<published, pc, pollVars, localVars, registry, tenantConfig, outcome,
                   before, torn, lapsed>>

Reconciling == pc \in {"read", "backup", "write", "registry", "undo"}

Crash ==
    /\ pc # "down"
    /\ bounds.crashes < MaxCrashes
    /\ pc' = "down"
    /\ target' = "global"
    /\ lastHash' = NoManifest /\ lastManifest' = NoManifest /\ handled' = NoManifest
    /\ merged' = EmptyFile
    /\ backup' = Absent
    /\ update' = [t \in Targets |-> NotUpdated]
    /\ outcome' = "none"
    /\ lapsed' = (lapsed \/ Reconciling)
    /\ bounds' = [bounds EXCEPT !.crashes = @ + 1]
    /\ UNCHANGED <<published, diskVars, before, disturbed, torn>>

Restart ==
    /\ pc = "down"
    /\ pc' = "idle"
    /\ UNCHANGED <<published, pollVars, localVars, diskVars, outcome, historyVars, bounds>>

-----------------------------------------------------------------------------
PollAnswered == PollUnchanged \/ ManifestRefused \/ ChangeDetected

SyncEnds == \E status \in {"success", "offline", "failed"} : SyncSettles(status)

ReconcileStep == FileRead \/ BackedUp \/ FileWritten \/ RegistryWritten \/ RolledBack

HandlerStep == SyncEnds \/ ReconcileStep \/ ConfigWritten

Environment ==
    \/ \E m \in Servable : Publish(m)
    \/ \E t \in Targets : UserEdits(t)
    \/ Crash

Next == Poll \/ PollFails \/ PollAnswered \/ HandlerStep \/ Restart \/ Environment

Spec == Init /\ [][Next]_vars

(* The interval timer keeps ticking, the handler's I/O ends one way or       *)
(* another, a stopped sidecar is started again, and the endpoint is          *)
(* reachable now and then (FR-020).                                          *)
FairSpec ==
    /\ Spec
    /\ WF_vars(Poll)
    /\ SF_vars(PollAnswered)
    /\ WF_vars(HandlerStep)
    /\ WF_vars(Restart)

-----------------------------------------------------------------------------
TypeOK ==
    /\ published \in Servable
    /\ pc \in {"down", "idle", "fetching", "syncing", "read", "backup", "write",
               "registry", "undo", "config"}
    /\ target \in Targets
    /\ lastHash \in Manifests \cup {NoManifest}
    /\ lastManifest \in Manifests \cup {NoManifest}
    /\ handled \in Manifests \cup {NoManifest}
    /\ settings \in [Targets -> Files]
    /\ registry \subseteq Ids
    /\ tenantConfig \in Manifests \cup {NoManifest}
    /\ merged \in Readable
    /\ backup \in Files
    /\ update \in [Targets -> Files \cup {NotUpdated}]
    /\ outcome \in {"none", "skipped", "success", "rolled_back"}
    /\ before \in [Targets -> Files]
    /\ {disturbed, torn, lapsed} \subseteq BOOLEAN
    /\ bounds \in [publishes : 0 .. MaxPublishes, edits : 0 .. MaxEdits, crashes : 0 .. MaxCrashes]

(* A reconcile that reports rolled_back, with no rollback step failing and   *)
(* the user keeping away, has left both settings files as it found them,     *)
(* also those it created (spec.md FR-012, reconciler.ts:573-583).            *)
RollbackRestores ==
    outcome = "rolled_back" /\ ~disturbed /\ ~torn => settings = before

(* After a success the registry lists the manifest's entries (FR-007) and    *)
(* every file has those that are for it (FR-001); an entry without the       *)
(* prefix that the manifest does not name is as it was, and one with the     *)
(* prefix is gone unless its matcher is active in the file.  Two promises    *)
(* are not in it, for the code breaks them: a user's entry whose matcher the *)
(* manifest claims is replaced (reconciler.ts:122-138, against FR-019), and  *)
(* the group that a moved hook leaves under its old event stays, as does a   *)
(* dropped entry without the prefix (reconciler.ts:156, against FR-017).     *)
SuccessInstalls ==
    outcome = "success" /\ ~disturbed =>
        /\ registry = Keys(handled)
        /\ \A t \in Targets, i \in Ids :
              LET wanted == Content[handled][t][i]
                  found == ReadAs(settings[t])[i]
              IN  /\ wanted # None => found = wanted
                  /\ wanted = None /\ i \notin Managed => found = ReadAs(before[t])[i]
                  /\ i \in Managed /\ found # None =>
                        \E j \in Ids : /\ Content[handled][t][j] # None
                                       /\ MatcherOf[j] = MatcherOf[i]

(* Outside reconcile the registry knows the matcher of every managed entry   *)
(* in the settings, whatever was published, rolled back or edited, unless a   *)
(* reconcile was cut short or torn since the last success (FR-007: "the      *)
(* programmatic source of truth for ownership").                             *)
RegistryOwns ==
    ~Reconciling /\ ~lapsed =>
        \A t \in Targets, i \in Managed :
            ReadAs(settings[t])[i] # None =>
                \E j \in registry : MatcherOf[j] = MatcherOf[i]

(* A published change is handled, across failed polls and restarts, unless   *)
(* another one replaces it first (FR-010, FR-020).                           *)
ChangesAreHandled ==
    \A m \in Manifests : (published = m) ~> (lastHash = m \/ published # m)

Revoked(m) ==
    \A t \in Targets, i \in Managed :
        ReadAs(settings[t])[i] # None =>
            \E j \in Ids, s \in Targets : Content[m][s][j] # None /\ MatcherOf[j] = MatcherOf[i]

(* "When the control plane revokes a bundle, all associated managed entries  *)
(* are removed from the user's machine within the config-check poll interval *)
(* (default 5 minutes) plus one sync cycle" (kitty-specs/                    *)
(* 008-managed-tooling-distribution/spec.md:180).                            *)
RevokedEntriesGo ==
    \A m \in Manifests : (published = m) ~> (Revoked(m) \/ published # m)
=============================================================================
