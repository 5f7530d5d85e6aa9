------------------------ MODULE ManagedToolingProofs ------------------------
(***************************************************************************)
(* Theorems about ManagedTooling, for all manifests, entries, settings files *)
(* and numbers of publications, edits and crashes.                           *)
(***************************************************************************)
EXTENDS ManagedTooling, TLAPS

-----------------------------------------------------------------------------
(* The inductive invariant, in parts.                                        *)

Merging == pc \in {"read", "backup", "write"}

(* The target has been merged, and nothing has failed yet. *)
Done(t) == pc = "registry" \/ (Merging /\ target = "project" /\ t = "global")

(* Every managed entry of the file has a matcher that m wants there. *)
Fits(file, m, t) ==
    \A i \in Managed :
        ReadAs(file)[i] # None =>
            \E j \in Ids : Content[m][t][j] # None /\ MatcherOf[j] = MatcherOf[i]

(* The registry has the matcher of every managed entry of the file. *)
Owns(file) ==
    \A i \in Managed :
        ReadAs(file)[i] # None =>
            \E j \in registry : MatcherOf[j] = MatcherOf[i]

(* SuccessInstalls, for the entries of one target that are not managed or    *)
(* that the manifest names; Fits is about the others.                        *)
Installed(file, old, m, t) ==
    \A i \in Ids :
        LET wanted == Content[m][t][i]
            found == ReadAs(file)[i]
        IN  /\ wanted # None => found = wanted
            /\ wanted = None /\ i \notin Managed => found = ReadAs(old)[i]

(* What a rollback gives the target. *)
Original(t) == IF update[t] = NotUpdated THEN settings[t] ELSE update[t]

Stage ==
    /\ Reconciling \/ pc \in {"syncing", "config"} \/ outcome = "success" => handled \in Manifests
    /\ outcome \in {"success", "rolled_back"} => ~Reconciling /\ pc # "syncing"
    /\ Merging => update[target] = NotUpdated
    /\ Merging /\ target = "global" => update["project"] = NotUpdated

(* Until the user interferes, each file or its backup is as it was found. *)
Journal ==
    ~disturbed =>
        /\ Reconciling => \A t \in Targets : Original(t) = before[t]
        /\ pc = "write" => backup = before[target]
        /\ pc = "undo" /\ target = "project" => torn \/ settings["global"] = before["global"]

Merged ==
    pc \in {"backup", "write"} =>
        /\ Fits(merged, handled, target)
        /\ ~disturbed => Installed(merged, before[target], handled, target)

Installs ==
    \A t \in Targets : Done(t) =>
        /\ Fits(settings[t], handled, t)
        /\ ~disturbed => Installed(settings[t], before[t], handled, t)

Owned ==
    ~lapsed =>
        /\ ~Reconciling => \A t \in Targets : Owns(settings[t])
        /\ Reconciling => \A t \in Targets : Owns(Original(t))
        /\ pc = "write" => Owns(backup)
        /\ pc = "undo" /\ target = "project" => Owns(settings["global"])

Progress == Stage /\ Journal /\ Merged /\ Installs /\ Owned

IInv == TypeOK /\ Progress /\ RollbackRestores /\ SuccessInstalls

-----------------------------------------------------------------------------
(* Lemmas about files.                                                       *)

(* readSettingsFile returns a settings object whatever it finds. *)
LEMMA ReadAsReadable ==
    ASSUME NEW file \in Files
    PROVE  /\ ReadAs(file) \in Readable
           /\ file \in Readable => ReadAs(file) = file
<1>1. EmptyFile \in Readable
  BY DEF EmptyFile, Readable, Entries
<1> QED
  BY <1>1, FilesAssumption DEF ReadAs, Files

(* A merge gives a settings object that has the manifest's entries, no stale *)
(* managed entry, and of the rest what has no prefix (mergeHooks,            *)
(* removeStaleHooks).                                                        *)
LEMMA MergeInstalls ==
    ASSUME NEW m \in Manifests, NEW t \in Targets, NEW old \in Files
    PROVE  LET next == Merge(m, t, ReadAs(old))
           IN  /\ next \in Readable
               /\ Fits(next, m, t)
               /\ Installed(next, old, m, t)
<1> DEFINE next == Merge(m, t, ReadAs(old))
<1>1. ReadAs(old) \in Readable
  BY ReadAsReadable
<1>2. Content[m][t] \in [Ids -> Values \cup {None}]
  BY ManifestsAssumption DEF Targets
<1>3. next \in Readable
  BY <1>1, <1>2 DEF Merge, Readable, Entries
<1>4. ReadAs(next) = next
  BY <1>3, ReadAsReadable DEF Files
<1>5. \A i \in Ids : next[i] = IF Content[m][t][i] # None THEN Content[m][t][i]
                               ELSE IF Stale(m, t, i) THEN None ELSE ReadAs(old)[i]
  BY DEF Merge
<1>6. Fits(next, m, t)
  <2> SUFFICES ASSUME NEW i \in Managed, next[i] # None
               PROVE  \E j \in Ids : Content[m][t][j] # None /\ MatcherOf[j] = MatcherOf[i]
    BY <1>4 DEF Fits
  <2>1. i \in Ids
    BY IdsAssumption
  <2> QED
    BY <2>1, <1>5 DEF Stale
<1>7. Installed(next, old, m, t)
  BY <1>4, <1>5 DEF Installed, Stale
<1> HIDE DEF next
<1> QED
  BY <1>3, <1>6, <1>7 DEF next

(* The user's edits leave managed entries alone or remove the whole file. *)
LEMMA EditsKeepManaged ==
    ASSUME NEW old \in Files, NEW file \in UserFiles(old)
    PROVE  /\ file \in Files
           /\ \A j \in Managed : ReadAs(file)[j] # None => ReadAs(file)[j] = ReadAs(old)[j]
<1>1. ReadAs(old) \in Readable
  BY ReadAsReadable
<1>2. CASE file \in {Absent, Corrupt}
  BY <1>2, IdsAssumption DEF ReadAs, EmptyFile, Files
<1>3. CASE file \notin {Absent, Corrupt}
  <2>0. PICK i \in Ids \ Managed, entry \in {None, Mine} : file = [ReadAs(old) EXCEPT ![i] = entry]
    BY <1>3 DEF UserFiles
  <2>1. file \in Readable
    BY <1>1, <2>0 DEF Readable, Entries
  <2>2. ReadAs(file) = file
    BY <2>1, ReadAsReadable DEF Files
  <2>3. \A j \in Managed : j \in Ids /\ j # i
    BY IdsAssumption
  <2> QED
    BY <1>1, <2>0, <2>1, <2>2, <2>3 DEF Readable, Files
<1> QED
  BY <1>2, <1>3

-----------------------------------------------------------------------------
(* The invariant holds at the start.                                         *)

LEMMA InitIInv == Init => IInv
<1> SUFFICES ASSUME Init PROVE IInv
  OBVIOUS
<1>1. settings \in [Targets -> Files]
  BY FilesAssumption DEF Init, Files
<1>2. TypeOK
  <2>1. EmptyFile \in Readable /\ Absent \in Files
    BY DEF EmptyFile, Readable, Entries, Files
  <2>2. registry \subseteq Ids
    BY DEF Init
  <2>3. update \in [Targets -> Files \cup {NotUpdated}]
    BY DEF Init
  <2>4. bounds \in [publishes : 0 .. MaxPublishes, edits : 0 .. MaxEdits, crashes : 0 .. MaxCrashes]
    BY BoundsAssumption DEF Init
  <2> QED
    BY <1>1, <2>1, <2>2, <2>3, <2>4 DEF Init, TypeOK, Targets
<1>3. ASSUME NEW t \in Targets PROVE Owns(settings[t])
  <2>1. settings[t] \in InitialFiles
    BY DEF Init
  <2>2. \A i \in Managed : ReadAs(settings[t])[i] = None
    BY <2>1, FilesAssumption, IdsAssumption DEF ReadAs, EmptyFile, Files
  <2> QED
    BY <2>2 DEF Owns
<1>4. Progress
  BY <1>3 DEF Init, Progress, Stage, Journal, Merged, Installs, Owned, Merging, Done, Reconciling
<1>5. RollbackRestores /\ SuccessInstalls
  BY DEF Init, RollbackRestores, SuccessInstalls
<1> QED
  BY <1>2, <1>4, <1>5 DEF IInv

-----------------------------------------------------------------------------
(* Every step preserves it, one lemma for each action that changes more than *)
(* where the poll is.                                                        *)

LEMMA QuietIInv ==
    /\ IInv
    /\ \/ Poll \/ PollFails \/ PollUnchanged \/ ManifestRefused \/ Restart
       \/ \E m \in Servable : Publish(m)
    => IInv'
<1> SUFFICES ASSUME IInv,
                    \/ Poll \/ PollFails \/ PollUnchanged \/ ManifestRefused \/ Restart
                    \/ \E m \in Servable : Publish(m)
             PROVE  IInv'
  OBVIOUS
<1>0. /\ UNCHANGED <<pollVars, localVars, diskVars, outcome, historyVars>>
      /\ published' \in Servable
      /\ bounds' \in [publishes : 0 .. MaxPublishes, edits : 0 .. MaxEdits, crashes : 0 .. MaxCrashes]
  BY BoundsAssumption DEF IInv, TypeOK, Poll, PollFails, PollUnchanged, ManifestRefused, Restart, Publish
<1>1. pc' = pc \/ (pc \in {"idle", "fetching", "down"} /\ pc' \in {"idle", "fetching"})
  BY DEF Poll, PollFails, PollUnchanged, ManifestRefused, Restart, Publish
<1>2. TypeOK'
  BY <1>0, <1>1 DEF IInv, TypeOK, pollVars, localVars, diskVars, historyVars
<1>3. Progress'
  BY <1>0, <1>1 DEF IInv, Progress, Stage, Journal, Merged, Installs, Owned, Merging, Done,
     Reconciling, Original, Owns, pollVars, localVars, diskVars, historyVars
<1>4. RollbackRestores' /\ SuccessInstalls'
  BY <1>0 DEF IInv, RollbackRestores, SuccessInstalls, pollVars, localVars, diskVars, historyVars
<1> QED
  BY <1>2, <1>3, <1>4 DEF IInv

LEMMA StartIInv ==
    ASSUME IInv, StartReconcile, ~Reconciling, handled' \in Manifests, UNCHANGED <<published, diskVars, bounds>>,
           lastHash' = lastHash, lastManifest' = lastManifest
    PROVE  IInv'
<1> USE DEF diskVars
<1>1. TypeOK'
  BY DEF IInv, TypeOK, StartReconcile, Targets
<1>2. Progress'
  <2>1. Stage' /\ Merged' /\ Installs'
    BY DEF StartReconcile, Stage, Merged, Installs, Merging, Done, Reconciling, Targets
  <2>2. Journal'
    BY DEF StartReconcile, Journal, Original, Targets
  <2>3. Owned'
    BY DEF IInv, Progress, StartReconcile, Owned, Original, Owns, Reconciling, Targets
  <2> QED
    BY <2>1, <2>2, <2>3 DEF Progress
<1>3. RollbackRestores' /\ SuccessInstalls'
  BY DEF StartReconcile, RollbackRestores, SuccessInstalls
<1> QED
  BY <1>1, <1>2, <1>3 DEF IInv

LEMMA SkipIInv ==
    ASSUME IInv, UNCHANGED <<localVars, historyVars, published, diskVars, bounds>>,
           ~Reconciling, handled' \in Manifests, lastHash' = lastHash, lastManifest' = lastManifest,
           pc' \in {"syncing", "config"}, outcome' \in {"none", "skipped"}
    PROVE  IInv'
<1> USE DEF localVars, historyVars, diskVars
<1>1. TypeOK'
  BY DEF IInv, TypeOK
<1>2. Progress'
  BY DEF IInv, Progress, Stage, Journal, Merged, Installs, Owned, Merging, Done, Reconciling,
     Original, Owns
<1>3. RollbackRestores' /\ SuccessInstalls'
  BY DEF RollbackRestores, SuccessInstalls
<1> QED
  BY <1>1, <1>2, <1>3 DEF IInv

LEMMA ChangeDetectedIInv == IInv /\ ChangeDetected => IInv'
<1> SUFFICES ASSUME IInv, ChangeDetected PROVE IInv'
  OBVIOUS
<1>1. ~Reconciling /\ handled' \in Manifests
  BY DEF IInv, TypeOK, ChangeDetected, Reconciling
<1>2. CASE StartReconcile
  BY <1>1, <1>2, StartIInv DEF ChangeDetected
<1>3. CASE ~StartReconcile
  BY <1>1, <1>3, SkipIInv DEF ChangeDetected, SkipReconcile
<1> QED
  BY <1>2, <1>3

LEMMA SyncSettlesIInv == \A status : IInv /\ SyncSettles(status) => IInv'
<1> SUFFICES ASSUME NEW status, IInv, SyncSettles(status) PROVE IInv'
  OBVIOUS
<1>1. ~Reconciling /\ handled' \in Manifests
  BY DEF IInv, Progress, Stage, SyncSettles, Reconciling, pollVars
<1>2. CASE StartReconcile
  BY <1>1, <1>2, StartIInv DEF SyncSettles, pollVars
<1>3. CASE ~StartReconcile
  BY <1>1, <1>3, SkipIInv DEF SyncSettles, SkipReconcile, pollVars
<1> QED
  BY <1>2, <1>3

LEMMA ConfigWrittenIInv == IInv /\ ConfigWritten => IInv'
<1> SUFFICES ASSUME IInv, ConfigWritten PROVE IInv'
  OBVIOUS
<1> USE DEF historyVars
<1>0. handled \in Manifests /\ ~Reconciling
  BY DEF IInv, Progress, Stage, ConfigWritten, Reconciling
<1>1. TypeOK'
  <2>1. EmptyFile \in Readable /\ Absent \in Files
    BY DEF EmptyFile, Readable, Entries, Files
  <2>2. update' \in [Targets -> Files \cup {NotUpdated}]
    BY DEF ConfigWritten
  <2> QED
    BY <1>0, <2>1, <2>2 DEF IInv, TypeOK, ConfigWritten, Targets
<1>2. Progress'
  BY <1>0 DEF IInv, Progress, ConfigWritten, Stage, Journal, Merged, Installs, Owned, Merging,
     Done, Reconciling, Owns
<1>3. RollbackRestores' /\ SuccessInstalls'
  BY DEF IInv, ConfigWritten, RollbackRestores, SuccessInstalls
<1> QED
  BY <1>1, <1>2, <1>3 DEF IInv

LEMMA CrashIInv == IInv /\ Crash => IInv'
<1> SUFFICES ASSUME IInv, Crash PROVE IInv'
  OBVIOUS
<1> USE DEF diskVars
<1>1. TypeOK'
  <2>1. EmptyFile \in Readable /\ Absent \in Files
    BY DEF EmptyFile, Readable, Entries, Files
  <2>2. update' \in [Targets -> Files \cup {NotUpdated}]
    BY DEF Crash
  <2>3. bounds' \in [publishes : 0 .. MaxPublishes, edits : 0 .. MaxEdits, crashes : 0 .. MaxCrashes]
    BY BoundsAssumption DEF IInv, TypeOK, Crash
  <2>4. lapsed' \in BOOLEAN
    BY DEF Crash, Reconciling
  <2> QED
    BY <2>1, <2>2, <2>3, <2>4 DEF IInv, TypeOK, Crash, Targets
<1>2. Progress'
  BY DEF IInv, Progress, Crash, Stage, Journal, Merged, Installs, Owned, Merging, Done,
     Reconciling, Owns
<1>3. RollbackRestores' /\ SuccessInstalls'
  BY DEF Crash, RollbackRestores, SuccessInstalls
<1> QED
  BY <1>1, <1>2, <1>3 DEF IInv

LEMMA UserEditsIInv == \A t \in Targets : IInv /\ UserEdits(t) => IInv'
<1> SUFFICES ASSUME NEW u \in Targets, IInv, UserEdits(u) PROVE IInv'
  OBVIOUS
<1> USE DEF pollVars, localVars
<1>0. PICK file \in UserFiles(settings[u]) : settings' = [settings EXCEPT ![u] = file]
  BY DEF UserEdits
<1>1. settings \in [Targets -> Files]
  BY DEF IInv, TypeOK
<1>2. /\ file \in Files
      /\ \A j \in Managed : ReadAs(file)[j] # None => ReadAs(file)[j] = ReadAs(settings[u])[j]
  BY <1>1, EditsKeepManaged
<1>3. \A t \in Targets, j \in Managed :
         ReadAs(settings'[t])[j] # None => ReadAs(settings[t])[j] # None
  BY <1>0, <1>1, <1>2
<1>4. TypeOK'
  <2>1. settings' \in [Targets -> Files]
    BY <1>0, <1>1, <1>2
  <2>2. bounds' \in [publishes : 0 .. MaxPublishes, edits : 0 .. MaxEdits, crashes : 0 .. MaxCrashes]
    BY BoundsAssumption DEF IInv, TypeOK, UserEdits
  <2> QED
    BY <2>1, <2>2 DEF IInv, TypeOK, UserEdits
<1>5. Progress'
  <2>1. Stage' /\ Journal' /\ Merged'
    BY DEF IInv, Progress, UserEdits, Stage, Journal, Merged, Merging, Reconciling
  <2>2. Installs'
    <3> SUFFICES ASSUME NEW t \in Targets, Done(t) PROVE Fits(settings'[t], handled, t)
      BY DEF UserEdits, Installs, Done, Merging
    <3>1. Fits(settings[t], handled, t)
      BY DEF IInv, Progress, Installs
    <3> QED
      BY <1>3, <3>1 DEF Fits
  <2>3. ASSUME NEW t \in Targets, Owns(settings[t]) PROVE Owns(settings[t])'
    BY <1>3, <2>3 DEF Owns, UserEdits
  <2>4. ASSUME NEW t \in Targets, Owns(Original(t)) PROVE Owns(Original(t))'
    BY <1>3, <2>4 DEF Owns, Original, UserEdits
  <2>5. Owned'
    <3>1. Owns(backup) => Owns(backup)'
      BY DEF Owns, UserEdits
    <3>2. Owns(settings["global"]) => Owns(settings["global"])'
      BY <2>3 DEF Targets
    <3>3. pc' = pc /\ target' = target /\ lapsed' = lapsed
      BY DEF UserEdits
    <3> QED
      BY <2>3, <2>4, <3>1, <3>2, <3>3 DEF IInv, Progress, Owned, Reconciling
  <2> QED
    BY <2>1, <2>2, <2>5 DEF Progress
<1>6. RollbackRestores' /\ SuccessInstalls'
  BY DEF UserEdits, RollbackRestores, SuccessInstalls
<1> QED
  BY <1>4, <1>5, <1>6 DEF IInv

(* In a reconcile no result is reported yet. *)
LEMMA NoResultYet ==
    ASSUME IInv, Reconciling
    PROVE  outcome \notin {"success", "rolled_back"} /\ handled \in Manifests
BY DEF IInv, Progress, Stage

LEMMA FileReadIInv == IInv /\ FileRead => IInv'
<1> SUFFICES ASSUME IInv, FileRead PROVE IInv'
  OBVIOUS
<1> USE DEF pollVars, diskVars, historyVars
<1> DEFINE next == Merge(handled, target, ReadAs(settings[target]))
<1>0. /\ handled \in Manifests /\ target \in Targets /\ settings[target] \in Files
      /\ pc = "read" /\ Reconciling /\ outcome \notin {"success", "rolled_back"}
      /\ update[target] = NotUpdated
  BY NoResultYet DEF IInv, TypeOK, Progress, Stage, FileRead, Reconciling, Merging
<1>1. /\ next \in Readable
      /\ Fits(next, handled, target)
      /\ ~disturbed => Installed(next, before[target], handled, target)
  <2>1. ~disturbed => before[target] = settings[target]
    BY <1>0 DEF IInv, Progress, Journal, Original
  <2> QED
    BY <1>0, <2>1, MergeInstalls
<1>2. \/ /\ next = ReadAs(settings[target]) /\ NextTarget /\ merged' = merged
      \/ /\ merged' = next /\ pc' = "backup" /\ target' = target
  BY DEF FileRead
<1>3. UNCHANGED <<published, pollVars, backup, update, diskVars, outcome, historyVars, bounds>>
  BY DEF FileRead
<1> HIDE DEF next
<1>4. TypeOK'
  BY <1>0, <1>1, <1>2, <1>3 DEF IInv, TypeOK, NextTarget, Targets
<1>5. Stage' /\ Journal'
  BY <1>0, <1>2, <1>3 DEF IInv, Progress, Stage, Journal, NextTarget, Merging, Reconciling, Original
<1>6. Merged'
  BY <1>1, <1>2, <1>3 DEF Merged, NextTarget
<1>7. next = ReadAs(settings[target]) =>
        /\ Fits(settings[target], handled, target)
        /\ ~disturbed => Installed(settings[target], before[target], handled, target)
  <2>1. ReadAs(next) = next
    BY <1>1, ReadAsReadable DEF Files
  <2> QED
    BY <1>1, <2>1 DEF Fits, Installed
<1>8. Installs'
  <2> SUFFICES ASSUME NEW t \in Targets, Done(t)'
               PROVE  /\ Fits(settings[t], handled, t)
                      /\ ~disturbed => Installed(settings[t], before[t], handled, t)
    BY <1>3 DEF Installs
  <2>1. CASE Done(t)
    BY <2>1 DEF IInv, Progress, Installs
  <2>2. CASE ~Done(t)
    <3>1. t = target /\ next = ReadAs(settings[target])
      BY <1>0, <1>2, <2>2 DEF Done, Merging, NextTarget, Targets
    <3> QED
      BY <3>1, <1>7
  <2> QED
    BY <2>1, <2>2
<1>9. Owned'
  BY <1>0, <1>2, <1>3 DEF IInv, Progress, Owned, NextTarget, Reconciling, Original, Owns
<1>10. RollbackRestores' /\ SuccessInstalls'
  BY <1>0, <1>3 DEF RollbackRestores, SuccessInstalls
<1> QED
  BY <1>4, <1>5, <1>6, <1>8, <1>9, <1>10 DEF IInv, Progress

LEMMA BackedUpIInv == IInv /\ BackedUp => IInv'
<1> SUFFICES ASSUME IInv, BackedUp PROVE IInv'
  OBVIOUS
<1> USE DEF pollVars, diskVars, historyVars
<1>0. /\ target \in Targets /\ settings[target] \in Files /\ update[target] = NotUpdated
      /\ pc = "backup" /\ Reconciling /\ outcome \notin {"success", "rolled_back"}
  BY NoResultYet DEF IInv, TypeOK, Progress, Stage, BackedUp, Reconciling, Merging
<1>1. TypeOK'
  BY <1>0 DEF IInv, TypeOK, BackedUp, Undo, Targets
<1>2. Stage' /\ Merged' /\ Installs'
  BY <1>0 DEF IInv, Progress, BackedUp, Undo, Stage, Merged, Installs, Done, Merging, Reconciling
<1>3. Journal' /\ Owned'
  <2>1. \A t \in Targets : Original(t)' = Original(t)
    BY DEF BackedUp, Original
  <2>2. Original(target) = settings[target]
    BY <1>0 DEF Original
  <2>3. Journal'
    BY <1>0, <2>1, <2>2 DEF IInv, Progress, BackedUp, Undo, Journal, Reconciling
  <2>4. Owned'
    BY <1>0, <2>1, <2>2 DEF IInv, Progress, BackedUp, Undo, Owned, Reconciling, Owns
  <2> QED
    BY <2>3, <2>4
<1>4. RollbackRestores' /\ SuccessInstalls'
  BY <1>0 DEF BackedUp, RollbackRestores, SuccessInstalls
<1> QED
  BY <1>1, <1>2, <1>3, <1>4 DEF IInv, Progress

LEMMA FileWrittenIInv == IInv /\ FileWritten => IInv'
<1> SUFFICES ASSUME IInv, FileWritten PROVE IInv'
  OBVIOUS
<1> USE DEF pollVars, historyVars
<1>0. /\ target \in Targets /\ merged \in Readable /\ update[target] = NotUpdated
      /\ target = "global" => update["project"] = NotUpdated
      /\ backup \in Files /\ backup # NotUpdated
      /\ settings \in [Targets -> Files] /\ update \in [Targets -> Files \cup {NotUpdated}]
      /\ pc = "write" /\ Reconciling /\ outcome \notin {"success", "rolled_back"}
  BY NoResultYet, FilesAssumption
  DEF IInv, TypeOK, Progress, Stage, FileWritten, Reconciling, Merging, Files
<1>1. CASE UNCHANGED <<settings, update>> /\ Undo
  <2>1. TypeOK'
    BY <1>0, <1>1 DEF IInv, TypeOK, FileWritten, Undo, Targets
  <2>2. Stage' /\ Merged' /\ Installs'
    BY <1>0, <1>1 DEF IInv, Progress, FileWritten, Undo, Stage, Merged, Installs, Done, Merging,
       Reconciling
  <2>3. Journal' /\ Owned'
    BY <1>0, <1>1 DEF IInv, Progress, FileWritten, Undo, Journal, Owned, Reconciling, Original, Owns
  <2>4. RollbackRestores' /\ SuccessInstalls'
    BY <1>0 DEF FileWritten, RollbackRestores, SuccessInstalls
  <2> QED
    BY <2>1, <2>2, <2>3, <2>4 DEF IInv, Progress
<1>2. CASE /\ settings' = [settings EXCEPT ![target] = merged]
           /\ update' = [update EXCEPT ![target] = backup]
           /\ NextTarget
  <2>1. TypeOK'
    <3>1. settings' \in [Targets -> Files] /\ update' \in [Targets -> Files \cup {NotUpdated}]
      BY <1>0, <1>2 DEF Files
    <3> QED
      BY <1>0, <1>2, <3>1 DEF IInv, TypeOK, FileWritten, NextTarget, Targets
  <2>2. Stage' /\ Merged'
    BY <1>0, <1>2 DEF IInv, Progress, FileWritten, NextTarget, Stage, Merged, Merging, Reconciling,
       Targets
  <2>3. Installs'
    <3> SUFFICES ASSUME NEW t \in Targets, Done(t)'
                 PROVE  /\ Fits(settings'[t], handled, t)
                        /\ ~disturbed => Installed(settings'[t], before[t], handled, t)
      BY DEF Installs, FileWritten
    <3>1. CASE t = target
      BY <1>0, <1>2, <3>1 DEF IInv, Progress, Merged
    <3>2. CASE t # target
      <4>1. Done(t) /\ settings'[t] = settings[t]
        BY <1>0, <1>2, <3>2 DEF Done, Merging, NextTarget, Targets
      <4> QED
        BY <4>1 DEF IInv, Progress, Installs
    <3> QED
      BY <3>1, <3>2
  <2>4. \A t \in Targets : Original(t)' = IF t = target THEN backup ELSE Original(t)
    BY <1>0, <1>2 DEF Original
  <2>5. Journal'
    BY <1>0, <1>2, <2>4 DEF IInv, Progress, FileWritten, NextTarget, Journal, Reconciling
  <2>6. Owned'
    BY <1>0, <1>2, <2>4 DEF IInv, Progress, FileWritten, NextTarget, Owned, Reconciling, Owns
  <2>7. RollbackRestores' /\ SuccessInstalls'
    BY <1>0 DEF FileWritten, RollbackRestores, SuccessInstalls
  <2> QED
    BY <2>1, <2>2, <2>3, <2>5, <2>6, <2>7 DEF IInv, Progress
<1> QED
  BY <1>1, <1>2 DEF FileWritten

LEMMA RegistryWrittenIInv == IInv /\ RegistryWritten => IInv'
<1> SUFFICES ASSUME IInv, RegistryWritten PROVE IInv'
  OBVIOUS
<1> USE DEF pollVars
<1>0. /\ pc = "registry" /\ Reconciling /\ outcome \notin {"success", "rolled_back"}
      /\ handled \in Manifests
      /\ \A t \in Targets : /\ Fits(settings[t], handled, t)
                            /\ ~disturbed => Installed(settings[t], before[t], handled, t)
  BY NoResultYet DEF IInv, Progress, Installs, Done, RegistryWritten, Reconciling
<1>1. CASE Undo /\ UNCHANGED <<registry, outcome, lapsed>>
  <2>1. TypeOK'
    BY <1>1 DEF IInv, TypeOK, RegistryWritten, Undo, Targets
  <2>2. Stage' /\ Merged' /\ Installs'
    BY <1>0, <1>1 DEF IInv, Progress, RegistryWritten, Undo, Stage, Merged, Installs, Done,
       Merging, Reconciling
  <2>3. \A t \in Targets : Original(t)' = Original(t)
    BY DEF RegistryWritten, Original
  <2>4. Journal'
    BY <1>0, <1>1, <2>3 DEF IInv, Progress, RegistryWritten, Undo, Journal, Reconciling
  <2>5. Owned'
    BY <1>0, <1>1, <2>3 DEF IInv, Progress, RegistryWritten, Undo, Owned, Reconciling, Owns
  <2>6. RollbackRestores' /\ SuccessInstalls'
    BY <1>0, <1>1 DEF RollbackRestores, SuccessInstalls
  <2> QED
    BY <2>1, <2>2, <2>4, <2>5, <2>6 DEF IInv, Progress
<1>2. CASE /\ registry' = Keys(handled) /\ outcome' = "success" /\ pc' = "config"
           /\ lapsed' = FALSE /\ target' = target
  <2>1. UNCHANGED <<published, lastHash, lastManifest, handled, merged, backup, update,
                    settings, tenantConfig, before, disturbed, torn, bounds>>
    BY DEF RegistryWritten
  <2>2. TypeOK'
    BY <1>2, <2>1 DEF IInv, TypeOK, Keys, IdsIn
  <2>3. Stage' /\ Journal' /\ Merged' /\ Installs'
    BY <1>0, <1>2, <2>1 DEF Stage, Journal, Merged, Installs, Done, Merging, Reconciling
  <2>4. Owned'
    <3> SUFFICES ASSUME NEW t \in Targets, NEW i \in Managed, ReadAs(settings[t])[i] # None
                 PROVE  \E j \in Keys(handled) : MatcherOf[j] = MatcherOf[i]
      BY <1>2, <2>1 DEF Owned, Owns, Reconciling
    <3>1. PICK j \in Ids : Content[handled][t][j] # None /\ MatcherOf[j] = MatcherOf[i]
      BY <1>0 DEF Fits
    <3> QED
      BY <3>1 DEF Keys, IdsIn
  <2>5. RollbackRestores'
    BY <1>2 DEF RollbackRestores
  <2>6. SuccessInstalls'
    BY <1>0, <1>2, <2>1 DEF SuccessInstalls, Installed, Fits
  <2> QED
    BY <2>2, <2>3, <2>4, <2>5, <2>6 DEF IInv, Progress
<1> QED
  BY <1>1, <1>2 DEF RegistryWritten

LEMMA RolledBackIInv == IInv /\ RolledBack => IInv'
<1> SUFFICES ASSUME IInv, RolledBack PROVE IInv'
  OBVIOUS
<1> USE DEF pollVars
<1>0. /\ pc = "undo" /\ Reconciling /\ outcome \notin {"success", "rolled_back"}
      /\ handled \in Manifests /\ target \in Targets
      /\ settings \in [Targets -> Files] /\ update \in [Targets -> Files \cup {NotUpdated}]
  BY NoResultYet DEF IInv, TypeOK, RolledBack, Reconciling
<1>1. UNCHANGED <<published, lastHash, lastManifest, handled, merged, backup, update,
                  registry, tenantConfig, before, disturbed, bounds>>
  BY DEF RolledBack
<1>2. \/ /\ settings' = [settings EXCEPT ![target] = Original(target)]
         /\ UNCHANGED <<torn, lapsed>>
      \/ torn' = TRUE /\ lapsed' = TRUE /\ settings' = settings
  BY DEF RolledBack, Restored, Original
<1>3. \/ target = "global" /\ target' = "project" /\ pc' = pc /\ outcome' = outcome
      \/ target = "project" /\ target' = target /\ pc' = "config" /\ outcome' = "rolled_back"
  BY DEF RolledBack
<1>4. \A t \in Targets : Original(t)' = Original(t)
  BY <1>0, <1>1, <1>2 DEF Original
<1>5. TypeOK'
  <2>1. settings' \in [Targets -> Files]
    BY <1>0, <1>2 DEF Original
  <2> QED
    BY <1>1, <1>2, <1>3, <2>1 DEF IInv, TypeOK, Targets
<1>6. Stage' /\ Merged' /\ Installs'
  BY <1>0, <1>1, <1>3 DEF Stage, Merged, Installs, Done, Merging, Reconciling
<1>7. ~disturbed => torn' \/ settings'[target] = before[target]
  BY <1>0, <1>2 DEF IInv, Progress, Journal
<1>8. Journal'
  BY <1>0, <1>1, <1>3, <1>4, <1>7 DEF IInv, Progress, Journal, Reconciling
<1>9. ~disturbed' /\ ~torn' /\ target = "project" => settings' = before
  <2> SUFFICES ASSUME ~disturbed', ~torn', target = "project" PROVE settings' = before
    OBVIOUS
  <2>1. settings'["project"] = before["project"]
    BY <1>1, <1>7
  <2>2. settings["global"] = before["global"] /\ settings'["global"] = settings["global"]
    BY <1>0, <1>1, <1>2 DEF IInv, Progress, Journal, Targets
  <2>3. settings' \in [Targets -> Files] /\ before \in [Targets -> Files]
    BY <1>1, <1>5 DEF TypeOK
  <2> QED
    BY <2>1, <2>2, <2>3 DEF Targets
<1>10. ~lapsed' => Owns(settings'[target])
  BY <1>0, <1>2 DEF IInv, Progress, Owned
<1>11. ~lapsed' /\ target = "project" => Owns(settings'["global"])
  BY <1>0, <1>2 DEF IInv, Progress, Owned, Targets
<1>12. Owned'
  <2> SUFFICES ASSUME ~lapsed' PROVE Owned'
    BY DEF Owned
  <2>1. ~lapsed
    BY <1>2
  <2>2. \A t \in Targets : Owns(Original(t))
    BY <1>0, <2>1 DEF IInv, Progress, Owned
  <2> QED
    BY <1>0, <1>1, <1>3, <1>4, <1>10, <1>11, <2>2 DEF Owned, Owns, Reconciling, Targets
<1>13. RollbackRestores' /\ SuccessInstalls'
  BY <1>0, <1>1, <1>3, <1>9 DEF RollbackRestores, SuccessInstalls
<1> QED
  BY <1>5, <1>6, <1>8, <1>12, <1>13 DEF IInv, Progress

-----------------------------------------------------------------------------
(* The theorems.                                                             *)

LEMMA StutterIInv == IInv /\ UNCHANGED vars => IInv'
<1> SUFFICES ASSUME IInv, UNCHANGED vars PROVE IInv'
  OBVIOUS
<1> USE DEF vars, pollVars, localVars, diskVars, historyVars
<1>1. TypeOK'
  BY DEF IInv, TypeOK
<1>2. Progress'
  BY DEF IInv, Progress, Stage, Journal, Merged, Installs, Owned, Merging, Done, Reconciling,
     Original, Owns
<1>3. RollbackRestores' /\ SuccessInstalls'
  BY DEF IInv, RollbackRestores, SuccessInstalls
<1> QED
  BY <1>1, <1>2, <1>3 DEF IInv

LEMMA NextIInv == IInv /\ [Next]_vars => IInv'
BY QuietIInv, ChangeDetectedIInv, SyncSettlesIInv, ConfigWrittenIInv, CrashIInv, UserEditsIInv,
   FileReadIInv, BackedUpIInv, FileWrittenIInv, RegistryWrittenIInv, RolledBackIInv, StutterIInv
DEF Next, PollAnswered, HandlerStep, SyncEnds, ReconcileStep, Environment

LEMMA Invariance == Spec => []IInv
<1>1. Init => IInv
  BY InitIInv
<1>2. IInv /\ [Next]_vars => IInv'
  BY NextIInv
<1> QED
  BY <1>1, <1>2, PTL DEF Spec

(* The variables of the poller, the handler and reconcile keep their types. *)
THEOREM TypeCorrect == Spec => []TypeOK
<1>1. IInv => TypeOK
  BY DEF IInv
<1> QED
  BY <1>1, Invariance, PTL

(* A reconcile that fails at any step restores both settings files, unless a *)
(* rollback step fails too (reconcile's catch block).                        *)
THEOREM RollbackIsComplete == Spec => []RollbackRestores
<1>1. IInv => RollbackRestores
  BY DEF IInv
<1> QED
  BY <1>1, Invariance, PTL

(* A reconcile that succeeds has installed the manifest in both files and    *)
(* the registry, has removed the prefixed entries without an active matcher  *)
(* in the file, and has kept the unprefixed entries the manifest does not    *)
(* name (reconcile).                                                         *)
THEOREM SuccessIsInstalled == Spec => []SuccessInstalls
<1>1. IInv => SuccessInstalls
  BY DEF IInv
<1> QED
  BY <1>1, Invariance, PTL

(* Outside reconcile the registry knows the matcher of every managed entry,  *)
(* unless a reconcile was cut short or torn (buildNewRegistry).              *)
THEOREM RegistryIsTheTruth == Spec => []RegistryOwns
<1>1. IInv => RegistryOwns
  BY DEF IInv, Progress, Owned, Owns, RegistryOwns
<1> QED
  BY <1>1, Invariance, PTL
=============================================================================
