---------------------------- MODULE ServicesProofs ----------------------------
(***************************************************************************)
(* Theorems about the services that have no module of proofs of their own     *)
(* (skill sync, desktop sync, verification), for any versions, files,          *)
(* processes, chunks and artifacts, and about all of them together.           *)
(***************************************************************************)
EXTENDS MCServices, ControlPlaneQueuesProofs, ReconProofs, FiniteSetTheorems, TLAPS

-----------------------------------------------------------------------------
(* Skill sync: the inductive invariant, in parts.                           *)

(* A process that has begun knows a version, and behind the git commands the  *)
(* cache has one.                                                            *)
Versioned ==
    \A p \in Syncers :
        /\ at[p] # "idle" => wanted[p] \in Tags
        /\ at[p] \in {"comparing", "saving", "copying", "writing", "noop"} => gitCache \in Tags

(* The lock file is there while a process works, and one process works.  It   *)
(* is there without one only after one was cut short.                        *)
Locked ==
    /\ \A p \in Syncers : Holds(p) => lockFile
    /\ \A p, q \in Syncers : Holds(p) /\ Holds(q) => p = q
    /\ LockIsHeld

(* What is no longer to be copied has been, but for the user's edits since.   *)
Progress(p) ==
    /\ at[p] = "saving" => InTree(gitCache) \subseteq todo[p]
    /\ at[p] = "copying" =>
           \A f \in InTree(gitCache) \ (todo[p] \cup late[p]) : skills[f] = Tree[gitCache][f]
    /\ at[p] = "writing" =>
           \A f \in InTree(gitCache) \ late[p] : skills[f] = Tree[gitCache][f]

(* A managed file with the user's text was found, or became so later. *)
Noticed(p) ==
    at[p] \in {"saving", "copying"} =>
        \A f \in Managed(p) : skills[f] = UserText => f \in modified[p] \cup late[p]

SyncInv == SyncTypeOK /\ Versioned /\ Locked /\ \A p \in Syncers : Progress(p) /\ Noticed(p)

-----------------------------------------------------------------------------
LEMMA NoTreeTyped == NoTree \in [Skills -> Texts \cup {NoText}]
  BY DEF NoTree

LEMMA NoMetadataTyped == NoMetadata \in Metadata
  BY NoTreeTyped DEF NoMetadata, Metadata

Places == {"idle", "locking", "yielding"} \cup LockPlaces

LEMMA TreeTyped == ASSUME NEW v \in Tags PROVE Tree[v] \in [Skills -> Texts \cup {NoText}]
  BY TreeAssumption

LEMMA SyncStartsTyped == SyncInit => SyncInv
  <1> SUFFICES ASSUME SyncInit PROVE SyncInv
    OBVIOUS
  <1>1. metadata \in Metadata /\ current \in [Syncers -> Metadata]
    BY NoMetadataTyped DEF SyncInit
  <1>2. skills \in [Skills -> Texts \cup {NoText, UserText}]
    BY NoTreeTyped DEF SyncInit
  <1>3. at \in [Syncers -> {"idle"}]
    BY DEF SyncInit
  <1>4. SyncTypeOK
    BY <1>1, <1>2, <1>3 DEF SyncInit, SyncTypeOK
  <1> QED BY <1>3, <1>4 DEF SyncInit, SyncInv, Versioned, Locked, Holds, LockIsHeld, LockPlaces, WritePlaces, Progress, Noticed

-----------------------------------------------------------------------------
(* A process whose own state, cache and files stay keeps its part. *)
LEMMA FrameKeeps ==
  ASSUME NEW q \in Syncers, Progress(q), Noticed(q),
         UNCHANGED <<gitCache, skills, at[q], todo[q], late[q], modified[q], current[q]>>
  PROVE  (Progress(q) /\ Noticed(q))'
  BY DEF Progress, Noticed, Managed, InTree

(* The steps that only move on, and rewrite the metadata. *)
LEMMA MovedKeeps ==
  ASSUME SyncInv, NEW p \in Syncers, NEW to \in Places, Goes(p, to),
         UNCHANGED <<lockFile, gitCache, skills, localState, late>>,
         metadata' \in Metadata,
         settled' \in [Syncers -> {"none", "success", "offline", "error", "locked"}],
         ops' \in [syncs : Nat, edits : Nat, stops : Nat],
         ops'.stops >= ops.stops,
         Holds(p) => to \in LockPlaces \/ ops'.stops > 0,
         to \in LockPlaces => Holds(p),
         to # "idle" => at[p] # "idle",
         to \in {"comparing", "saving", "copying", "writing", "noop"} => gitCache \in Tags,
         to # "saving",
         to = "copying" => at[p] = "saving",
         to = "writing" => at[p] = "copying" /\ todo[p] = {}
  PROVE  SyncInv'
  <1>1. /\ at \in [Syncers -> Places] /\ at' = [at EXCEPT ![p] = to]
        /\ at' \in [Syncers -> Places]
    BY DEF SyncInv, SyncTypeOK, Goes, Places
  <1>2. SyncTypeOK'
    BY <1>1 DEF SyncInv, SyncTypeOK, localState, Places
  <1>3. Versioned'
    BY <1>1 DEF SyncInv, Versioned, localState
  <1>4. \A q \in Syncers : Holds(q)' => Holds(q)
    BY <1>1 DEF Holds
  <1>5. Locked'
    <2>1. LockIsHeld'
      <3> SUFFICES ASSUME lockFile', \A q \in Syncers : ~Holds(q)', ops'.stops = 0 PROVE FALSE
        BY DEF LockIsHeld
      <3>1. lockFile /\ ops.stops = 0
        BY DEF SyncInv, SyncTypeOK
      <3>2. PICK q \in Syncers : Holds(q)
        BY <3>1 DEF SyncInv, Locked, LockIsHeld
      <3>3. CASE q = p
        BY <1>1, <3>2, <3>3 DEF Holds
      <3>4. CASE q # p
        BY <1>1, <3>2, <3>4 DEF Holds
      <3> QED BY <3>3, <3>4
    <2> QED BY <1>4, <2>1 DEF SyncInv, Locked
  <1>6. ASSUME NEW q \in Syncers PROVE (Progress(q) /\ Noticed(q))'
    <2>1. CASE q # p
      <3>1. UNCHANGED <<at[q], todo[q], late[q], modified[q], current[q]>>
        BY <1>1, <2>1 DEF localState
      <3> QED BY <3>1, FrameKeeps DEF SyncInv
    <2>2. CASE q = p
      <3>1. at'[p] = to
        BY <1>1
      <3>2. Progress(p) /\ Noticed(p)
        BY DEF SyncInv
      <3>3. Progress(p)'
        BY <3>1, <3>2 DEF Progress, localState, InTree
      <3>4. Noticed(p)'
        BY <3>1, <3>2 DEF Noticed, localState, Managed
      <3> QED BY <2>2, <3>3, <3>4
    <2> QED BY <2>1, <2>2
  <1> QED BY <1>2, <1>3, <1>5, <1>6 DEF SyncInv

(* A metadata record with another status. *)
LEMMA StatusTyped ==
  ASSUME NEW m \in Metadata, NEW s \in {"success", "offline", "error", "locked"}
  PROVE  [m EXCEPT !.status = s] \in Metadata
  BY DEF Metadata

LEMMA PlainStepsKeep ==
  ASSUME SyncInv, NEW p \in Syncers,
         \/ LockedReported(p) \/ GitFails(p) \/ Saved(p) \/ AllInstalled(p)
         \/ StepFails(p) \/ SuccessWritten(p) \/ OfflineWritten(p) \/ ErrorWritten(p)
         \/ SyncStopped(p) \/ ReleaseFails(p)
  PROVE  SyncInv'
  <1> USE DEF Places, LockPlaces, WritePlaces, Holds
  <1>1. /\ at \in [Syncers -> Places] /\ current[p] \in Metadata /\ metadata \in Metadata
        /\ settled \in [Syncers -> {"none", "success", "offline", "error", "locked"}]
        /\ ops \in [syncs : Nat, edits : Nat, stops : Nat]
        /\ wanted \in [Syncers -> Tags \cup {NoTag}]
    BY DEF SyncInv, SyncTypeOK
  <1>2. at[p] \in {"comparing", "saving", "copying", "writing", "noop"} => gitCache \in Tags
    BY DEF SyncInv, Versioned
  <1>3. at[p] # "idle" => wanted[p] \in Tags
    BY DEF SyncInv, Versioned
  <1>4. CASE LockedReported(p)
    <2>1. metadata' \in Metadata
      BY <1>1, <1>4, StatusTyped DEF LockedReported
    <2>2. settled' \in [Syncers -> {"none", "success", "offline", "error", "locked"}]
      BY <1>1, <1>4 DEF LockedReported
    <2> QED BY <1>1, <1>4, <2>1, <2>2, MovedKeeps DEF LockedReported
  <1>5. CASE GitFails(p)
    <2>1. PICK to \in {"offline", "failing"} : Goes(p, to)
      BY <1>5 DEF GitFails
    <2>2. at[p] = "git" /\ UNCHANGED <<diskState, localState, settled, late, ops>>
      BY <1>5 DEF GitFails
    <2> QED BY <1>1, <2>1, <2>2, MovedKeeps DEF diskState
  <1>6. CASE Saved(p)
    BY <1>1, <1>2, <1>6, MovedKeeps DEF Saved, diskState
  <1>7. CASE AllInstalled(p)
    BY <1>1, <1>2, <1>7, MovedKeeps DEF AllInstalled, diskState
  <1>8. CASE StepFails(p)
    BY <1>1, <1>2, <1>8, MovedKeeps DEF StepFails, diskState
  <1>9. CASE SuccessWritten(p)
    <2>1. gitCache \in Tags /\ wanted[p] \in Tags
      BY <1>2, <1>3, <1>9 DEF SuccessWritten
    <2>2. metadata' \in Metadata
      BY <1>9, <2>1, TreeTyped DEF SuccessWritten, Metadata
    <2>3. settled' \in [Syncers -> {"none", "success", "offline", "error", "locked"}]
      BY <1>1, <1>9 DEF SuccessWritten
    <2> QED BY <1>1, <1>9, <2>2, <2>3, MovedKeeps DEF SuccessWritten
  <1>10. CASE OfflineWritten(p)
    <2>1. metadata' \in Metadata
      BY <1>1, <1>10, StatusTyped DEF OfflineWritten
    <2>2. settled' \in [Syncers -> {"none", "success", "offline", "error", "locked"}]
      BY <1>1, <1>10 DEF OfflineWritten
    <2> QED BY <1>1, <1>10, <2>1, <2>2, MovedKeeps DEF OfflineWritten
  <1>11. CASE ErrorWritten(p)
    <2>1. metadata' \in Metadata
      BY <1>1, <1>11, StatusTyped DEF ErrorWritten
    <2>2. settled' \in [Syncers -> {"none", "success", "offline", "error", "locked"}]
      BY <1>1, <1>11 DEF ErrorWritten
    <2> QED BY <1>1, <1>11, <2>1, <2>2, MovedKeeps DEF ErrorWritten
  <1>12. CASE SyncStopped(p)
    <2>1. metadata' \in Metadata
      BY <1>1, <1>12, NoMetadataTyped DEF SyncStopped
    <2>2. settled' \in [Syncers -> {"none", "success", "offline", "error", "locked"}]
      BY <1>1, <1>12 DEF SyncStopped
    <2>3. ops' \in [syncs : Nat, edits : Nat, stops : Nat]
      BY <1>1, <1>12 DEF SyncStopped
    <2>4. ops'.stops > 0 /\ ops'.stops >= ops.stops
      BY <1>1, <1>12 DEF SyncStopped
    <2> QED BY <1>1, <1>12, <2>1, <2>2, <2>3, <2>4, MovedKeeps DEF SyncStopped
  <1>13. CASE ReleaseFails(p)
    <2>1. settled' \in [Syncers -> {"none", "success", "offline", "error", "locked"}]
      BY <1>1, <1>13 DEF ReleaseFails
    <2>2. ops' \in [syncs : Nat, edits : Nat, stops : Nat] /\ ops'.stops > 0 /\ ops'.stops >= ops.stops
      BY <1>1, <1>13 DEF ReleaseFails
    <2> QED BY <1>1, <1>13, <2>1, <2>2, MovedKeeps DEF ReleaseFails, diskState
  <1> QED BY <1>4, <1>5, <1>6, <1>7, <1>8, <1>9, <1>10, <1>11, <1>12, <1>13

-----------------------------------------------------------------------------
(* Taking the lock and leaving it; what is read under it.                     *)
LEMMA LockStepsKeep ==
  ASSUME SyncInv, NEW p \in Syncers,
         \/ \E v \in Tags : SyncStarts(p, v)
         \/ LockTaken(p) \/ LockMissed(p) \/ MetadataRead(p) \/ Released(p)
  PROVE  SyncInv'
  <1> USE DEF Places, LockPlaces, WritePlaces
  <1>1. PICK to \in {"locking", "reading", "yielding", "git", "idle"} : Goes(p, to)
    BY DEF SyncStarts, LockTaken, LockMissed, MetadataRead, Released
  <1>2. /\ at \in [Syncers -> Places] /\ at' = [at EXCEPT ![p] = to] /\ at' \in [Syncers -> Places]
        /\ at'[p] = to
    BY <1>1 DEF SyncInv, SyncTypeOK, Goes
  <1>3. UNCHANGED <<gitCache, metadata, skills, modified, todo, late>>
    BY DEF SyncStarts, LockTaken, LockMissed, MetadataRead, Released, diskState, localState
  <1>4. /\ wanted' \in [Syncers -> Tags \cup {NoTag}]
        /\ to # "idle" => wanted'[p] \in Tags
        /\ \A q \in Syncers \ {p} : wanted'[q] = wanted[q]
    BY <1>1, <1>2 DEF SyncInv, SyncTypeOK, Versioned, SyncStarts, LockTaken, LockMissed, MetadataRead, Released,
       localState, Goes
  <1>5. Readings(p) \subseteq Metadata
    BY NoMetadataTyped DEF SyncInv, SyncTypeOK, Readings
  <1>6. /\ current' \in [Syncers -> Metadata]
        /\ \A q \in Syncers \ {p} : current'[q] = current[q]
    BY <1>5 DEF SyncInv, SyncTypeOK, SyncStarts, LockTaken, LockMissed, MetadataRead, Released, localState
  <1>7. /\ settled' \in [Syncers -> {"none", "success", "offline", "error", "locked"}]
        /\ ops' \in [syncs : Nat, edits : Nat, stops : Nat]
        /\ lockFile' \in BOOLEAN
    <2>1. /\ lockFile \in BOOLEAN
          /\ settled \in [Syncers -> {"none", "success", "offline", "error", "locked"}]
          /\ ops \in [syncs : Nat, edits : Nat, stops : Nat]
      BY DEF SyncInv, SyncTypeOK
    <2>2. CASE \E v \in Tags : SyncStarts(p, v)
      BY <2>1, <2>2 DEF SyncStarts, diskState
    <2>3. CASE LockTaken(p) \/ LockMissed(p) \/ MetadataRead(p) \/ Released(p)
      BY <2>1, <2>3 DEF LockTaken, LockMissed, MetadataRead, Released, diskState
    <2> QED BY <2>2, <2>3
  <1>8. SyncTypeOK'
    BY <1>2, <1>3, <1>4, <1>6, <1>7 DEF SyncInv, SyncTypeOK
  <1>9. Versioned'
    BY <1>2, <1>3, <1>4 DEF SyncInv, Versioned
  <1>10. Locked'
    <2>1. CASE LockTaken(p)
      <3>1. ~lockFile /\ lockFile' /\ to = "reading"
        BY <1>1, <1>2, <2>1 DEF LockTaken, Goes
      <3> QED BY <1>2, <3>1 DEF SyncInv, Locked, Holds, LockIsHeld
    <2>2. CASE Released(p)
      <3>1. Holds(p) /\ to = "idle" /\ ~lockFile'
        BY <1>1, <1>2, <2>2 DEF Released, Holds, Goes
      <3> QED BY <1>2, <3>1 DEF SyncInv, Locked, Holds, LockIsHeld
    <2>3. CASE (\E v \in Tags : SyncStarts(p, v)) \/ LockMissed(p) \/ MetadataRead(p)
      <3>1. lockFile' = lockFile
        BY <2>3 DEF SyncStarts, LockMissed, MetadataRead, diskState
      <3>2. to \in LockPlaces <=> Holds(p)
        BY <1>2, <2>3 DEF SyncStarts, LockMissed, MetadataRead, Holds, Goes
      <3>3. \A q \in Syncers : Holds(q)' <=> Holds(q)
        BY <1>2, <3>2 DEF Holds
      <3>4. ops'.stops = ops.stops
        BY <2>3 DEF SyncStarts, LockMissed, MetadataRead, SyncInv, SyncTypeOK
      <3> QED BY <3>1, <3>3, <3>4 DEF SyncInv, Locked, LockIsHeld
    <2> QED BY <2>1, <2>2, <2>3
  <1>11. ASSUME NEW q \in Syncers PROVE (Progress(q) /\ Noticed(q))'
    <2>1. CASE q # p
      <3>1. UNCHANGED <<at[q], todo[q], late[q], modified[q], current[q]>>
        BY <1>2, <1>3, <1>6, <2>1
      <3> QED BY <1>3, <3>1, FrameKeeps DEF SyncInv
    <2>2. CASE q = p
      BY <1>2, <2>2 DEF Progress, Noticed
    <2> QED BY <2>1, <2>2
  <1> QED BY <1>8, <1>9, <1>10, <1>11 DEF SyncInv

(* Only the holder of the lock has its cache or its files changed by itself:  *)
(* a process that copies or is about to write is that holder.                *)
LEMMA GitKeeps ==
  ASSUME SyncInv, NEW p \in Syncers, GitSucceeds(p)
  PROVE  SyncInv'
  <1> USE DEF Places, LockPlaces, WritePlaces
  <1>1. /\ at \in [Syncers -> Places] /\ at' = [at EXCEPT ![p] = "comparing"] /\ at' \in [Syncers -> Places]
        /\ at[p] = "git" /\ at'[p] = "comparing"
    BY DEF SyncInv, SyncTypeOK, Goes, GitSucceeds
  <1>2. /\ UNCHANGED <<lockFile, metadata, skills, wanted, current, modified, todo, settled, late, ops>>
    BY DEF GitSucceeds, localState
  <1>3. gitCache' \in Tags
    BY <1>1 DEF SyncInv, SyncTypeOK, Versioned, GitSucceeds, CacheFits
  <1>4. SyncTypeOK'
    BY <1>1, <1>2, <1>3 DEF SyncInv, SyncTypeOK
  <1>5. Versioned'
    BY <1>1, <1>2, <1>3 DEF SyncInv, Versioned
  <1>6. Locked'
    <2>1. \A q \in Syncers : Holds(q)' <=> Holds(q)
      BY <1>1 DEF Holds
    <2> QED BY <1>2, <2>1 DEF SyncInv, Locked, LockIsHeld
  <1>7. ASSUME NEW q \in Syncers PROVE (Progress(q) /\ Noticed(q))'
    <2>1. at'[q] \notin {"saving", "copying", "writing"}
      BY <1>1 DEF SyncInv, Locked, Holds
    <2> QED BY <2>1 DEF Progress, Noticed
  <1> QED BY <1>4, <1>5, <1>6, <1>7 DEF SyncInv

LEMMA ComparedKeeps ==
  ASSUME SyncInv, NEW p \in Syncers, Compared(p)
  PROVE  SyncInv'
  <1> USE DEF Places, LockPlaces, WritePlaces
  <1>1. PICK to \in {"noop", "saving"} : Goes(p, to)
    BY DEF Compared
  <1>2. /\ at \in [Syncers -> Places] /\ at' = [at EXCEPT ![p] = to] /\ at' \in [Syncers -> Places]
        /\ at[p] = "comparing" /\ at'[p] = to /\ gitCache \in Tags
    BY <1>1 DEF SyncInv, SyncTypeOK, Goes, Compared, Versioned
  <1>3. UNCHANGED <<lockFile, gitCache, metadata, skills, wanted, current, settled, ops>>
    BY DEF Compared, diskState
  <1>4. late' = [late EXCEPT ![p] = {}] /\ late' \in [Syncers -> SUBSET Skills]
    BY DEF Compared, SyncInv, SyncTypeOK
  <1>5. ModifiedFiles(p) \in SUBSET Skills /\ Managed(p) \cup InTree(gitCache) \in SUBSET Skills
    BY DEF ModifiedFiles, Managed, InTree
  <1>6. /\ modified' \in [Syncers -> SUBSET Skills] /\ todo' \in [Syncers -> SUBSET Skills]
        /\ \A q \in Syncers \ {p} : modified'[q] = modified[q] /\ todo'[q] = todo[q]
        /\ to = "saving" => /\ modified'[p] = ModifiedFiles(p)
                            /\ todo'[p] = Managed(p) \cup InTree(gitCache)
    <2>1. modified \in [Syncers -> SUBSET Skills] /\ todo \in [Syncers -> SUBSET Skills]
      BY DEF SyncInv, SyncTypeOK
    <2>2. CASE UNCHANGED <<modified, todo>> /\ Goes(p, "noop")
      BY <1>1, <1>2, <2>1, <2>2 DEF Goes
    <2>3. CASE /\ modified' = [modified EXCEPT ![p] = ModifiedFiles(p)]
               /\ todo' = [todo EXCEPT ![p] = Managed(p) \cup InTree(gitCache)]
      BY <1>5, <2>1, <2>3
    <2> QED BY <2>2, <2>3 DEF Compared
  <1>7. SyncTypeOK'
    BY <1>2, <1>3, <1>4, <1>6 DEF SyncInv, SyncTypeOK
  <1>8. Versioned'
    BY <1>2, <1>3 DEF SyncInv, Versioned
  <1>9. Locked'
    <2>1. \A q \in Syncers : Holds(q)' <=> Holds(q)
      BY <1>2 DEF Holds
    <2> QED BY <1>3, <2>1 DEF SyncInv, Locked, LockIsHeld
  <1>10. ASSUME NEW q \in Syncers PROVE (Progress(q) /\ Noticed(q))'
    <2>1. CASE q # p
      <3>1. UNCHANGED <<at[q], todo[q], late[q], modified[q], current[q]>>
        BY <1>2, <1>3, <1>4, <1>6, <2>1 DEF SyncInv, SyncTypeOK
      <3> QED BY <1>3, <3>1, FrameKeeps DEF SyncInv
    <2>2. CASE q = p
      <3>1. Progress(p)'
        BY <1>2, <1>3, <1>6 DEF Progress, InTree
      <3>2. \A f \in Skills : current[p].managed[f] # UserText
        BY TreeAssumption DEF SyncInv, SyncTypeOK, Metadata
      <3>3. Noticed(p)'
        <4> SUFFICES ASSUME to = "saving", NEW f \in Managed(p), skills[f] = UserText
                     PROVE  f \in ModifiedFiles(p)
          BY <1>2, <1>3, <1>6 DEF Noticed, Managed
        <4> QED BY <3>2, TreeAssumption DEF ModifiedFiles, Managed
      <3> QED BY <2>2, <3>1, <3>3
    <2> QED BY <2>1, <2>2
  <1> QED BY <1>7, <1>8, <1>9, <1>10 DEF SyncInv

LEMMA FileKeeps ==
  ASSUME SyncInv, NEW p \in Syncers, NEW f \in Skills, FileInstalled(p, f)
  PROVE  SyncInv'
  <1> USE DEF Places, LockPlaces, WritePlaces
  <1>1. /\ at \in [Syncers -> Places] /\ at[p] = "copying" /\ gitCache \in Tags
        /\ skills \in [Skills -> Texts \cup {NoText, UserText}]
        /\ todo \in [Syncers -> SUBSET Skills]
    BY DEF SyncInv, SyncTypeOK, Versioned, FileInstalled
  <1>2. UNCHANGED <<lockFile, gitCache, metadata, at, wanted, current, modified, settled, late, ops>>
    BY DEF FileInstalled
  <1>3. /\ todo' = [todo EXCEPT ![p] = todo[p] \ {f}] /\ todo' \in [Syncers -> SUBSET Skills]
        /\ todo'[p] = todo[p] \ {f}
    BY <1>1 DEF FileInstalled
  <1>4. Tree[gitCache][f] \in Texts \cup {NoText}
    BY <1>1, TreeTyped
  <1>5. /\ skills' \in [Skills -> Texts \cup {NoText, UserText}]
        /\ \A g \in Skills \ {f} : skills'[g] = skills[g]
        /\ f \in InTree(gitCache) => skills'[f] = Tree[gitCache][f]
        /\ skills'[f] \in {skills[f], Tree[gitCache][f]}
    BY <1>1, <1>4 DEF FileInstalled
  <1>6. SyncTypeOK'
    BY <1>2, <1>3, <1>5 DEF SyncInv, SyncTypeOK
  <1>7. Versioned' /\ Locked'
    BY <1>2 DEF SyncInv, Versioned, Locked, Holds, LockIsHeld
  <1>8. ASSUME NEW q \in Syncers PROVE (Progress(q) /\ Noticed(q))'
    <2>1. CASE q # p
      <3>1. at'[q] \notin {"saving", "copying", "writing"}
        BY <1>1, <1>2, <2>1 DEF SyncInv, Locked, Holds
      <3> QED BY <3>1 DEF Progress, Noticed
    <2>2. CASE q = p
      <3>1. Progress(p) /\ Noticed(p)
        BY DEF SyncInv
      <3>2. Progress(p)'
        BY <1>1, <1>2, <1>3, <1>5, <3>1 DEF Progress, InTree
      <3>3. Noticed(p)'
        BY <1>1, <1>2, <1>4, <1>5, <3>1, TreeAssumption DEF Noticed, Managed
      <3> QED BY <2>2, <3>2, <3>3
    <2> QED BY <2>1, <2>2
  <1> QED BY <1>6, <1>7, <1>8 DEF SyncInv

(* What the user does counts as late for every process. *)
LEMMA UserKeeps ==
  ASSUME SyncInv, NEW f \in Skills, UserModifies(f)
  PROVE  SyncInv'
  <1>1. UNCHANGED <<lockFile, gitCache, metadata, at, wanted, current, modified, todo, settled>>
    BY DEF UserModifies, localState
  <1>2. /\ skills' \in [Skills -> Texts \cup {NoText, UserText}]
        /\ \A g \in Skills \ {f} : skills'[g] = skills[g]
    BY DEF UserModifies, SyncInv, SyncTypeOK
  <1>3. late' = [p \in Syncers |-> late[p] \cup {f}] /\ late \in [Syncers -> SUBSET Skills]
    BY DEF UserModifies, SyncInv, SyncTypeOK
  <1>4. late' \in [Syncers -> SUBSET Skills]
    BY <1>3
  <1>5. ops' \in [syncs : Nat, edits : Nat, stops : Nat]
    BY DEF UserModifies, SyncInv, SyncTypeOK
  <1>6. SyncTypeOK'
    BY <1>1, <1>2, <1>4, <1>5 DEF SyncInv, SyncTypeOK
  <1>7. Versioned' /\ Locked'
    <2>1. ops'.stops = ops.stops
      BY DEF UserModifies, SyncInv, SyncTypeOK
    <2> QED BY <1>1, <2>1 DEF SyncInv, Versioned, Locked, Holds, LockIsHeld
  <1>8. ASSUME NEW q \in Syncers PROVE (Progress(q) /\ Noticed(q))'
    <2>1. late'[q] = late[q] \cup {f} /\ Progress(q) /\ Noticed(q)
      BY <1>3 DEF SyncInv
    <2> QED BY <1>1, <1>2, <2>1 DEF Progress, Noticed, Managed, InTree
  <1> QED BY <1>6, <1>7, <1>8 DEF SyncInv

LEMMA SyncStep == SyncInv /\ [SyncNext]_syncVars => SyncInv'
  <1> SUFFICES ASSUME SyncInv, [SyncNext]_syncVars PROVE SyncInv'
    OBVIOUS
  <1>1. CASE UNCHANGED syncVars
    BY <1>1 DEF syncVars, diskState, localState, SyncInv, SyncTypeOK, Versioned, Locked, Holds, LockIsHeld, Progress,
       Noticed, Managed, InTree
  <1>2. CASE SyncNext
    BY <1>2, PlainStepsKeep, LockStepsKeep, GitKeeps, ComparedKeeps, FileKeeps, UserKeeps
       DEF SyncNext, SyncProceeds
  <1> QED BY <1>1, <1>2

-----------------------------------------------------------------------------
(* Every reachable state of the command line tool and the sidecar is typed.  *)
THEOREM SyncTypeCorrect == SyncSpec => []SyncTypeOK
  <1>1. SyncInv => SyncTypeOK
    BY DEF SyncInv
  <1> QED BY <1>1, SyncStartsTyped, SyncStep, PTL DEF SyncSpec

(* However many processes sync, fail and are stopped at any point, one at a   *)
(* time is in the cache and the skills, and what it is about to report as     *)
(* installed is there, for any versions and files (sync.ts:162, :439).        *)
THEOREM OneVersionInstalled == SyncSpec => []InstalledAsOneVersion
  <1>1. SyncInv => InstalledAsOneVersion
    BY DEF SyncInv, Locked, Progress, InstalledAsOneVersion
  <1> QED BY <1>1, SyncStartsTyped, SyncStep, PTL DEF SyncSpec

(* No failure between the lock and the end leaves the lock file without a     *)
(* holder: only a process that was stopped does, or one that could not remove *)
(* the file (sync.ts:162-190, :476).                                         *)
THEOREM LockNeverForgotten == SyncSpec => []LockIsHeld
  <1>1. SyncInv => LockIsHeld
    BY DEF SyncInv, Locked
  <1> QED BY <1>1, SyncStartsTyped, SyncStep, PTL DEF SyncSpec

(* No file the metadata knew loses what the user made of it without a backup, *)
(* unless it was made after the comparison (sync.ts:365-375, :418).           *)
THEOREM NoEditLost == SyncSpec => EditsAreSaved
  <1> DEFINE Saves ==
        \A p \in Syncers, f \in Skills :
          /\ at[p] = "copying" /\ f \in todo[p] /\ f \notin todo'[p]
          /\ skills[f] = UserText /\ skills'[f] # UserText
          => f \in modified[p] \cup late[p] \/ f \notin Managed(p)
  <1>1. SyncInv /\ [SyncNext]_syncVars => [Saves]_syncVars
    BY DEF SyncInv, Noticed
  <1> QED BY <1>1, SyncStartsTyped, SyncStep, PTL DEF SyncSpec, EditsAreSaved

-----------------------------------------------------------------------------
(* Desktop sync.                                                            *)

Steps == {"new", "none", "pin", "metadata", "clone", "stage", "copy", "update"}

(* A run past its first step has a target, and what it stages is a version;   *)
(* the flag of tick is set exactly while a tick's run is under way.          *)
Targeted ==
    \A r \in Runs :
        /\ run[r].step \in {"metadata", "clone", "stage", "copy", "update"} => run[r].target \in Pins
        /\ run[r].step = "stage" => clone \in Pins

TicksExclude == syncing <=> run["tick"].step # "none"

DeskInv == DeskTypeOK /\ Targeted /\ TicksExclude

LEMMA DeskStarts == DeskInit => DeskInv
  <1> SUFFICES ASSUME DeskInit PROVE DeskInv
    OBVIOUS
  <1>1. run \in [Runs -> [step : Steps, target : Pins \cup {NoPin}]]
    BY DEF DeskInit, Steps
  <1>2. run["tick"].step = "none" /\ \A r \in Runs : run[r].step \in {"new", "none"}
    BY DEF DeskInit, Runs
  <1> QED BY <1>1, <1>2 DEF DeskInit, DeskInv, DeskTypeOK, Targeted, TicksExclude, Steps

(* What a step of run r does to its record, and to no other. *)
LEMMA RunKeeps ==
  ASSUME DeskInv, NEW r \in Runs, NEW v \in [step : Steps \ {"new"}, target : Pins \cup {NoPin}],
         run' = [run EXCEPT ![r] = v],
         v.step \in {"metadata", "clone", "stage", "copy", "update"} => v.target \in Pins,
         v.step = "stage" => clone' \in Pins,
         clone' \in {clone} \cup Pins,
         pinned' \in Pins, synced' \in Pins \cup {NoPin}, torn' \in BOOLEAN,
         staged' \in Pins \cup {NoPin}, dest' \in Pins \cup {NoPin},
         periodicStatus' \in {"idle", "syncing", "synced", "error"},
         timer' \in BOOLEAN, moves' \in [pins : Nat, faults : Nat, periodic : Nat],
         syncing' \in BOOLEAN,
         r = "tick" => (syncing' <=> v.step # "none"),
         r # "tick" => syncing' = syncing
  PROVE  DeskInv'
  <1>1. /\ run \in [Runs -> [step : Steps, target : Pins \cup {NoPin}]]
        /\ run' \in [Runs -> [step : Steps, target : Pins \cup {NoPin}]]
        /\ run'[r] = v /\ \A q \in Runs \ {r} : run'[q] = run[q]
    BY DEF DeskInv, DeskTypeOK, Steps
  <1>2. clone \in Pins \cup {NoPin}
    BY DEF DeskInv, DeskTypeOK
  <1>3. DeskTypeOK'
    BY <1>1, <1>2 DEF DeskTypeOK, Steps
  <1>4. Targeted'
    BY <1>1 DEF DeskInv, Targeted
  <1>5. TicksExclude'
    BY <1>1 DEF DeskInv, TicksExclude, Runs
  <1> QED BY <1>3, <1>4, <1>5 DEF DeskInv

LEMMA RunProceedsKeeps ==
  ASSUME DeskInv, NEW r \in Runs, RunProceeds(r) \/ DeskStepFails(r)
  PROVE  DeskInv'
  <1>1. /\ run[r] \in [step : Steps, target : Pins \cup {NoPin}]
        /\ pinned \in Pins /\ synced \in Pins \cup {NoPin} /\ clone \in Pins \cup {NoPin}
        /\ staged \in Pins \cup {NoPin} /\ dest \in Pins \cup {NoPin} /\ torn \in BOOLEAN
        /\ periodicStatus \in {"idle", "syncing", "synced", "error"}
        /\ timer \in BOOLEAN /\ syncing \in BOOLEAN
        /\ moves \in [pins : Nat, faults : Nat, periodic : Nat]
    BY DEF DeskInv, DeskTypeOK, Steps
  <1>2. /\ run[r].step \in {"metadata", "clone", "stage", "copy", "update"} => run[r].target \in Pins
        /\ run[r].step = "stage" => clone \in Pins
        /\ r = "tick" => (syncing <=> run[r].step # "none")
    BY DEF DeskInv, Targeted, TicksExclude
  <1> DEFINE At(step) == [run[r] EXCEPT !.step = step]
  <1>3. ASSUME NEW step \in Steps \ {"new"}
        PROVE  /\ At(step) \in [step : Steps \ {"new"}, target : Pins \cup {NoPin}]
               /\ At(step).step = step /\ At(step).target = run[r].target
               /\ Await(r, step) => run' = [run EXCEPT ![r] = At(step)]
    BY <1>1, <1>3 DEF Await
  <1> HIDE DEF At
  <1>4. CASE PinRead(r)
    <2> DEFINE v == [step |-> "metadata", target |-> pinned]
    <2>1. /\ v \in [step : Steps \ {"new"}, target : Pins \cup {NoPin}]
          /\ v.step = "metadata" /\ v.target \in Pins
      BY <1>1 DEF Steps
    <2>2. run' = [run EXCEPT ![r] = v] /\ run[r].step = "pin"
      BY <1>4 DEF PinRead
    <2>3. UNCHANGED <<pinned, clone, staged, dest, synced, torn, periodicStatus, timer, syncing, moves>>
      BY <1>4 DEF PinRead, shared
    <2>4. r = "tick" => (syncing' <=> v.step # "none")
      BY <1>2, <2>1, <2>2, <2>3
    <2> HIDE DEF v
    <2> QED BY <1>1, <1>2, <2>1, <2>2, <2>3, <2>4, RunKeeps
  <1>5. CASE MetadataCompared(r)
    <2>1. PICK to \in {"update", "clone"} : Await(r, to)
      BY <1>5 DEF MetadataCompared
    <2>2. run' = [run EXCEPT ![r] = At(to)] /\ At(to).step = to /\ At(to).target \in Pins
          /\ At(to) \in [step : Steps \ {"new"}, target : Pins \cup {NoPin}]
      BY <1>2, <1>3, <1>5, <2>1 DEF MetadataCompared, Steps
    <2> QED BY <1>1, <1>2, <1>5, <2>2, RunKeeps DEF MetadataCompared, shared
  <1>6. CASE CloneOrUpdate(r)
    <2>1. run' = [run EXCEPT ![r] = At("stage")] /\ At("stage").step = "stage" /\ At("stage").target \in Pins
          /\ At("stage") \in [step : Steps \ {"new"}, target : Pins \cup {NoPin}]
      BY <1>2, <1>3, <1>6 DEF CloneOrUpdate, Steps
    <2>2. clone' \in Pins
      BY <1>2, <1>6 DEF CloneOrUpdate
    <2> QED BY <1>1, <1>2, <1>6, <2>1, <2>2, RunKeeps DEF CloneOrUpdate
  <1>7. CASE SkillsStaged(r)
    <2>1. run' = [run EXCEPT ![r] = At("copy")] /\ At("copy").step = "copy" /\ At("copy").target \in Pins
          /\ At("copy") \in [step : Steps \ {"new"}, target : Pins \cup {NoPin}]
      BY <1>2, <1>3, <1>7 DEF SkillsStaged, Steps
    <2>2. staged' \in Pins \cup {NoPin}
      BY <1>1, <1>2, <1>7 DEF SkillsStaged
    <2> QED BY <1>1, <1>2, <1>7, <2>1, <2>2, RunKeeps DEF SkillsStaged
  <1>8. CASE SkillsCopied(r)
    <2>1. run' = [run EXCEPT ![r] = At("update")] /\ At("update").step = "update" /\ At("update").target \in Pins
          /\ At("update") \in [step : Steps \ {"new"}, target : Pins \cup {NoPin}]
      BY <1>2, <1>3, <1>8 DEF SkillsCopied, Steps
    <2>2. dest' \in Pins \cup {NoPin}
      BY <1>1, <1>8 DEF SkillsCopied
    <2> QED BY <1>1, <1>2, <1>8, <2>1, <2>2, RunKeeps DEF SkillsCopied
  <1>9. CASE MetadataUpdated(r) \/ DeskStepFails(r)
    <2>1. PICK outcome \in {"synced", "error"} : Ends(r, outcome)
      BY <1>9 DEF MetadataUpdated, DeskStepFails
    <2>2. /\ run' = [run EXCEPT ![r] = At("none")] /\ At("none").step = "none"
          /\ At("none") \in [step : Steps \ {"new"}, target : Pins \cup {NoPin}]
      BY <1>3, <2>1 DEF Ends, Steps
    <2>3. /\ periodicStatus' \in {"idle", "syncing", "synced", "error"}
          /\ syncing' \in BOOLEAN
          /\ r = "tick" => ~syncing'
          /\ r # "tick" => syncing' = syncing
      BY <1>1, <2>1 DEF Ends
    <2>4. /\ UNCHANGED <<pinned, timer>>
          /\ clone' \in {clone} \cup Pins
          /\ staged' \in Pins \cup {NoPin} /\ dest' \in Pins \cup {NoPin} /\ torn' \in BOOLEAN
          /\ synced' \in Pins \cup {NoPin}
          /\ moves' \in [pins : Nat, faults : Nat, periodic : Nat]
      <3>1. CASE MetadataUpdated(r)
        BY <1>1, <3>1 DEF MetadataUpdated
      <3>2. CASE DeskStepFails(r)
        BY <1>1, <1>2, <3>2 DEF DeskStepFails
      <3> QED BY <1>9, <3>1, <3>2
    <2> QED BY <1>1, <2>2, <2>3, <2>4, RunKeeps
  <1> QED BY <1>4, <1>5, <1>6, <1>7, <1>8, <1>9 DEF RunProceeds

LEMMA PeriodicKeeps ==
  ASSUME DeskInv, StartupSync \/ Start \/ Stop \/ TickFires \/ PinMoves
  PROVE  DeskInv'
  <1>1. /\ run \in [Runs -> [step : Steps, target : Pins \cup {NoPin}]]
        /\ pinned \in Pins /\ synced \in Pins \cup {NoPin} /\ clone \in Pins \cup {NoPin}
        /\ staged \in Pins \cup {NoPin} /\ dest \in Pins \cup {NoPin} /\ torn \in BOOLEAN
        /\ periodicStatus \in {"idle", "syncing", "synced", "error"}
        /\ timer \in BOOLEAN /\ syncing \in BOOLEAN
        /\ moves \in [pins : Nat, faults : Nat, periodic : Nat]
        /\ "startup" \in Runs /\ "tick" \in Runs
    BY DEF DeskInv, DeskTypeOK, Steps, Runs
  <1>2. ASSUME NEW r \in Runs, Await(r, "pin"), UNCHANGED shared, UNCHANGED <<timer, moves>>,
               periodicStatus' \in {"idle", "syncing", "synced", "error"},
               r = "tick" => syncing' = TRUE, r # "tick" => syncing' = syncing
        PROVE  DeskInv'
    <2> DEFINE v == [run[r] EXCEPT !.step = "pin"]
    <2>1. v \in [step : Steps \ {"new"}, target : Pins \cup {NoPin}] /\ v.step = "pin"
      BY <1>1 DEF Steps
    <2>2. run' = [run EXCEPT ![r] = v]
      BY <1>2 DEF Await
    <2> HIDE DEF v
    <2> QED BY <1>1, <1>2, <2>1, <2>2, RunKeeps DEF shared
  <1>3. CASE StartupSync
    BY <1>1, <1>2, <1>3 DEF StartupSync
  <1>4. CASE TickFires
    BY <1>1, <1>2, <1>4 DEF TickFires
  <1>5. CASE Start \/ Stop
    <2>1. UNCHANGED <<shared, run, syncing>> /\ timer' \in BOOLEAN
      BY <1>1, <1>5 DEF Start, Stop
    <2>2. periodicStatus' \in {"idle", "syncing", "synced", "error"}
      BY <1>1, <1>5 DEF Start, Stop
    <2>3. moves' \in [pins : Nat, faults : Nat, periodic : Nat]
      BY <1>1, <1>5 DEF Start, Stop
    <2> QED BY <2>1, <2>2, <2>3 DEF shared, DeskInv, DeskTypeOK, Targeted, TicksExclude
  <1>6. CASE PinMoves
    BY <1>1, <1>6 DEF PinMoves, DeskInv, DeskTypeOK, Targeted, TicksExclude
  <1> QED BY <1>3, <1>4, <1>5, <1>6

LEMMA DeskStep == DeskInv /\ [DeskNext]_deskVars => DeskInv'
  <1> SUFFICES ASSUME DeskInv, [DeskNext]_deskVars PROVE DeskInv'
    OBVIOUS
  <1>1. CASE UNCHANGED deskVars
    BY <1>1 DEF deskVars, shared, DeskInv, DeskTypeOK, Targeted, TicksExclude
  <1>2. CASE DeskNext
    BY <1>2, RunProceedsKeeps, PeriodicKeeps DEF DeskNext
  <1> QED BY <1>1, <1>2

(* The desktop's sync is typed, and its timer has one run under way at most:   *)
(* the flag that lets a tick pass is set exactly as long as the run of a tick  *)
(* lasts, whatever it ended with and however often the timer is stopped and    *)
(* started meanwhile (syncLifecycle.ts:72-86).                                *)
THEOREM DeskTypeCorrect == DeskSpec => [](DeskTypeOK /\ TicksExclude)
  <1>1. DeskInv => DeskTypeOK /\ TicksExclude
    BY DEF DeskInv
  <1> QED BY <1>1, DeskStarts, DeskStep, PTL DEF DeskSpec

-----------------------------------------------------------------------------
(* Verification of a handoff.                                               *)

(* As many artifacts as were sent, all of them among those sent, and none    *)
(* missing: then none came twice.  The check counts and looks for missing    *)
(* ids, but never compares two artifacts.                                    *)
LEMMA CountsSuffice ==
  ASSUME artifacts \in Arrivals(Artifacts \cup {Damaged}),
         ~ManifestMismatch, ~DecryptionFailed, MissingArtifacts = {}
  PROVE  /\ RangeOf(artifacts) = Artifacts
         /\ \A i, j \in DOMAIN artifacts : artifacts[i] = artifacts[j] => i = j
  <1>1. PICK n \in 0..MaxParts : artifacts \in [1..n -> Artifacts \cup {Damaged}]
    BY DEF Arrivals
  <1>2. n \in Nat /\ DOMAIN artifacts = 1..n
    BY <1>1, TransferAssumption
  <1>3. Len(artifacts) = n
    BY <1>1, <1>2
  <1>4. RangeOf(artifacts) = Artifacts
    BY <1>1, <1>2 DEF DecryptionFailed, MissingArtifacts, RangeOf
  <1>5. artifacts \in Surjection(1..n, Artifacts)
    BY <1>1, <1>2, <1>4 DEF RangeOf, Surjection
  <1>6. IsFiniteSet(1..n) /\ Cardinality(1..n) = Cardinality(Artifacts)
    BY <1>2, <1>3, FS_Interval DEF ManifestMismatch
  <1>7. artifacts \in Injection(1..n, Artifacts)
    BY <1>5, <1>6, FS_SurjSameCardinalityImpliesInj
  <1> QED BY <1>2, <1>4, <1>7 DEF Injection, IsInjective

Errors == {"UNKNOWN", "DECRYPTION_FAILED", "INTEGRITY_MISMATCH",
           "MANIFEST_MISMATCH", "MISSING_ARTIFACT", "INVALID_SCHEMA"}

VInv == VerifyTypeOK /\ AcceptedIsSent

LEMMA VerifyStarts == VerifyInit => VInv
  BY DEF VerifyInit, VInv, VerifyTypeOK, AcceptedIsSent

LEMMA VerifyStep == VInv /\ [VerifyNext]_verifyVars => VInv'
  <1> SUFFICES ASSUME VInv, [VerifyNext]_verifyVars PROVE VInv'
    OBVIOUS
  <1>1. CASE Verify
    <2>1. UNCHANGED <<chunks, artifacts, sender, rebuilt>>
      BY <1>1 DEF Verify
    <2>2. verdict' \subseteq Errors
      BY <1>1, Zenon DEF Verify, Errors
    <2>3. VerifyTypeOK'
      BY <2>1, <2>2 DEF VInv, VerifyTypeOK, Errors
    <2>4. ASSUME verdict' = {}
          PROVE  Reassembled /\ ~ManifestMismatch /\ ~DecryptionFailed /\ MissingArtifacts = {}
      <3>1. CASE 0 \in RangeOf(chunks)
        BY <1>1, <2>4, <3>1 DEF Verify, DecryptionFailed
      <3>2. CASE 0 \notin RangeOf(chunks)
        BY <1>1, <2>4, <3>2 DEF Verify
      <3> QED BY <3>1, <3>2
    <2>5. AcceptedIsSent'
      BY <2>1, <2>4, CountsSuffice DEF VInv, VerifyTypeOK, AcceptedIsSent, Reassembled, RangeOf
    <2> QED BY <2>3, <2>5 DEF VInv
  <1>2. CASE ReconstructSession
    BY <1>2 DEF ReconstructSession, VInv, VerifyTypeOK, AcceptedIsSent, Reassembled, RangeOf
  <1>3. CASE UNCHANGED verifyVars
    BY <1>3 DEF verifyVars, VInv, VerifyTypeOK, AcceptedIsSent, Reassembled, RangeOf
  <1> QED BY <1>1, <1>2, <1>3 DEF VerifyNext

(* Every reachable state of the check is typed. *)
THEOREM VerifyTypeCorrect == VerifySpec => []VerifyTypeOK
  <1>1. VInv => VerifyTypeOK
    BY DEF VInv
  <1> QED BY <1>1, VerifyStarts, VerifyStep, PTL DEF VerifySpec

(* A transfer in which verifySnapshot finds no error is the one that was     *)
(* sent, for any number of parts (handoffVerification.ts:134, :177-231).     *)
THEOREM AcceptedWasSent == VerifySpec => []AcceptedIsSent
  <1>1. VInv => AcceptedIsSent
    BY DEF VInv
  <1> QED BY <1>1, VerifyStarts, VerifyStep, PTL DEF VerifySpec

-----------------------------------------------------------------------------
(* All of them together.                                                    *)

(* Every part keeps its invariant, whichever part the initial state picked. *)
ServicesInv == SyncInv /\ DeskInv /\ RefreshInv /\ EmitterInv /\ VInv /\ RInv

LEMMA ServicesStart == ServicesInit => ServicesInv
  BY SyncStartsTyped, DeskStarts, RefreshStarts, EmitterStarts, VerifyStarts, ReconStarts
     DEF ServicesInit, ServicesInv

LEMMA ServicesStep == ServicesInv /\ [ServicesNext]_servicesVars => ServicesInv'
  <1>1. [ServicesNext]_servicesVars =>
           /\ [SyncNext]_syncVars /\ [DeskNext]_deskVars /\ [QueuesNext]_queueVars
           /\ [VerifyNext]_verifyVars /\ [ReconNext]_reconVars
    BY DEF ServicesNext, Serves, servicesVars
  <1> QED BY <1>1, SyncStep, DeskStep, RefreshStep, EmitterStep, VerifyStep, ReconStep DEF ServicesInv

(* Together, too, all services stay typed, whatever part moves. *)
THEOREM ServicesTypeCorrect == ServicesSpec => []ServicesTypeOK
  <1>1. ServicesInv => ServicesTypeOK
    <2>1. RefreshInv /\ EmitterInv => QueuesTypeOK
      BY DEF RefreshInv, RefreshTyped, EmitterInv, EmitterTyped, QueuesTypeOK, Events
    <2> QED BY <2>1 DEF ServicesInv, SyncInv, DeskInv, VInv, RInv, ServicesTypeOK
  <1> QED BY <1>1, ServicesStart, ServicesStep, PTL DEF ServicesSpec
=============================================================================
