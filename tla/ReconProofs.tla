----------------------------- MODULE ReconProofs -----------------------------
(***************************************************************************)
(* Theorems about Recon's export, for any files and any number of exports of  *)
(* one directory.                                                            *)
(***************************************************************************)
EXTENDS Recon, TLAPS

Export ==
    [at : {"new", "scanning", "blocked", "recording", "collecting", "packing", "exported", "failed"},
     override : BOOLEAN, found : SUBSET Files, whole : BOOLEAN,
     recorded : SUBSET Files, todo : SUBSET Files, packed : SUBSET Files]

-----------------------------------------------------------------------------
(* The inductive invariant, in parts.                                        *)

(* What was there when an export scanned, its scan found, unless it broke. *)
ScanKnows(c) ==
    export[c].at \in {"recording", "collecting", "packing"} =>
        \A f \in sensitive : f \in export[c].found \cup lateFiles[c] \/ ~export[c].whole

(* Past its gate, an export either found nothing in a whole scan, or was      *)
(* asked to override what it found, and put that on record before it packs.   *)
Gated(c) ==
    /\ export[c].at = "recording" => export[c].override
    /\ export[c].at \in {"collecting", "packing"} =>
           \/ export[c].found = {} /\ export[c].whole
           \/ export[c].override /\ export[c].recorded = export[c].found

(* Accounted for: late, or overridden and on record or in a broken scan. *)
Excused(c, f) ==
    \/ f \in lateFiles[c]
    \/ export[c].override /\ (f \in export[c].recorded \/ ~export[c].whole)

(* Nothing is packed before the scan, and only what is accounted for after. *)
PackedIsExcused(c) ==
    /\ export[c].at \in {"new", "scanning", "recording", "collecting"} => export[c].packed = {}
    /\ \A f \in export[c].packed : Excused(c, f)

(* The archive is of an export that has ended. *)
ArchiveIsExcused ==
    \A f \in archive.has :
        /\ archive.by \in Exports
        /\ export[archive.by].at \in {"exported", "failed"}
        /\ Excused(archive.by, f)

RInv ==
    /\ ReconTypeOK
    /\ \A c \in Exports : ScanKnows(c) /\ Gated(c) /\ PackedIsExcused(c)
    /\ ArchiveIsExcused

LEMMA ReconStarts == ReconInit => RInv
  <1> SUFFICES ASSUME ReconInit PROVE RInv
    OBVIOUS
  <1>1. NewExport \in Export /\ NewExport.at = "new" /\ NewExport.packed = {}
    BY DEF NewExport, Export
  <1>2. export \in [Exports -> Export] /\ \A c \in Exports : export[c] = NewExport
    BY <1>1 DEF ReconInit
  <1>3. ReconTypeOK
    BY <1>2 DEF ReconInit, ReconTypeOK, Export
  <1>4. ArchiveIsExcused
    BY DEF ReconInit, ArchiveIsExcused
  <1> QED BY <1>1, <1>2, <1>3, <1>4 DEF RInv, ScanKnows, Gated, PackedIsExcused

(* A file that is written is late for every export. *)
LEMMA WriteKeeps == ASSUME RInv, NEW f \in Files, FileWritten(f) PROVE RInv'
  <1>1. /\ UNCHANGED <<export, archive>> /\ writes' \in Nat
        /\ sensitive' \subseteq Files /\ sensitive' \subseteq sensitive \cup {f}
        /\ lateFiles' \in [Exports -> SUBSET Files]
        /\ \A c \in Exports : lateFiles'[c] = lateFiles[c] \cup {f}
    BY DEF FileWritten, RInv, ReconTypeOK
  <1>2. ReconTypeOK'
    BY <1>1 DEF RInv, ReconTypeOK
  <1>3. ASSUME NEW c \in Exports PROVE (ScanKnows(c) /\ Gated(c) /\ PackedIsExcused(c))'
    BY <1>1, <1>3 DEF RInv, ScanKnows, Gated, PackedIsExcused, Excused
  <1>4. ArchiveIsExcused'
    BY <1>1 DEF RInv, ArchiveIsExcused, Excused
  <1> QED BY <1>2, <1>3, <1>4 DEF RInv

(* An export that ends or goes on keeps the others' parts, and the archive,   *)
(* as long as it had not ended.                                              *)
LEMMA OneExportKeeps ==
  ASSUME RInv, NEW c \in Exports, NEW v \in Export,
         export' = [export EXCEPT ![c] = v], sensitive' = sensitive, writes' = writes,
         lateFiles' \in [Exports -> SUBSET Files], \A d \in Exports \ {c} : lateFiles'[d] = lateFiles[d],
         export[c].at \notin {"exported", "failed"},
         (ScanKnows(c) /\ Gated(c) /\ PackedIsExcused(c))',
         \/ archive' = archive
         \/ archive' = [by |-> c, has |-> v.packed] /\ v.at \in {"exported", "failed"}
  PROVE  RInv'
  <1>1. /\ export \in [Exports -> Export] /\ export' \in [Exports -> Export]
        /\ export'[c] = v /\ \A d \in Exports \ {c} : export'[d] = export[d]
    BY DEF RInv, ReconTypeOK, Export
  <1>2. archive' \in [by : Exports \cup {NoOne}, has : SUBSET Files]
    BY DEF RInv, ReconTypeOK, Export
  <1>3. ReconTypeOK'
    BY <1>1, <1>2 DEF RInv, ReconTypeOK, Export
  <1>4. ASSUME NEW d \in Exports PROVE (ScanKnows(d) /\ Gated(d) /\ PackedIsExcused(d))'
    <2>1. CASE d = c
      BY <2>1
    <2>2. CASE d # c
      BY <1>1, <2>2 DEF RInv, ScanKnows, Gated, PackedIsExcused, Excused
    <2> QED BY <2>1, <2>2
  <1>5. ArchiveIsExcused'
    <2>1. CASE archive' = archive
      BY <1>1, <2>1 DEF RInv, ArchiveIsExcused, Excused
    <2>2. CASE archive' = [by |-> c, has |-> v.packed] /\ v.at \in {"exported", "failed"}
      BY <1>1, <2>2 DEF PackedIsExcused, ArchiveIsExcused, Excused
    <2> QED BY <2>1, <2>2
  <1> QED BY <1>3, <1>4, <1>5 DEF RInv

(* The scan: what it leaves out of a whole result was not there.              *)
LEMMA ScanKeeps == ASSUME RInv, NEW c \in Exports, ExportScans(c) PROVE RInv'
  <1>1. /\ export \in [Exports -> Export] /\ export[c] \in Export
        /\ lateFiles \in [Exports -> SUBSET Files] /\ sensitive \subseteq Files
        /\ export[c].packed = {} /\ export[c].at = "scanning"
    BY DEF ExportScans, RInv, ReconTypeOK, Export, PackedIsExcused
  <1>2. PICK result \in ScannerEnds :
           export' = [export EXCEPT
               ![c].found = result.findings,
               ![c].whole = result.findings = sensitive,
               ![c].at = IF Passed(result) THEN "collecting"
                         ELSE IF export[c].override THEN "recording" ELSE "blocked"]
    BY DEF ExportScans
  <1>3. /\ result.findings \subseteq sensitive
        /\ Passed(result) => sensitive = {} /\ result.findings = {}
    BY DEF ScannerEnds, Passed
  <1> DEFINE v == [export[c] EXCEPT
               !.found = result.findings,
               !.whole = result.findings = sensitive,
               !.at = IF Passed(result) THEN "collecting"
                      ELSE IF export[c].override THEN "recording" ELSE "blocked"]
  <1>4. export' = [export EXCEPT ![c] = v]
    BY <1>1, <1>2
  <1>5. /\ v \in Export /\ v.packed = {} /\ v.override = export[c].override
        /\ v.found = result.findings /\ v.whole = (result.findings = sensitive)
        /\ v.at = "collecting" => Passed(result)
        /\ v.at = "recording" => v.override
        /\ v.at \in {"collecting", "recording", "blocked"}
    BY <1>1, <1>3 DEF Export
  <1> HIDE DEF v
  <1>6. export'[c] = v /\ UNCHANGED <<sensitive, archive, writes>>
        /\ lateFiles' \in [Exports -> SUBSET Files] /\ \A d \in Exports \ {c} : lateFiles'[d] = lateFiles[d]
    BY <1>1, <1>4 DEF ExportScans
  <1>7. (ScanKnows(c) /\ Gated(c) /\ PackedIsExcused(c))'
    BY <1>3, <1>5, <1>6 DEF ScanKnows, Gated, PackedIsExcused
  <1> QED BY <1>1, <1>4, <1>5, <1>6, <1>7, OneExportKeeps

(* The other steps of an export leave what it found and who is late.          *)
LEMMA ExportKeeps ==
  ASSUME RInv, NEW c \in Exports,
         \/ ExportCalled(c) \/ OverrideRecorded(c) \/ FilesCollected(c)
         \/ (\E f \in Files : FilePacked(c, f)) \/ ArchiveWritten(c) \/ ExportFails(c)
  PROVE  RInv'
  <1>1. /\ export \in [Exports -> Export] /\ export[c] \in Export
        /\ lateFiles \in [Exports -> SUBSET Files] /\ sensitive \subseteq Files
        /\ ScanKnows(c) /\ Gated(c) /\ PackedIsExcused(c)
    BY DEF RInv, ReconTypeOK, Export
  <1>2. UNCHANGED <<sensitive, lateFiles, writes>>
    BY DEF ExportCalled, OverrideRecorded, FilesCollected, FilePacked, ArchiveWritten, ExportFails
  <1>3. ASSUME NEW v \in Export, export' = [export EXCEPT ![c] = v],
               export[c].at \notin {"exported", "failed"},
               \/ archive' = archive
               \/ archive' = [by |-> c, has |-> v.packed] /\ v.at \in {"exported", "failed"},
               export'[c] = v => (ScanKnows(c) /\ Gated(c) /\ PackedIsExcused(c))'
        PROVE  RInv'
    BY <1>1, <1>2, <1>3, OneExportKeeps
  <1>4. CASE ExportCalled(c)
    <2>1. PICK override \in BOOLEAN :
             export' = [export EXCEPT ![c].at = "scanning", ![c].override = override]
      BY <1>4 DEF ExportCalled
    <2> DEFINE v == [export[c] EXCEPT !.at = "scanning", !.override = override]
    <2>2. /\ v \in Export /\ v.at = "scanning" /\ v.packed = {}
          /\ export' = [export EXCEPT ![c] = v]
      BY <1>1, <1>4, <2>1 DEF Export, ExportCalled, PackedIsExcused
    <2> HIDE DEF v
    <2>3. export'[c] = v => (ScanKnows(c) /\ Gated(c) /\ PackedIsExcused(c))'
      BY <2>2 DEF ScanKnows, Gated, PackedIsExcused
    <2> QED BY <1>3, <1>4, <2>2, <2>3 DEF ExportCalled
  <1>5. CASE OverrideRecorded(c)
    <2> DEFINE v == [export[c] EXCEPT !.recorded = export[c].found, !.at = "collecting"]
    <2>1. /\ v \in Export /\ v.at = "collecting" /\ v.packed = {} /\ v.override
          /\ v.recorded = v.found /\ v.found = export[c].found /\ v.whole = export[c].whole
          /\ export' = [export EXCEPT ![c] = v]
      BY <1>1, <1>5 DEF Export, OverrideRecorded, PackedIsExcused, Gated
    <2> HIDE DEF v
    <2>2. export'[c] = v => (ScanKnows(c) /\ Gated(c) /\ PackedIsExcused(c))'
      BY <1>1, <1>2, <1>5, <2>1 DEF OverrideRecorded, ScanKnows, Gated, PackedIsExcused
    <2> QED BY <1>3, <1>5, <2>1, <2>2 DEF OverrideRecorded
  <1>6. CASE FilesCollected(c)
    <2> DEFINE v == [export[c] EXCEPT !.todo = Files, !.at = "packing"]
    <2>1. /\ v \in Export /\ v.at = "packing" /\ v.packed = {}
          /\ v.recorded = export[c].recorded /\ v.override = export[c].override
          /\ v.found = export[c].found /\ v.whole = export[c].whole
          /\ export' = [export EXCEPT ![c] = v]
      BY <1>1, <1>6 DEF Export, FilesCollected, PackedIsExcused
    <2> HIDE DEF v
    <2>2. export'[c] = v => (ScanKnows(c) /\ Gated(c) /\ PackedIsExcused(c))'
      BY <1>1, <1>2, <1>6, <2>1 DEF FilesCollected, ScanKnows, Gated, PackedIsExcused
    <2> QED BY <1>3, <1>6, <2>1, <2>2 DEF FilesCollected
  <1>7. CASE \E f \in Files : FilePacked(c, f)
    <2>1. PICK f \in Files : FilePacked(c, f)
      BY <1>7
    <2> DEFINE v == [export[c] EXCEPT !.todo = @ \ {f}, !.packed = @ \cup ({f} \cap sensitive)]
    <2>2. /\ v \in Export /\ v.at = "packing" /\ v.packed = export[c].packed \cup ({f} \cap sensitive)
          /\ v.recorded = export[c].recorded /\ v.override = export[c].override
          /\ v.found = export[c].found /\ v.whole = export[c].whole
          /\ export' = [export EXCEPT ![c] = v]
      BY <1>1, <2>1 DEF Export, FilePacked
    <2>3. f \in sensitive => Excused(c, f)
      BY <1>1, <2>1 DEF FilePacked, ScanKnows, Gated, Excused
    <2> HIDE DEF v
    <2>4. export'[c] = v => (ScanKnows(c) /\ Gated(c) /\ PackedIsExcused(c))'
      BY <1>1, <1>2, <2>1, <2>2, <2>3 DEF FilePacked, ScanKnows, Gated, PackedIsExcused, Excused
    <2> QED BY <1>3, <2>1, <2>2, <2>4 DEF FilePacked
  <1>8. CASE ArchiveWritten(c) \/ ExportFails(c)
    <2>1. PICK end \in {"exported", "failed"} : export' = [export EXCEPT ![c].at = end]
      BY <1>8 DEF ArchiveWritten, ExportFails
    <2> DEFINE v == [export[c] EXCEPT !.at = end]
    <2>2. /\ v \in Export /\ v.at = end /\ v.packed = export[c].packed
          /\ v.recorded = export[c].recorded /\ v.override = export[c].override
          /\ v.whole = export[c].whole
          /\ export' = [export EXCEPT ![c] = v]
      BY <1>1, <2>1 DEF Export
    <2> HIDE DEF v
    <2>3. export'[c] = v => (ScanKnows(c) /\ Gated(c) /\ PackedIsExcused(c))'
      BY <1>1, <1>2, <2>2 DEF ScanKnows, Gated, PackedIsExcused, Excused
    <2>4. /\ export[c].at \notin {"exported", "failed"}
          /\ archive' = archive \/ archive' = [by |-> c, has |-> v.packed]
      BY <1>8, <2>2 DEF ArchiveWritten, ExportFails, Exporting
    <2> QED BY <1>3, <2>2, <2>3, <2>4
  <1> QED BY <1>4, <1>5, <1>6, <1>7, <1>8

LEMMA ReconStep == RInv /\ [ReconNext]_reconVars => RInv'
  <1> SUFFICES ASSUME RInv, [ReconNext]_reconVars PROVE RInv'
    OBVIOUS
  <1>1. CASE UNCHANGED reconVars
    BY <1>1 DEF reconVars, RInv, ReconTypeOK, ScanKnows, Gated, PackedIsExcused, ArchiveIsExcused,
       Excused
  <1>2. CASE ReconNext
    BY <1>2, WriteKeeps, ScanKeeps, ExportKeeps DEF ReconNext
  <1> QED BY <1>1, <1>2

-----------------------------------------------------------------------------
(* Every reachable state of the export is typed. *)
THEOREM ReconTypeCorrect == ReconSpec => []ReconTypeOK
  <1>1. RInv => ReconTypeOK
    BY DEF RInv
  <1> QED BY <1>1, ReconStarts, ReconStep, PTL DEF ReconSpec

(* No archive has text the scanner flags but what came after the scan of the  *)
(* export that packed it, or what its caller overrode and the sidecar put on   *)
(* record first, or could not know because the scanner broke; for any number   *)
(* of exports of the directory at once (recon.ts:376-396, :529-600).          *)
THEOREM ExportsAreScanned == ReconSpec => []ExportIsScanned
  <1>1. RInv => ExportIsScanned
    BY DEF RInv, ArchiveIsExcused, Excused, ExportIsScanned
  <1> QED BY <1>1, ReconStarts, ReconStep, PTL DEF ReconSpec
=============================================================================
