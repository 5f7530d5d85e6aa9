------------------------------- MODULE Recon -------------------------------
(***************************************************************************)
(* The sidecar's export of a Recon engagement's directory: scan, gate,       *)
(* override record, archive.  Every export of a client works in the same     *)
(* directory and writes the same archive; any caller may ask for one, with   *)
(* the override or without, while another runs and files are written.  Only  *)
(* files that the scanner reads and the archive takes are modelled.          *)
(***************************************************************************)
EXTENDS Naturals

CONSTANTS
    Exports,      \* calls of recon.export for one directory
    Files,        \* its files
    NoOne,        \* no export
    MaxWrites     \* bound: how often a file is written

ASSUME ReconAssumption == NoOne \notin Exports /\ MaxWrites \in Nat

VARIABLES
    sensitive,    \* files with text that the scanner flags
    export,       \* export[c]: step, override, result of its scan, override record, archive so far
    archive,      \* the zip file: the export that wrote it, sensitive files in it
    lateFiles,    \* history: files written since the export's scan
    writes        \* how often a file was written

reconVars == <<sensitive, export, archive, lateFiles, writes>>

NewExport ==
    [at |-> "new", override |-> FALSE, found |-> {}, whole |-> FALSE,
     recorded |-> {}, todo |-> {}, packed |-> {}]
Exporting(c) == export[c].at \in {"scanning", "recording", "collecting", "packing"}

ReconInit ==
    /\ sensitive \in SUBSET Files
    /\ export = [c \in Exports |-> NewExport]
    /\ archive = [by |-> NoOne, has |-> {}]
    /\ lateFiles = [c \in Exports |-> {}]
    /\ writes = 0

(* Agents and users write files, with or without something to flag. *)
FileWritten(f) ==
    /\ writes < MaxWrites
    /\ writes' = writes + 1
    /\ sensitive' \in {sensitive \cup {f}, sensitive \ {f}}
    /\ lateFiles' = [c \in Exports |-> lateFiles[c] \cup {f}]
    /\ UNCHANGED <<export, archive>>

ExportCalled(c) ==
    /\ export[c].at = "new"
    /\ \E override \in BOOLEAN :
           export' = [export EXCEPT ![c].at = "scanning", ![c].override = override]
    /\ UNCHANGED <<sensitive, archive, lateFiles, writes>>

(* The scanner ends with 1 and its findings, or with 0 and none; one that    *)
(* breaks ends with 1 and only some of its findings, or none.                *)
ScannerEnds ==
    {[code |-> IF sensitive = {} THEN 0 ELSE 1, findings |-> sensitive]}
        \cup {[code |-> 1, findings |-> some] : some \in SUBSET sensitive}

(* Mutated form of Passed: no findings is a pass, whatever the exit code. *)
PassedByFindings(result) == result.findings = {}

Passed(result) == result.findings = {} /\ result.code = 0

ExportScans(c) ==
    /\ export[c].at = "scanning"
    /\ \E result \in ScannerEnds :
           export' = [export EXCEPT
               ![c].found = result.findings,
               ![c].whole = result.findings = sensitive,
               ![c].at = IF Passed(result) THEN "collecting"
                         ELSE IF export[c].override THEN "recording" ELSE "blocked"]
    /\ lateFiles' = [lateFiles EXCEPT ![c] = {}]
    /\ UNCHANGED <<sensitive, archive, writes>>

(* .scan-overrides.json is written over: an earlier export's record is gone. *)
OverrideRecorded(c) ==
    /\ export[c].at = "recording"
    /\ export' = [export EXCEPT ![c].recorded = export[c].found, ![c].at = "collecting"]
    /\ UNCHANGED <<sensitive, archive, lateFiles, writes>>

FilesCollected(c) ==
    /\ export[c].at = "collecting"
    /\ export' = [export EXCEPT ![c].todo = Files, ![c].at = "packing"]
    /\ UNCHANGED <<sensitive, archive, lateFiles, writes>>

(* Each file is read as it is by now. *)
FilePacked(c, f) ==
    /\ export[c].at = "packing" /\ f \in export[c].todo
    /\ export' = [export EXCEPT ![c].todo = @ \ {f}, ![c].packed = @ \cup ({f} \cap sensitive)]
    /\ UNCHANGED <<sensitive, archive, lateFiles, writes>>

ArchiveWritten(c) ==
    /\ export[c].at = "packing" /\ export[c].todo = {}
    /\ archive' = [by |-> c, has |-> export[c].packed]
    /\ export' = [export EXCEPT ![c].at = "exported"]
    /\ UNCHANGED <<sensitive, lateFiles, writes>>

(* The scanner cannot be started, a file cannot be read or written; the       *)
(* archive may have been written in part by then.                            *)
ExportFails(c) ==
    /\ Exporting(c)
    /\ export' = [export EXCEPT ![c].at = "failed"]
    /\ \/ UNCHANGED archive
       \/ /\ export[c].at = "packing" /\ export[c].todo = {}
          /\ archive' = [by |-> c, has |-> export[c].packed]
    /\ UNCHANGED <<sensitive, lateFiles, writes>>

ReconNext ==
    \/ \E f \in Files : FileWritten(f)
    \/ \E c \in Exports :
        \/ ExportCalled(c)
        \/ ExportScans(c)
        \/ OverrideRecorded(c)
        \/ FilesCollected(c)
        \/ \E f \in Files : FilePacked(c, f)
        \/ ArchiveWritten(c)
        \/ ExportFails(c)

ReconSpec == ReconInit /\ [][ReconNext]_reconVars

ReconTypeOK ==
    /\ sensitive \subseteq Files
    /\ export \in [Exports ->
           [at : {"new", "scanning", "blocked", "recording", "collecting", "packing", "exported", "failed"},
            override : BOOLEAN, found : SUBSET Files, whole : BOOLEAN,
            recorded : SUBSET Files, todo : SUBSET Files, packed : SUBSET Files]]
    /\ archive \in [by : Exports \cup {NoOne}, has : SUBSET Files]
    /\ lateFiles \in [Exports -> SUBSET Files]
    /\ writes \in Nat

(* A sensitive file in the archive was written after the scan of the export  *)
(* that packed it, or the caller overrode that scan; then it was put on       *)
(* record before, unless the scanner broke before it named the file (what is  *)
(* overridden then is unknown).  It is so whatever other exports of the       *)
(* directory do meanwhile (recon.ts:167-198, :376-396, :529-600).            *)
ExportIsScanned ==
    \A f \in archive.has :
        LET c == archive.by IN
        \/ f \in lateFiles[c]
        \/ export[c].override /\ (f \in export[c].recorded \/ ~export[c].whole)
=============================================================================
