------------------------ MODULE HandoffVerification ------------------------
(***************************************************************************)
(* verifySnapshot and reconstructSession: the receiving side's check of a    *)
(* transfer that may arrive cut, repeated, reordered or damaged.  A part is   *)
(* what it decrypts to.  What was sent is the chunks 1..ChunkCount, in        *)
(* order, and every artifact once.                                           *)
(***************************************************************************)
EXTENDS Naturals, Sequences, FiniteSets

CONSTANTS
    Artifacts,     \* ids of the artifacts the snapshot refers to
    Damaged,       \* an artifact that does not decrypt; a chunk is 0 then
    ChunkCount,    \* chunks of the snapshot
    MaxParts       \* bound: parts of each kind that may arrive

ASSUME TransferAssumption ==
    /\ IsFiniteSet(Artifacts) /\ Damaged \notin Artifacts
    /\ ChunkCount \in Nat \ {0} /\ MaxParts \in Nat

Arrivals(Parts) == UNION {[1..n -> Parts] : n \in 0..MaxParts}

VARIABLES
    chunks,        \* the chunks that arrived, by their index at the sender
    artifacts,     \* the artifacts that arrived
    sender,        \* whether signature, schema version and history are right
    verdict,       \* the errors found, {"UNKNOWN"} before
    rebuilt        \* what reconstructSession made of it

verifyVars == <<chunks, artifacts, sender, verdict, rebuilt>>

VerifyInit ==
    /\ chunks \in Arrivals(0..ChunkCount)
    /\ artifacts \in Arrivals(Artifacts \cup {Damaged})
    /\ sender \in [signed : BOOLEAN, schema : BOOLEAN, history : BOOLEAN]
    /\ verdict = {"UNKNOWN"}
    /\ rebuilt = "none"

-----------------------------------------------------------------------------
RangeOf(s) == {s[i] : i \in DOMAIN s}

DecryptionFailed == 0 \in RangeOf(chunks) \/ Damaged \in RangeOf(artifacts)

(* The chunks, concatenated as they arrived, are the text that was sent. *)
Reassembled == chunks = [i \in 1..ChunkCount |-> i]

ManifestMismatch ==
    \/ Len(chunks) # ChunkCount
    \/ Len(artifacts) # Cardinality(Artifacts)

(* Mutated form of MissingArtifacts: their number is enough. *)
ArtifactsTooFew == {a \in Artifacts : Len(artifacts) < Cardinality(Artifacts)}

MissingArtifacts == Artifacts \ RangeOf(artifacts)

(* All errors are collected.  Chunks that decrypt and are not the text do    *)
(* not parse, or parse to something the signature does not fit.              *)
Verify ==
    /\ verdict = {"UNKNOWN"}
    /\ LET undecrypted == IF DecryptionFailed THEN {"DECRYPTION_FAILED"} ELSE {}
           miscounted == IF ManifestMismatch THEN {"MANIFEST_MISMATCH"} ELSE {}
           unsigned == IF sender.signed THEN {} ELSE {"INTEGRITY_MISMATCH"}
           unknown == IF sender.schema THEN {} ELSE {"INVALID_SCHEMA"}
           missing == IF MissingArtifacts = {} THEN {} ELSE {"MISSING_ARTIFACT"}
       IN \/ 0 \in RangeOf(chunks) /\ verdict' = undecrypted \cup miscounted
          \/ /\ Reassembled
             /\ verdict' = undecrypted \cup miscounted \cup unsigned \cup unknown \cup missing
          \/ /\ 0 \notin RangeOf(chunks) /\ ~Reassembled
             /\ \E error \in {"DECRYPTION_FAILED", "INTEGRITY_MISMATCH"} :
                    verdict' = undecrypted \cup miscounted \cup {error}
    /\ UNCHANGED <<chunks, artifacts, sender, rebuilt>>

(* Called with what verifySnapshot returned if it found no error. *)
ReconstructSession ==
    /\ verdict = {} /\ rebuilt = "none"
    /\ rebuilt' = IF MissingArtifacts = {} /\ sender.history THEN "session" ELSE "thrown"
    /\ UNCHANGED <<chunks, artifacts, sender, verdict>>

VerifyNext == Verify \/ ReconstructSession

VerifySpec == VerifyInit /\ [][VerifyNext]_verifyVars

VerifyTypeOK ==
    /\ chunks \in Arrivals(0..ChunkCount)
    /\ artifacts \in Arrivals(Artifacts \cup {Damaged})
    /\ sender \in [signed : BOOLEAN, schema : BOOLEAN, history : BOOLEAN]
    /\ verdict \subseteq {"UNKNOWN", "DECRYPTION_FAILED", "INTEGRITY_MISMATCH",
                          "MANIFEST_MISMATCH", "MISSING_ARTIFACT", "INVALID_SCHEMA"}
    /\ rebuilt \in {"none", "session", "thrown"}

(* A transfer without errors is the one that was sent: every chunk once and  *)
(* in order, every artifact once and none besides, although chunks carry no  *)
(* order the check looks at and counts are compared apart from ids           *)
(* (handoffVerification.ts:134, :177-231).                                   *)
AcceptedIsSent ==
    verdict = {} =>
        /\ Reassembled
        /\ RangeOf(artifacts) = Artifacts
        /\ \A i, j \in DOMAIN artifacts : artifacts[i] = artifacts[j] => i = j
=============================================================================
