----------------------------- MODULE DriftSignals -----------------------------
(***************************************************************************)
(* Drift of a session: the sidecar counts what a task branch touches and       *)
(* notifies, the host turns the notification into an event, the pages listen.  *)
(*                                                                         *)
(* Dismissals are left out: the pages tell the detector of none, so that none  *)
(* is ever in dismissedFingerprints.  Both pages are taken to be open.        *)
(***************************************************************************)
EXTENDS Naturals, FiniteSets, Sequences

CONSTANTS
    Branches,                                         \* sessions, each with one task branch at a time
    Paths, DirOf, TopicOf, Other,                     \* paths, their first segment, their topic
    DirThreshold, TopicThreshold, ElapsedThreshold,   \* DriftThresholds
    MaxTicks                                          \* bound

ASSUME DriftAssumption ==
    /\ DirOf \in [Paths -> Paths] /\ TopicOf \in [Paths -> Paths \cup {Other}]
    /\ {DirThreshold, TopicThreshold, ElapsedThreshold, MaxTicks} \subseteq Nat

Uncreated == MaxTicks + 1
PagesThatListen == {"sessions", "sites"}

VARIABLES
    ticks,      \* time
    born,       \* born[b]: createdAt of its row
    observed,   \* observed[b]: observedPaths of the detector
    notices,    \* notifications on the sidecar's standard output: branch and confidence
    banners     \* banners[page]: the branches a banner is shown for

driftVars == <<ticks, born, observed, notices, banners>>

DriftInit ==
    /\ ticks = 0 /\ born = [b \in Branches |-> Uncreated]
    /\ observed = [b \in Branches |-> {}]
    /\ notices = {} /\ banners = [page \in PagesThatListen |-> {}]

Confidences == {"none", "low", "high"}

Directories(paths) == {DirOf[f] : f \in paths}
Topics(paths) == {TopicOf[f] : f \in paths} \ {Other}

(* evaluateHeuristics and the confidence of its result. *)
Confidence(paths, elapsed) ==
    LET exceeded == {d \in {"directories"} : Cardinality(Directories(paths)) >= DirThreshold}
                    \cup {d \in {"topics"} : Cardinality(Topics(paths)) >= TopicThreshold}
                    \cup {d \in {"elapsed"} : elapsed >= ElapsedThreshold}
    IN  CASE exceeded = {}              -> "none"
          [] Cardinality(exceeded) = 1  -> "low"
          [] OTHER                      -> "high"

-----------------------------------------------------------------------------
(* In managed mode the session's first modification makes the row, after the  *)
(* detector looked for one.                                                  *)
BranchCreated(b) ==
    /\ born[b] = Uncreated
    /\ born' = [born EXCEPT ![b] = ticks]
    /\ UNCHANGED <<ticks, observed, notices, banners>>

FileModified(b, f) ==
    /\ born[b] # Uncreated
    /\ LET paths == observed[b] \cup {f}
           confidence == Confidence(paths, ticks - born[b])
       IN  /\ observed' = [observed EXCEPT ![b] = paths]
           /\ notices' = IF confidence = "none" THEN notices
                         ELSE notices \cup {[branch |-> b, confidence |-> confidence]}
    /\ UNCHANGED <<ticks, born, banners>>

(* session.delete; the session's next modification makes a new row. *)
SessionDeleted(b) ==
    /\ born[b] # Uncreated
    /\ born' = [born EXCEPT ![b] = Uncreated]
    /\ observed' = [observed EXCEPT ![b] = {}]
    /\ UNCHANGED <<ticks, notices, banners>>

(* What was observed is in the sidecar's memory only. *)
DetectorRestarts ==
    /\ observed # [b \in Branches |-> {}]
    /\ observed' = [b \in Branches |-> {}] /\ notices' = {}
    /\ UNCHANGED <<ticks, born, banners>>

TimePasses ==
    /\ ticks < MaxTicks /\ ticks' = ticks + 1
    /\ UNCHANGED <<born, observed, notices, banners>>

-----------------------------------------------------------------------------
EventOf(method) ==
    CASE method = "state.serverChanged"      -> "state:server-changed"
      [] method = "state.syncCompleted"      -> "state:sync-completed"
      [] method = "state.governanceDecision" -> "state:governance-decision"
      [] method = "state.error"              -> "state:error"
      [] OTHER                               -> "sidecar:" \o method

(* The sites page shows a banner for a confident signal only. *)
ListensTo(page, event, confidence) ==
    event = "state.driftSignal" /\ (page = "sites" => confidence = "high")

NoticeEmitted(n) ==
    /\ n \in notices
    /\ notices' = notices \ {n}
    /\ banners' = [page \in PagesThatListen |->
                     IF ListensTo(page, EventOf("state.driftSignal"), n.confidence)
                     THEN banners[page] \cup {n.branch} ELSE banners[page]]
    /\ UNCHANGED <<ticks, born, observed>>

Notices == [branch : Branches, confidence : Confidences \ {"none"}]

DriftNext ==
    \/ \E b \in Branches :
        BranchCreated(b) \/ SessionDeleted(b) \/ \E f \in Paths : FileModified(b, f)
    \/ DetectorRestarts \/ TimePasses
    \/ \E n \in Notices : NoticeEmitted(n)

DriftSpec == DriftInit /\ [][DriftNext]_driftVars

DriftFairness == \A n \in Notices : WF_driftVars(NoticeEmitted(n))

DriftTypeOK ==
    /\ ticks \in 0..MaxTicks /\ born \in [Branches -> 0..Uncreated]
    /\ observed \in [Branches -> SUBSET Paths]
    /\ notices \subseteq Notices
    /\ banners \in [PagesThatListen -> SUBSET Branches]

(* A confident signal reaches the user, unless the sidecar stops first:       *)
(* "Given a high-confidence drift signal [...], When the signal is surfaced,  *)
(* Then an assertive inline prompt appears" (kitty-specs/                     *)
(* 006-managed-git-sessions/spec.md:82), here as a banner of the sessions     *)
(* page.                                                                     *)
DriftIsShown ==
    \A b \in Branches :
        [branch |-> b, confidence |-> "high"] \in notices
            ~> \/ b \in banners["sessions"]
               \/ observed = [c \in Branches |-> {}]
=============================================================================
