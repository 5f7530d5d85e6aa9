----------------------------- MODULE MCServices -----------------------------
(***************************************************************************)
(* Parts of the desktop that share no state, checked in one run: an initial   *)
(* state picks the part that moves, if any, the others stay where they are.   *)
(***************************************************************************)
EXTENDS SkillSync, DesktopSync, ControlPlaneQueues, HandoffVerification, Recon

CONSTANTS p1, p2, f1, f2, v1, v2, t1, t2, a1, a2, e1, e2

MCTree ==
    [v \in {v1, v2} |-> [f \in {f1, f2} |-> IF v = v1 THEN t1 ELSE IF f = f1 THEN t2 ELSE NoText]]

VARIABLE service   \* the part that moves
servicesVars == <<service, syncVars, deskVars, queueVars, verifyVars, reconVars>>

(* Parts with many initial states have one when another part moves. *)
AtRest ==
    /\ service # "desktop sync" => pinned = v1
    /\ service # "verification" =>
           chunks = <<>> /\ artifacts = <<>> /\ sender.signed /\ sender.schema /\ sender.history
    /\ service # "recon" => sensitive = {}

ServicesInit ==
    /\ service \in {"skill sync", "desktop sync", "queues", "verification", "recon", "none"}
    /\ VerifyInit /\ DeskInit /\ ReconInit /\ AtRest /\ SyncInit /\ QueuesInit

Serves(name, next) == service = name /\ next /\ UNCHANGED service

ServicesNext ==
    \/ /\ Serves("skill sync", SyncNext)
       /\ UNCHANGED <<deskVars, queueVars, verifyVars, reconVars>>
    \/ /\ Serves("desktop sync", DeskNext)
       /\ UNCHANGED <<syncVars, queueVars, verifyVars, reconVars>>
    \/ /\ Serves("queues", QueuesNext)
       /\ UNCHANGED <<syncVars, deskVars, verifyVars, reconVars>>
    \/ /\ Serves("verification", VerifyNext)
       /\ UNCHANGED <<syncVars, deskVars, queueVars, reconVars>>
    \/ /\ Serves("recon", ReconNext)
       /\ UNCHANGED <<syncVars, deskVars, queueVars, verifyVars>>

ServicesFairness == DeskFairness /\ QueuesFairness
ServicesSpec == ServicesInit /\ [][ServicesNext]_servicesVars /\ ServicesFairness

ServicesTypeOK == SyncTypeOK /\ DeskTypeOK /\ QueuesTypeOK /\ VerifyTypeOK /\ ReconTypeOK
=============================================================================
