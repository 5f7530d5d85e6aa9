--------------------------- MODULE HandoffContract ---------------------------
(***************************************************************************)
(* What executeHandoff promises its callers: at most one transfer of a      *)
(* session at a time, every call either refused, failed or completed, and   *)
(* completed only when the cloud has the session.  A failed call promises   *)
(* nothing about the cloud, which may get the session before or after the   *)
(* desktop gives up.                                                        *)
(***************************************************************************)
CONSTANTS Sessions, Calls, NoSession

VARIABLES
    phase,      \* "idle", "refused", "running", "completed" or "failed"
    claim,      \* the session each call asked to transfer
    delivered   \* calls whose session the cloud started

vars == <<phase, claim, delivered>>

Init ==
    /\ phase = [c \in Calls |-> "idle"]
    /\ claim = [c \in Calls |-> NoSession]
    /\ delivered = {}

(* A session is free when no running call claims it. *)
Free(s) == \A c \in Calls : phase[c] = "running" => claim[c] # s

Claim(c, s) ==
    /\ phase[c] = "idle" /\ Free(s)
    /\ phase' = [phase EXCEPT ![c] = "running"]
    /\ claim' = [claim EXCEPT ![c] = s]
    /\ UNCHANGED delivered

Refuse(c, s) ==
    /\ phase[c] = "idle"
    /\ phase' = [phase EXCEPT ![c] = "refused"]
    /\ claim' = [claim EXCEPT ![c] = s]
    /\ UNCHANGED delivered

Deliver(c) ==
    /\ phase[c] \in {"running", "failed"}
    /\ delivered' = delivered \cup {c}
    /\ UNCHANGED <<phase, claim>>

Succeed(c) ==
    /\ phase[c] = "running" /\ c \in delivered
    /\ phase' = [phase EXCEPT ![c] = "completed"]
    /\ UNCHANGED <<claim, delivered>>

Fail(c) ==
    /\ phase[c] = "running"
    /\ phase' = [phase EXCEPT ![c] = "failed"]
    /\ UNCHANGED <<claim, delivered>>

Next ==
    \E c \in Calls :
        \/ \E s \in Sessions : Claim(c, s) \/ Refuse(c, s)
        \/ Deliver(c)
        \/ Succeed(c)
        \/ Fail(c)

Spec == Init /\ [][Next]_vars
=============================================================================
