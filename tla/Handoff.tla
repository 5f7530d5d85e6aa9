------------------------------ MODULE Handoff ------------------------------
(***************************************************************************)
(* executeHandoff: moving a desktop session to the cloud.                   *)
(*                                                                         *)
(* Every call of executeHandoff is a member of Calls.  A call runs          *)
(* synchronously between two awaits, so each action below is what one event *)
(* of the Node event loop does (an answer, a tus callback, the timer), up to *)
(* the next await; pc[c] names the await the call is suspended at.  Several *)
(* calls are in progress at once and share only the module-level set        *)
(* activeHandoffs.  The policy service, the tus client and the cloud are    *)
(* external: they answer, fail or stay silent in any order.                 *)
(*                                                                         *)
(* Time is counted in units of which Timeout is timeoutMs and TokenBuffer   *)
(* the clock-skew allowance of the token check; a timer that is due runs    *)
(* before the clock moves on.                                               *)
(***************************************************************************)
EXTENDS Integers

CONSTANTS
    Sessions,     \* session ids
    Calls,        \* calls of executeHandoff, each made at most once
    Artifacts,    \* the artifacts every session carries
    Timeout,      \* timeoutMs
    TokenBuffer,  \* the 30 s a policy token must still live at the check
    TokenLives,   \* lifetimes the policy service gives its tokens, where readable
    MaxTime,      \* bound on the clock
    NoSession     \* the session of a call that was not made yet

ASSUME TimesAssumption ==
    /\ Timeout \in Nat
    /\ TokenBuffer \in Nat
    /\ MaxTime \in Nat
    /\ TokenLives \subseteq Nat

(* The defaults are equal: 30_000 ms both (handoffOrchestrator.ts:71, :318). *)
ASSUME BufferCoversTimeout == Timeout <= TokenBuffer

ASSUME NoSessionAssumption == NoSession \notin Sessions

VARIABLES
    activeHandoffs,  \* sessions a handoff is in progress for
    now,             \* the desktop's clock
    pc,              \* where each call is suspended, or how it ended
    session,         \* session_id of the call
    sm,              \* state of the call's HandoffStateMachine
    aborted,         \* internalSignal.aborted
    deadline,        \* when the call's timer fires
    verdict,         \* what the policy service answered the call
    tokenExpiresAt,  \* authResult.token_expires_at
    snap,            \* the snapshot's upload
    art,             \* the artifacts' uploads
    sent,            \* control-plane requests the call has issued
    cloud,           \* the cloud's record of the handoff (external)
    result           \* code of the HandoffError, or "ok"

callVars == <<session, deadline>>
tokenVars == <<verdict, tokenExpiresAt>>
uploadVars == <<snap, art>>
endVars == <<pc, sm, activeHandoffs, result>>
vars == <<activeHandoffs, now, pc, session, sm, aborted, deadline, verdict,
          tokenExpiresAt, snap, art, sent, cloud, result>>

Awaits == {"authorizing", "initiating", "uploading", "completing"}
Ends == {"refused", "threw", "returned"}
HandoffState ==
    {"initiated", "authorizing", "encrypting", "transferring", "completed", "failed"}
SnapStates == {"none", "sending", "discovering", "resuming", "done", "withdrawn", "failed"}
ArtStates == {"none", "sending", "stopped", "done", "withdrawn", "failed"}
(* Uploads that succeeded; for a withdrawn one the desktop has sent a DELETE. *)
Arrived == {"done", "withdrawn"}
CloudStates == {"none", "open", "completed", "rejected"}
Verdicts == {"none", "allow", "deny", "escalate", "unavailable"}
Codes ==
    {"none", "ok", "CONCURRENT_HANDOFF", "ACTION_IN_PROGRESS", "TIMEOUT",
     "INVALID_SNAPSHOT", "POLICY_DENIED", "POLICY_ESCALATED", "POLICY_UNAVAILABLE",
     "TOKEN_EXPIRED", "SNAPSHOT_TOO_LARGE", "INVALID_RESPONSE", "UPLOAD_FAILED",
     "HANDOFF_REJECTED"}

Live(c) == pc[c] \in Awaits
Settled(c) == pc[c] \in Ends

Init ==
    /\ activeHandoffs = {}
    /\ now = 0
    /\ pc = [c \in Calls |-> "idle"]
    /\ session = [c \in Calls |-> NoSession]
    /\ sm = [c \in Calls |-> "initiated"]
    /\ aborted = [c \in Calls |-> FALSE]
    /\ deadline = [c \in Calls |-> 0]
    /\ verdict = [c \in Calls |-> "none"]
    /\ tokenExpiresAt = [c \in Calls |-> 0]
    /\ snap = [c \in Calls |-> "none"]
    /\ art = [c \in Calls |-> [a \in Artifacts |-> "none"]]
    /\ sent = [c \in Calls |-> {}]
    /\ cloud = [c \in Calls |-> "none"]
    /\ result = [c \in Calls |-> "none"]

-----------------------------------------------------------------------------
(* The transition table of HandoffStateMachine.                              *)
CanTransition(from, to) ==
    \/ to = "failed" /\ from \notin {"completed", "failed"}
    \/ <<from, to>> \in {<<"initiated", "authorizing">>, <<"authorizing", "encrypting">>,
                         <<"encrypting", "transferring">>, <<"transferring", "completed">>}

(* Mutated form of Throw: the catch block without the cleanup. *)
ThrowWithoutCleanup(c, code) ==
    /\ pc' = [pc EXCEPT ![c] = "threw"]
    /\ sm' = [sm EXCEPT ![c] = IF CanTransition(@, "failed") THEN "failed" ELSE @]
    /\ result' = [result EXCEPT ![c] = code]
    /\ UNCHANGED activeHandoffs

(* The catch and finally blocks: to "failed" unless final, free the session. *)
Throw(c, code) ==
    /\ pc' = [pc EXCEPT ![c] = "threw"]
    /\ sm' = [sm EXCEPT ![c] = IF CanTransition(@, "failed") THEN "failed" ELSE @]
    /\ activeHandoffs' = activeHandoffs \ {session[c]}
    /\ result' = [result EXCEPT ![c] = code]

(* A generic Error becomes TIMEOUT when the signal is aborted, else a code   *)
(* chosen by the state the machine was in.                                   *)
WrappedCode(c) ==
    IF aborted[c] THEN "TIMEOUT"
    ELSE IF sm[c] = "encrypting" THEN "INVALID_SNAPSHOT" ELSE "UPLOAD_FAILED"

-----------------------------------------------------------------------------
(* The synchronous start of executeHandoff, up to its first await.           *)

(* Refused before any await: another handoff of the session, a high or       *)
(* critical action pending, a signal aborted beforehand, a missing payload.  *)
Refuse(c, s, code) ==
    /\ pc[c] = "idle"
    /\ \/ s \in activeHandoffs /\ code = "CONCURRENT_HANDOFF"
       \/ s \notin activeHandoffs /\ code \in {"ACTION_IN_PROGRESS", "TIMEOUT", "INVALID_SNAPSHOT"}
    /\ pc' = [pc EXCEPT ![c] = "refused"]
    /\ session' = [session EXCEPT ![c] = s]
    /\ sm' = [sm EXCEPT ![c] = IF code = "INVALID_SNAPSHOT" THEN "failed" ELSE @]
    /\ result' = [result EXCEPT ![c] = code]
    /\ UNCHANGED <<activeHandoffs, now, aborted, deadline, tokenVars, uploadVars, sent, cloud>>

Begin(c, s) ==
    /\ pc[c] = "idle"
    /\ s \notin activeHandoffs
    /\ now + Timeout <= MaxTime
    /\ activeHandoffs' = activeHandoffs \cup {s}
    /\ pc' = [pc EXCEPT ![c] = "authorizing"]
    /\ session' = [session EXCEPT ![c] = s]
    /\ sm' = [sm EXCEPT ![c] = "authorizing"]
    /\ deadline' = [deadline EXCEPT ![c] = now + Timeout]
    /\ UNCHANGED <<now, aborted, tokenVars, uploadVars, sent, cloud, result>>

-----------------------------------------------------------------------------
(* Answers of the control plane, each followed by all the code up to the     *)
(* next await.                                                               *)

(* Mutated form of RefusalCode: the verdict itself, not translated. *)
RefusalCodeRaw(v) == v

RefusalCode(v) ==
    CASE v = "deny" -> "POLICY_DENIED"
      [] v = "escalate" -> "POLICY_ESCALATED"
      [] v = "unavailable" -> "POLICY_UNAVAILABLE"

(* Mutated form of AuthorizationRefused: an unavailable policy service does  *)
(* not stop the call.                                                        *)
AuthorizationFailsOpen(c, v) ==
    /\ pc[c] = "authorizing"
    /\ verdict' = [verdict EXCEPT ![c] = v]
    /\ \/ v # "unavailable" /\ Throw(c, RefusalCode(v)) /\ UNCHANGED sent
       \/ /\ v = "unavailable"
          /\ pc' = [pc EXCEPT ![c] = "initiating"]
          /\ sm' = [sm EXCEPT ![c] = "encrypting"]
          /\ sent' = [sent EXCEPT ![c] = @ \cup {"initiate"}]
          /\ UNCHANGED <<activeHandoffs, result>>
    /\ UNCHANGED <<now, callVars, aborted, tokenExpiresAt, uploadVars, cloud>>

AuthorizationRefused(c, v) ==
    /\ pc[c] = "authorizing"
    /\ v \in {"deny", "escalate", "unavailable"}
    /\ verdict' = [verdict EXCEPT ![c] = v]
    /\ Throw(c, RefusalCode(v))
    /\ UNCHANGED <<now, callVars, aborted, tokenExpiresAt, uploadVars, sent, cloud>>

(* token_expires_at need only be a text that is not empty: one that is no    *)
(* date becomes NaN, which no comparison refuses.                            *)
Unreadable == -1

(* Mutated form of TokenFresh: any life that is left will do. *)
TokenFreshWithoutBuffer(expiry) == expiry = Unreadable \/ expiry > now

TokenFresh(expiry) == expiry = Unreadable \/ expiry > now + TokenBuffer

(* How assembling, validating, signing and measuring the snapshot goes. *)
SnapshotOutcomes == {"ok", "INVALID_SNAPSHOT", "SNAPSHOT_TOO_LARGE"}

(* Allowed with a token that expires then: check the signal, then the token, *)
(* then assemble the snapshot ("ok", or the code that throws), then send     *)
(* initiate_handoff.                                                         *)
AuthorizationAllowed(c, expiry, snapshot) ==
    /\ pc[c] = "authorizing"
    /\ verdict' = [verdict EXCEPT ![c] = "allow"]
    /\ tokenExpiresAt' = [tokenExpiresAt EXCEPT ![c] = expiry]
    /\ \/ /\ aborted[c]
          /\ Throw(c, "TIMEOUT")
          /\ UNCHANGED sent
       \/ /\ ~aborted[c] /\ ~TokenFresh(expiry)
          /\ Throw(c, "TOKEN_EXPIRED")
          /\ UNCHANGED sent
       \/ /\ ~aborted[c] /\ TokenFresh(expiry)
          /\ snapshot \in {"INVALID_SNAPSHOT", "SNAPSHOT_TOO_LARGE"}
          /\ Throw(c, snapshot)
          /\ UNCHANGED sent
       \/ /\ ~aborted[c] /\ TokenFresh(expiry)
          /\ snapshot = "ok"
          /\ pc' = [pc EXCEPT ![c] = "initiating"]
          /\ sm' = [sm EXCEPT ![c] = "encrypting"]
          /\ sent' = [sent EXCEPT ![c] = @ \cup {"initiate"}]
          /\ UNCHANGED <<activeHandoffs, result>>
    /\ UNCHANGED <<now, callVars, aborted, uploadVars, cloud>>

(* A lost or malformed answer to initiate_handoff. *)
InitiateFails(c) ==
    /\ pc[c] = "initiating"
    /\ \/ Throw(c, "INVALID_RESPONSE")
       \/ Throw(c, WrappedCode(c))
    /\ UNCHANGED <<now, callVars, aborted, tokenVars, uploadVars, sent, cloud>>

(* Whether the answer has an upload URL for every artifact. *)
UrlOutcomes == {"ok", "INVALID_RESPONSE"}

(* How key agreement, the encryption of snapshot and artifacts and the       *)
(* matching of the artifacts' upload URLs go.                                *)
Preparations == {"INVALID_SNAPSHOT"} \cup UrlOutcomes

(* Mutated form of InitiateAnswered: the signal is not checked. *)
InitiateAnsweredUnchecked(c, prepared) ==
    /\ pc[c] = "initiating"
    /\ cloud[c] # "none"
    /\ prepared = "ok"
    /\ pc' = [pc EXCEPT ![c] = "uploading"]
    /\ sm' = [sm EXCEPT ![c] = "transferring"]
    /\ snap' = [snap EXCEPT ![c] = "sending"]
    /\ art' = [art EXCEPT ![c] = [a \in Artifacts |-> "sending"]]
    /\ UNCHANGED <<activeHandoffs, result, now, callVars, aborted, tokenVars, sent, cloud>>

(* handoff_id and upload URLs arrive: check the signal, encrypt, start the   *)
(* uploads.                                                                  *)
InitiateAnswered(c, prepared) ==
    /\ pc[c] = "initiating"
    /\ cloud[c] # "none"
    /\ \/ /\ aborted[c]
          /\ Throw(c, "TIMEOUT")
          /\ UNCHANGED uploadVars
       \/ /\ ~aborted[c]
          /\ prepared \in {"INVALID_SNAPSHOT", "INVALID_RESPONSE"}
          /\ Throw(c, prepared)
          /\ UNCHANGED uploadVars
       \/ /\ ~aborted[c]
          /\ prepared = "ok"
          /\ pc' = [pc EXCEPT ![c] = "uploading"]
          /\ sm' = [sm EXCEPT ![c] = "transferring"]
          /\ snap' = [snap EXCEPT ![c] = "sending"]
          /\ art' = [art EXCEPT ![c] = [a \in Artifacts |-> "sending"]]
          /\ UNCHANGED <<activeHandoffs, result>>
    /\ UNCHANGED <<now, callVars, aborted, tokenVars, sent, cloud>>

(* Mutated form of CompleteAnswered: the receipt's status is not read. *)
CompleteAnsweredUnread(c) ==
    /\ pc[c] = "completing"
    /\ cloud[c] \in {"completed", "rejected"}
    /\ pc' = [pc EXCEPT ![c] = "returned"]
    /\ sm' = [sm EXCEPT ![c] = "completed"]
    /\ activeHandoffs' = activeHandoffs \ {session[c]}
    /\ result' = [result EXCEPT ![c] = "ok"]
    /\ UNCHANGED <<now, callVars, aborted, tokenVars, uploadVars, sent, cloud>>

(* The receipt: checkAborted is not called after this await. *)
CompleteAnswered(c) ==
    /\ pc[c] = "completing"
    /\ cloud[c] = "completed"
    /\ pc' = [pc EXCEPT ![c] = "returned"]
    /\ sm' = [sm EXCEPT ![c] = "completed"]
    /\ activeHandoffs' = activeHandoffs \ {session[c]}
    /\ result' = [result EXCEPT ![c] = "ok"]
    /\ UNCHANGED <<now, callVars, aborted, tokenVars, uploadVars, sent, cloud>>

(* Mutated form of CompleteFails: all but a completed receipt is a rejection. *)
CompleteFailsUnread(c) ==
    /\ pc[c] = "completing"
    /\ Throw(c, "HANDOFF_REJECTED") \/ Throw(c, WrappedCode(c))
    /\ UNCHANGED <<now, callVars, aborted, tokenVars, uploadVars, sent, cloud>>

(* A receipt with status failed, or an answer lost or malformed. *)
CompleteFails(c) ==
    /\ pc[c] = "completing"
    /\ \/ cloud[c] = "rejected" /\ Throw(c, "HANDOFF_REJECTED")
       \/ Throw(c, "INVALID_RESPONSE")
       \/ Throw(c, WrappedCode(c))
    /\ UNCHANGED <<now, callVars, aborted, tokenVars, uploadVars, sent, cloud>>

-----------------------------------------------------------------------------
(* The uploads.  Promise.all joins the snapshot's promise and that of        *)
(* uploadArtifacts; the latter waits with Promise.allSettled for one promise *)
(* per artifact, and an artifact whose upload was aborted never settles its  *)
(* promise ("stopped").  The abort listeners are never removed, and abort    *)
(* with termination has the upload server delete what it has, so they also   *)
(* withdraw uploads whose promise has long been resolved.                    *)

ArtifactsReject(files) ==
    /\ \E a \in Artifacts : files[a] = "failed"
    /\ \A a \in Artifacts : files[a] \in Arrived \cup {"failed"}

UploadsReject(c) == snap'[c] = "failed" \/ ArtifactsReject(art'[c])

(* Mutated form of UploadsResolve: only the snapshot is awaited. *)
SnapshotResolves(c) == snap'[c] \in Arrived

UploadsResolve(c) == snap'[c] \in Arrived /\ \A a \in Artifacts : art'[c][a] \in Arrived

(* What the call does after an upload event: nothing when it no longer waits *)
(* for the uploads or they are still going on.                               *)
AfterUploadEvent(c) ==
    \/ /\ pc[c] = "uploading" /\ UploadsReject(c)
       /\ Throw(c, "UPLOAD_FAILED")
       /\ UNCHANGED sent
    \/ /\ pc[c] = "uploading" /\ UploadsResolve(c) /\ aborted'[c]
       /\ Throw(c, "TIMEOUT")
       /\ UNCHANGED sent
    \/ /\ pc[c] = "uploading" /\ UploadsResolve(c) /\ ~aborted'[c]
       /\ pc' = [pc EXCEPT ![c] = "completing"]
       /\ sent' = [sent EXCEPT ![c] = @ \cup {"complete"}]
       /\ UNCHANGED <<activeHandoffs, sm, result>>
    \/ /\ pc[c] # "uploading" \/ ~(UploadsReject(c) \/ UploadsResolve(c))
       /\ UNCHANGED <<endVars, sent>>

SnapshotSent(c) ==
    /\ snap[c] \in {"sending", "resuming"}
    /\ snap' = [snap EXCEPT ![c] = "done"]
    /\ UNCHANGED <<art, aborted>>
    /\ AfterUploadEvent(c)
    /\ UNCHANGED <<now, callVars, tokenVars, cloud>>

(* tus has used up its retries.  With a resource URL the upload is resumed:  *)
(* first a HEAD request for the offset, that no signal interrupts.           *)
SnapshotErrors(c) ==
    /\ \/ /\ snap[c] = "sending"
          /\ snap' = [snap EXCEPT ![c] = "discovering"]
       \/ /\ snap[c] \in {"sending", "resuming"}
          /\ snap' = [snap EXCEPT ![c] = "failed"]
    /\ UNCHANGED <<art, aborted>>
    /\ AfterUploadEvent(c)
    /\ UNCHANGED <<now, callVars, tokenVars, cloud>>

OffsetDiscovered(c) ==
    /\ snap[c] = "discovering"
    /\ \/ snap' = [snap EXCEPT ![c] = IF aborted[c] THEN "failed" ELSE "resuming"]
       \/ snap' = [snap EXCEPT ![c] = "failed"]
    /\ UNCHANGED <<art, aborted>>
    /\ AfterUploadEvent(c)
    /\ UNCHANGED <<now, callVars, tokenVars, cloud>>

(* Mutated form of StopSending: no abort listener. *)
StopNothing(files) == files

StopSending(files) ==
    [a \in Artifacts |-> CASE files[a] = "sending" -> "stopped"
                           [] files[a] = "done" -> "withdrawn"
                           [] OTHER -> files[a]]

ArtifactSent(c, a) ==
    /\ art[c][a] = "sending"
    /\ art' = [art EXCEPT ![c][a] = "done"]
    /\ UNCHANGED <<snap, aborted>>
    /\ AfterUploadEvent(c)
    /\ UNCHANGED <<now, callVars, tokenVars, cloud>>

(* One artifact fails: its siblings are aborted, the finished ones too. *)
ArtifactErrors(c, a) ==
    /\ art[c][a] = "sending"
    /\ art' = [art EXCEPT ![c] = StopSending([@ EXCEPT ![a] = "failed"])]
    /\ UNCHANGED <<snap, aborted>>
    /\ AfterUploadEvent(c)
    /\ UNCHANGED <<now, callVars, tokenVars, cloud>>

-----------------------------------------------------------------------------
(* The abort signal and the clock.                                           *)

(* Mutated form of StopSnapshot: no abort listener. *)
SnapshotGoesOn(state) == state

(* What the abort event's listeners do to the snapshot: reject its promise,  *)
(* unless the upload has moved on to the HEAD request, and delete the upload, *)
(* finished or not.                                                          *)
StopSnapshot(state) ==
    CASE state \in {"sending", "resuming"} -> "failed"
      [] state = "done" -> "withdrawn"
      [] OTHER -> state

Abort(c) ==
    /\ aborted' = [aborted EXCEPT ![c] = TRUE]
    /\ snap' = [snap EXCEPT ![c] = StopSnapshot(@)]
    /\ art' = [art EXCEPT ![c] = StopSending(@)]
    /\ AfterUploadEvent(c)
    /\ UNCHANGED <<now, callVars, tokenVars, cloud>>

(* The caller's signal. *)
ExternalAbort(c) == Live(c) /\ ~aborted[c] /\ Abort(c)

TimerFires(c) == Live(c) /\ ~aborted[c] /\ deadline[c] <= now /\ Abort(c)

TimerDue == \E c \in Calls : Live(c) /\ ~aborted[c] /\ deadline[c] <= now

Tick ==
    /\ now < MaxTime
    /\ ~TimerDue
    /\ now' = now + 1
    /\ UNCHANGED <<activeHandoffs, pc, sm, aborted, callVars, tokenVars, uploadVars,
                   sent, cloud, result>>

-----------------------------------------------------------------------------
(* The cloud acts on the requests it received, late or unanswered ones too.  *)
CloudOpens(c) ==
    /\ "initiate" \in sent[c] /\ cloud[c] = "none"
    /\ cloud' = [cloud EXCEPT ![c] = "open"]
    /\ UNCHANGED <<endVars, now, aborted, callVars, tokenVars, uploadVars, sent>>

CloudCloses(c, status) ==
    /\ "complete" \in sent[c] /\ cloud[c] = "open"
    /\ cloud' = [cloud EXCEPT ![c] = status]
    /\ UNCHANGED <<endVars, now, aborted, callVars, tokenVars, uploadVars, sent>>

-----------------------------------------------------------------------------
AuthorizationAnswered(c) ==
    \/ \E v \in {"deny", "escalate", "unavailable"} : AuthorizationRefused(c, v)
    \/ \E expiry \in {now + life : life \in TokenLives} \cup {Unreadable},
          snapshot \in SnapshotOutcomes : AuthorizationAllowed(c, expiry, snapshot)

InitiateSettles(c) ==
    \/ InitiateFails(c)
    \/ \E prepared \in Preparations : InitiateAnswered(c, prepared)

CompleteSettles(c) == CompleteAnswered(c) \/ CompleteFails(c)

UploadEvent(c) ==
    \/ SnapshotSent(c)
    \/ SnapshotErrors(c)
    \/ OffsetDiscovered(c)
    \/ \E a \in Artifacts : ArtifactSent(c, a) \/ ArtifactErrors(c, a)

CloudStep(c) ==
    \/ CloudOpens(c)
    \/ \E status \in {"completed", "rejected"} : CloudCloses(c, status)

CallStart(c) ==
    \E s \in Sessions :
        \/ Begin(c, s)
        \/ \E code \in Codes : Refuse(c, s, code)

CallStep(c) ==
    \/ CallStart(c)
    \/ AuthorizationAnswered(c)
    \/ InitiateSettles(c)
    \/ CompleteSettles(c)
    \/ UploadEvent(c)
    \/ ExternalAbort(c)
    \/ TimerFires(c)
    \/ CloudStep(c)

Next == Tick \/ \E c \in Calls : CallStep(c)

Spec == Init /\ [][Next]_vars

(* The control-plane client bounds every request, so requests are answered   *)
(* or fail, and due timers run.  The offset request is a bare fetch, which    *)
(* the runtime's own limits end.  Uploads may stall for ever.                *)
Fairness ==
    /\ WF_vars(Tick)
    /\ \A c \in Calls :
        /\ WF_vars(TimerFires(c))
        /\ WF_vars(AuthorizationAnswered(c))
        /\ WF_vars(InitiateSettles(c))
        /\ WF_vars(CompleteSettles(c))
        /\ WF_vars(OffsetDiscovered(c))

FairSpec == Spec /\ Fairness

-----------------------------------------------------------------------------
TypeOK ==
    /\ activeHandoffs \subseteq Sessions
    /\ now \in Nat
    /\ pc \in [Calls -> {"idle"} \cup Awaits \cup Ends]
    /\ session \in [Calls -> Sessions \cup {NoSession}]
    /\ sm \in [Calls -> HandoffState]
    /\ aborted \in [Calls -> BOOLEAN]
    /\ deadline \in [Calls -> Nat]
    /\ verdict \in [Calls -> Verdicts]
    /\ tokenExpiresAt \in [Calls -> Nat \cup {Unreadable}]
    /\ snap \in [Calls -> SnapStates]
    /\ art \in [Calls -> [Artifacts -> ArtStates]]
    /\ sent \in [Calls -> SUBSET {"initiate", "complete"}]
    /\ cloud \in [Calls -> CloudStates]
    /\ result \in [Calls -> Codes]

(* activeHandoffs is exactly the sessions of the calls in progress, and no   *)
(* session has two: whatever way a call ends, it frees its session and only  *)
(* its own (handoffOrchestrator.ts:226, :256, :269).                         *)
OneHandoffPerSession ==
    /\ activeHandoffs = {session[c] : c \in {d \in Calls : Live(d)}}
    /\ \A c, d \in Calls : Live(c) /\ Live(d) /\ session[c] = session[d] => c = d

(* Nothing reaches the cloud for a call the policy service did not allow:    *)
(* no handoff opened, no bytes on the way (spec.md FR-002, FR-005).          *)
NothingLeavesUnlessAllowed ==
    \A c \in Calls :
        sent[c] # {} \/ snap[c] # "none" \/ cloud[c] # "none" => verdict[c] = "allow"

(* A token whose expiry can be read is still valid at every await of a call  *)
(* that was not aborted: it is checked once, before encrypting, and only the *)
(* timer makes that check cover the later requests                           *)
(* (handoffOrchestrator.ts:318, :263).                                       *)
TokenOutlivesCall ==
    \A c \in Calls :
        /\ pc[c] \in {"initiating", "uploading", "completing"}
        /\ ~aborted[c]
        /\ tokenExpiresAt[c] # Unreadable
        => now < tokenExpiresAt[c]

AllIn(c, states) == snap[c] \in states /\ \A a \in Artifacts : art[c][a] \in states

(* The cloud starts a session only from a transfer of which every part had   *)
(* arrived, also when the desktop failed or gave up in between; and the parts *)
(* are still there unless the call was aborted                               *)
(* (handoffOrchestrator.ts:457-468, :480, handoffUpload.ts:280).             *)
CloudSessionIsWhole ==
    \A c \in Calls :
        cloud[c] = "completed" =>
            AllIn(c, Arrived) /\ (~aborted[c] => AllIn(c, {"done"}))

(* Once a call is aborted no transfer of it is running and none of its parts *)
(* is left in place: of those that had arrived, each was sent a DELETE.  Only *)
(* the offset request of a resumed snapshot may still be out                 *)
(* (handoffUpload.ts:280, :324, :395).                                       *)
AbortStopsTransfers ==
    \A c \in Calls :
        aborted[c] =>
            /\ snap[c] \notin {"sending", "resuming", "done"}
            /\ \A a \in Artifacts : art[c][a] \notin {"sending", "done"}

(* An aborted call issues no further request and starts no upload: each      *)
(* await before the last is followed by checkAborted.                        *)
AbortedSendsNothing ==
    [][\A c \in Calls :
         aborted[c] => sent'[c] = sent[c] /\ (snap[c] = "none" => snap'[c] = "none")]_vars

(* The codes of failures after which the cloud may have the session all the  *)
(* same: the answer to the last request was lost or could not be read.       *)
InDoubt == {"INVALID_RESPONSE", "UPLOAD_FAILED", "TIMEOUT"}

(* A handoff that fails with any other code has no session in the cloud, and *)
(* will have none: retrying it, or going on at the desktop, cannot make two  *)
(* (handoffContracts.ts:279, handoffOrchestrator.ts:512-530).                *)
RetryIsSafe ==
    \A c \in Calls :
        Settled(c) /\ cloud[c] = "completed" => result[c] \in {"ok"} \cup InDoubt

(* uploadArtifacts waits for a promise that nothing settles any more. *)
Stranded(c) ==
    /\ pc[c] = "uploading"
    /\ snap[c] \in Arrived
    /\ \E a \in Artifacts : art[c][a] = "stopped"

(* With the timer running, a call ends, unless an aborted artifact upload    *)
(* strands it; stalled uploads are no excuse.                                *)
SettlesUnlessStranded == \A c \in Calls : Live(c) ~> (Settled(c) \/ Stranded(c))

(* "Timeout: if total elapsed exceeds configurable threshold (default 30s),  *)
(* abort and transition to `failed`" (kitty-specs/                           *)
(* 002-desktop-cloud-session-handoff/tasks.md:236): a call whose time is up  *)
(* ends.                                                                     *)
TimeoutEndsCall == \A c \in Calls : (Live(c) /\ deadline[c] <= now) ~> Settled(c)

-----------------------------------------------------------------------------
(* How a call looks to its caller. *)
Phase(c) ==
    CASE pc[c] = "idle" -> "idle"
      [] pc[c] = "refused" -> "refused"
      [] pc[c] = "threw" -> "failed"
      [] pc[c] = "returned" -> "completed"
      [] Live(c) -> "running"

Contract == INSTANCE HandoffContract WITH
    phase <- [c \in Calls |-> Phase(c)],
    claim <- session,
    delivered <- {c \in Calls : cloud[c] = "completed"}

(* executeHandoff keeps its contract: exclusive claims, a success only after *)
(* the cloud has the session, no outcome ever revised.                       *)
ImplementsContract == Contract!Spec
=============================================================================
