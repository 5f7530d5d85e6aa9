--------------------------- MODULE HandoffProofs ---------------------------
(***************************************************************************)
(* Theorems about Handoff, for every number of sessions, calls, artifacts   *)
(* and every timeout that the token buffer covers.                          *)
(***************************************************************************)
EXTENDS Handoff, TLAPS

-----------------------------------------------------------------------------
(* The inductive invariant, in parts.                                        *)

(* What a call has done by the time it is suspended where it is. *)
Progress(c) ==
    /\ pc[c] \in {"idle", "refused", "authorizing"} =>
          sent[c] = {} /\ snap[c] = "none" /\ verdict[c] = "none"
    /\ pc[c] = "initiating" => snap[c] = "none"
    /\ pc[c] \in {"initiating", "uploading"} => "complete" \notin sent[c]
    /\ pc[c] \in {"initiating", "uploading", "completing"} => "initiate" \in sent[c]

(* The state machine follows the awaits. *)
StateMachine(c) ==
    /\ pc[c] = "idle" => sm[c] = "initiated"
    /\ pc[c] = "refused" => sm[c] \in {"initiated", "failed"}
    /\ pc[c] = "authorizing" => sm[c] = "authorizing"
    /\ pc[c] = "initiating" => sm[c] = "encrypting"
    /\ pc[c] \in {"uploading", "completing"} => sm[c] = "transferring"
    /\ pc[c] = "threw" => sm[c] = "failed"
    /\ pc[c] = "returned" => sm[c] = "completed" /\ cloud[c] = "completed"

(* Requests are sent in order, after an allow, the last one after all the    *)
(* uploads; the cloud only acts on requests it was sent.                     *)
Requests(c) ==
    /\ sent[c] # {} => verdict[c] = "allow"
    /\ snap[c] # "none" => sent[c] # {}
    /\ cloud[c] # "none" => "initiate" \in sent[c]
    /\ cloud[c] \in {"completed", "rejected"} => "complete" \in sent[c]
    /\ "complete" \in sent[c] =>
          AllIn(c, Arrived) /\ (~aborted[c] => AllIn(c, {"done"}))

(* The timer of a call is due before the call's token expires. *)
Timer(c) ==
    /\ Live(c) => deadline[c] <= now + Timeout
    /\ Live(c) /\ ~aborted[c] => now <= deadline[c]
    /\ pc[c] \in {"initiating", "uploading", "completing"} /\ ~aborted[c]
          => tokenExpiresAt[c] = Unreadable \/ deadline[c] < tokenExpiresAt[c]

(* An abort stops or withdraws all uploads; without one, uploads are         *)
(* withdrawn only where a sibling has failed.                                *)
Stopped(c) ==
    /\ aborted[c] =>
        /\ pc[c] # "idle"
        /\ snap[c] \notin {"sending", "resuming", "done"}
        /\ \A a \in Artifacts : art[c][a] \notin {"sending", "done"}
    /\ ~aborted[c] =>
        /\ snap[c] # "withdrawn"
        /\ (\E a \in Artifacts : art[c][a] \in {"withdrawn", "stopped"}) =>
               \E a \in Artifacts : art[c][a] = "failed"

(* The set of active handoffs, as the handlers use it. *)
Active ==
    /\ \A c \in Calls : Live(c) => session[c] \in activeHandoffs
    /\ \A s \in activeHandoffs : \E c \in Calls : Live(c) /\ session[c] = s
    /\ \A c, d \in Calls : Live(c) /\ Live(d) /\ session[c] = session[d] => c = d

CallInv(c) == Progress(c) /\ StateMachine(c) /\ Requests(c) /\ Timer(c) /\ Stopped(c)

IInv ==
    /\ TypeOK
    /\ Active
    /\ \A c \in Calls : CallInv(c)

-----------------------------------------------------------------------------
(* What the end of a call and an upload event leave behind.                  *)

USE DEF callVars, tokenVars, uploadVars, endVars

(* Throw ends its call, in the failed state, and no other. *)
LEMMA ThrowTypes ==
    ASSUME TypeOK, NEW c \in Calls, NEW code \in Codes, Throw(c, code)
    PROVE  /\ pc' \in [Calls -> {"idle"} \cup Awaits \cup Ends]
           /\ sm' \in [Calls -> HandoffState]
           /\ activeHandoffs' \subseteq Sessions
           /\ result' \in [Calls -> Codes]
  BY DEF TypeOK, Throw, Awaits, Ends, HandoffState, CanTransition

LEMMA AfterUploadEventTypes ==
    ASSUME TypeOK, NEW c \in Calls, AfterUploadEvent(c)
    PROVE  /\ pc' \in [Calls -> {"idle"} \cup Awaits \cup Ends]
           /\ sm' \in [Calls -> HandoffState]
           /\ activeHandoffs' \subseteq Sessions
           /\ result' \in [Calls -> Codes]
           /\ sent' \in [Calls -> SUBSET {"initiate", "complete"}]
  <1>1. CASE pc[c] = "uploading" /\ Throw(c, "UPLOAD_FAILED") /\ UNCHANGED sent
    BY <1>1, ThrowTypes DEF TypeOK, Codes
  <1>2. CASE pc[c] = "uploading" /\ Throw(c, "TIMEOUT") /\ UNCHANGED sent
    BY <1>2, ThrowTypes DEF TypeOK, Codes
  <1>3. CASE /\ pc' = [pc EXCEPT ![c] = "completing"]
             /\ sent' = [sent EXCEPT ![c] = @ \cup {"complete"}]
             /\ UNCHANGED <<activeHandoffs, sm, result>>
    BY <1>3 DEF TypeOK, Awaits
  <1>4. CASE UNCHANGED <<endVars, sent>>
    BY <1>4 DEF TypeOK
  <1>5. QED
    BY <1>1, <1>2, <1>3, <1>4 DEF AfterUploadEvent

-----------------------------------------------------------------------------
(* Type correctness needs no help from the other invariants.                 *)

(* What a token's expiry can be. *)
LEMMA Expiries ==
    ASSUME now \in Nat
    PROVE  {now + life : life \in TokenLives} \cup {Unreadable} \subseteq Nat \cup {Unreadable}
  BY TimesAssumption

(* What the abort listeners make of an upload is a state of uploads. *)
LEMMA StopTypes ==
    /\ \A state \in SnapStates : StopSnapshot(state) \in SnapStates
    /\ \A files \in [Artifacts -> ArtStates] : StopSending(files) \in [Artifacts -> ArtStates]
  BY DEF StopSnapshot, StopSending, SnapStates, ArtStates

LEMMA StepTypes == ASSUME TypeOK, [Next]_vars PROVE TypeOK'
  <1> USE TimesAssumption, NoSessionAssumption
  <1>1. CASE UNCHANGED vars
    BY <1>1 DEF vars, TypeOK
  <1>2. CASE Tick
    BY <1>2 DEF Tick, TypeOK
  <1>3. ASSUME NEW c \in Calls, NEW s \in Sessions, Begin(c, s) PROVE TypeOK'
    BY <1>3 DEF Begin, TypeOK, Awaits, HandoffState
  <1>4. ASSUME NEW c \in Calls, NEW s \in Sessions, NEW code \in Codes, Refuse(c, s, code)
        PROVE TypeOK'
    BY <1>4 DEF Refuse, TypeOK, Ends, HandoffState
  <1>5. ASSUME NEW c \in Calls, NEW v \in {"deny", "escalate", "unavailable"},
               AuthorizationRefused(c, v)
        PROVE TypeOK'
    <2>1. RefusalCode(v) \in Codes
      BY DEF RefusalCode, Codes
    <2>2. Throw(c, RefusalCode(v))
      BY <1>5 DEF AuthorizationRefused
    <2>3. QED
      BY <1>5, <2>1, <2>2, ThrowTypes DEF AuthorizationRefused, TypeOK, Verdicts
  <1>6. ASSUME NEW c \in Calls, NEW expiry \in Nat \cup {Unreadable},
               NEW snapshot \in SnapshotOutcomes,
               AuthorizationAllowed(c, expiry, snapshot)
        PROVE TypeOK'
    <2>1. /\ verdict' \in [Calls -> Verdicts]
          /\ tokenExpiresAt' \in [Calls -> Nat \cup {Unreadable}]
      BY <1>6 DEF AuthorizationAllowed, TypeOK, Verdicts
    <2>2. CASE \E code \in Codes : Throw(c, code) /\ UNCHANGED sent
      BY <1>6, <2>1, <2>2, ThrowTypes DEF AuthorizationAllowed, TypeOK
    <2>3. CASE /\ pc' = [pc EXCEPT ![c] = "initiating"]
               /\ sm' = [sm EXCEPT ![c] = "encrypting"]
               /\ sent' = [sent EXCEPT ![c] = @ \cup {"initiate"}]
               /\ UNCHANGED <<activeHandoffs, result>>
      BY <1>6, <2>1, <2>3 DEF AuthorizationAllowed, TypeOK, Awaits, HandoffState
    <2>4. QED
      BY <1>6, <2>2, <2>3 DEF AuthorizationAllowed, Codes
  <1>7. ASSUME NEW c \in Calls, InitiateFails(c) PROVE TypeOK'
    <2>1. \E code \in Codes : Throw(c, code)
      BY <1>7 DEF InitiateFails, WrappedCode, Codes
    <2>2. QED
      BY <1>7, <2>1, ThrowTypes DEF InitiateFails, TypeOK
  <1>8. ASSUME NEW c \in Calls, NEW prepared \in Preparations,
               InitiateAnswered(c, prepared)
        PROVE TypeOK'
    <2>1. CASE \E code \in Codes : Throw(c, code) /\ UNCHANGED uploadVars
      BY <1>8, <2>1, ThrowTypes DEF InitiateAnswered, TypeOK
    <2>2. CASE /\ pc' = [pc EXCEPT ![c] = "uploading"]
               /\ sm' = [sm EXCEPT ![c] = "transferring"]
               /\ snap' = [snap EXCEPT ![c] = "sending"]
               /\ art' = [art EXCEPT ![c] = [a \in Artifacts |-> "sending"]]
               /\ UNCHANGED <<activeHandoffs, result>>
      BY <1>8, <2>2 DEF InitiateAnswered, TypeOK, Awaits, HandoffState, SnapStates, ArtStates
    <2>3. QED
      BY <1>8, <2>1, <2>2 DEF InitiateAnswered, Codes
  <1>9. ASSUME NEW c \in Calls, CompleteAnswered(c) PROVE TypeOK'
    BY <1>9 DEF CompleteAnswered, TypeOK, Ends, HandoffState, Codes
  <1>10. ASSUME NEW c \in Calls, CompleteFails(c) PROVE TypeOK'
    <2>1. \E code \in Codes : Throw(c, code)
      BY <1>10 DEF CompleteFails, WrappedCode, Codes
    <2>2. QED
      BY <1>10, <2>1, ThrowTypes DEF CompleteFails, TypeOK
  <1>11. ASSUME NEW c \in Calls, UploadEvent(c) \/ ExternalAbort(c) \/ TimerFires(c)
         PROVE TypeOK'
    <2>1. AfterUploadEvent(c) /\ UNCHANGED <<now, callVars, tokenVars, cloud>>
      BY <1>11 DEF UploadEvent, SnapshotSent, SnapshotErrors, OffsetDiscovered, ArtifactSent,
                   ArtifactErrors, ExternalAbort, TimerFires, Abort
    <2>2. /\ snap' \in [Calls -> SnapStates]
          /\ art' \in [Calls -> [Artifacts -> ArtStates]]
          /\ aborted' \in [Calls -> BOOLEAN]
      <3>1. CASE SnapshotSent(c) \/ SnapshotErrors(c) \/ OffsetDiscovered(c)
        BY <3>1 DEF SnapshotSent, SnapshotErrors, OffsetDiscovered, TypeOK, SnapStates
      <3>2. ASSUME NEW a \in Artifacts, ArtifactSent(c, a) \/ ArtifactErrors(c, a)
            PROVE  /\ snap' = snap /\ aborted' = aborted
                   /\ art' \in [Calls -> [Artifacts -> ArtStates]]
        <4>1. art[c] \in [Artifacts -> ArtStates]
          BY DEF TypeOK
        <4>2. [art[c] EXCEPT ![a] = "failed"] \in [Artifacts -> ArtStates]
          BY <4>1 DEF ArtStates
        <4>3. [art[c] EXCEPT ![a] = "done"] \in [Artifacts -> ArtStates]
          BY <4>1 DEF ArtStates
        <4>4. QED
          BY <3>2, <4>2, <4>3, StopTypes DEF ArtifactSent, ArtifactErrors, TypeOK
      <3>3. CASE Abort(c)
        BY <3>3, StopTypes DEF Abort, TypeOK
      <3>4. QED
        BY <1>11, <3>1, <3>2, <3>3 DEF UploadEvent, ExternalAbort, TimerFires, TypeOK
    <2>3. QED
      BY <2>1, <2>2, AfterUploadEventTypes DEF TypeOK
  <1>12. ASSUME NEW c \in Calls, CloudStep(c) PROVE TypeOK'
    BY <1>12 DEF CloudStep, CloudOpens, CloudCloses, TypeOK, CloudStates
  <1>13. now \in Nat
    BY DEF TypeOK
  <1>14. QED
    BY <1>1, <1>2, <1>3, <1>4, <1>5, <1>6, <1>13, Expiries, <1>7, <1>8, <1>9, <1>10, <1>11, <1>12
       DEF Next, CallStep, CallStart, AuthorizationAnswered, InitiateSettles, CompleteSettles

(* Every variable keeps its type, for any sessions, calls and artifacts.     *)
THEOREM TypeCorrect == Spec => []TypeOK
  <1>1. Init => TypeOK
    BY NoSessionAssumption DEF Init, TypeOK, HandoffState, Verdicts, SnapStates, ArtStates,
                               CloudStates, Codes
  <1>2. TypeOK /\ [Next]_vars => TypeOK'
    BY StepTypes
  <1>3. QED
    BY <1>1, <1>2, PTL DEF Spec

-----------------------------------------------------------------------------
(* The part of the invariant about single calls.  An action of call c leaves *)
(* the other calls as they were, so only c's part is at stake.               *)

(* The state CallInv(d) is about. *)
Same(d) ==
    /\ pc'[d] = pc[d] /\ sm'[d] = sm[d] /\ sent'[d] = sent[d] /\ cloud'[d] = cloud[d]
    /\ snap'[d] = snap[d] /\ art'[d] = art[d] /\ verdict'[d] = verdict[d]
    /\ aborted'[d] = aborted[d] /\ deadline'[d] = deadline[d]
    /\ tokenExpiresAt'[d] = tokenExpiresAt[d]

LEMMA SameKeeps ==
    ASSUME NEW d \in Calls, CallInv(d), Same(d), now' = now
    PROVE  CallInv(d)'
  BY DEF CallInv, Same, Progress, StateMachine, Requests, AllIn, Timer, Stopped, Live

LEMMA ThrowEnds ==
    ASSUME TypeOK, NEW c \in Calls, NEW code, Throw(c, code), Live(c), CallInv(c)
    PROVE  /\ pc'[c] = "threw" /\ sm'[c] = "failed"
           /\ \A d \in Calls \ {c} : pc'[d] = pc[d] /\ sm'[d] = sm[d]
           /\ activeHandoffs' = activeHandoffs \ {session[c]}
  BY DEF Throw, TypeOK, Live, Awaits, CallInv, StateMachine, CanTransition

(* A call that throws and leaves its uploads, requests and signal alone. *)
LEMMA ThrowKeeps ==
    ASSUME IInv, NEW c \in Calls, NEW code, Throw(c, code), Live(c),
           UNCHANGED <<now, deadline, aborted, tokenExpiresAt, uploadVars, sent, cloud>>,
           verdict'[c] = verdict[c] \/ sent[c] = {},
           \A d \in Calls \ {c} : verdict'[d] = verdict[d]
    PROVE  \A d \in Calls : CallInv(d)'
  <1>1. ASSUME NEW d \in Calls \ {c} PROVE CallInv(d)'
    BY <1>1, ThrowEnds, SameKeeps DEF IInv, Same
  <1>2. CallInv(c)'
    BY ThrowEnds DEF IInv, CallInv, Progress, StateMachine, Requests, AllIn, Timer, Stopped, Live, Awaits
  <1>3. QED
    BY <1>1, <1>2

(* An upload event, given what it made of c's uploads and signal.            *)
LEMMA UploadEventKeeps ==
    ASSUME IInv, TypeOK', NEW c \in Calls, AfterUploadEvent(c),
           UNCHANGED <<now, callVars, tokenVars, cloud>>,
           \A d \in Calls \ {c} :
               snap'[d] = snap[d] /\ art'[d] = art[d] /\ aborted'[d] = aborted[d],
           aborted[c] => aborted'[c],
           pc[c] = "idle" => aborted'[c] = aborted[c],
           snap[c] = "none" <=> snap'[c] = "none",
           "complete" \in sent[c] => AllIn(c, Arrived)',
           "complete" \in sent[c] /\ ~aborted'[c] => AllIn(c, {"done"})',
           Stopped(c)'
    PROVE  \A d \in Calls : CallInv(d)'
  <1>1. CASE pc[c] = "uploading" /\ (UploadsReject(c) \/ UploadsResolve(c))
    <2>1. CASE \E code : Throw(c, code) /\ UNCHANGED sent
      <3>1. ASSUME NEW d \in Calls \ {c} PROVE CallInv(d)'
        BY <1>1, <2>1, <3>1, ThrowEnds, SameKeeps DEF IInv, Same, Live, Awaits
      <3>2. CallInv(c)'
        BY <1>1, <2>1, ThrowEnds
           DEF IInv, CallInv, Progress, StateMachine, Requests, AllIn, Timer, Live, Awaits
      <3>3. QED
        BY <3>1, <3>2
    <2>2. CASE /\ UploadsResolve(c) /\ ~aborted'[c]
               /\ pc' = [pc EXCEPT ![c] = "completing"]
               /\ sent' = [sent EXCEPT ![c] = @ \cup {"complete"}]
               /\ UNCHANGED <<activeHandoffs, sm, result>>
      <3>1. ASSUME NEW d \in Calls \ {c} PROVE CallInv(d)'
        BY <2>2, <3>1, SameKeeps DEF IInv, TypeOK, Same
      <3>2. pc'[c] = "completing" /\ sent'[c] = sent[c] \cup {"complete"}
        BY <2>2 DEF IInv, TypeOK
      <3>3. (AllIn(c, {"done"}) /\ AllIn(c, Arrived))'
        BY <2>2 DEF UploadsResolve, Stopped, AllIn, Arrived
      <3>4. CallInv(c)'
        BY <1>1, <2>2, <3>2, <3>3
           DEF IInv, CallInv, Progress, StateMachine, Requests, Timer, Live, Awaits
      <3>5. QED
        BY <3>1, <3>4
    <2>3. QED
      BY <1>1, <2>1, <2>2 DEF AfterUploadEvent
  <1>2. CASE UNCHANGED <<endVars, sent>>
    <2>1. ASSUME NEW d \in Calls \ {c} PROVE CallInv(d)'
      BY <1>2, <2>1, SameKeeps DEF IInv, Same
    <2>2. CallInv(c)'
      BY <1>2 DEF IInv, CallInv, Progress, StateMachine, Requests, AllIn, Timer, Live
    <2>3. QED
      BY <2>1, <2>2
  <1>3. QED
    BY <1>1, <1>2 DEF AfterUploadEvent

(* What the abort listeners leave of an upload. *)
LEMMA Stopping ==
    /\ \A state : StopSnapshot(state) \notin {"sending", "resuming", "done"}
    /\ \A state \in Arrived : StopSnapshot(state) \in Arrived
    /\ \A state : state = "none" <=> StopSnapshot(state) = "none"
    /\ \A files : \A a \in Artifacts :
          /\ StopSending(files)[a] \notin {"sending", "done"}
          /\ files[a] \in Arrived => StopSending(files)[a] \in Arrived
          /\ files[a] = "failed" => StopSending(files)[a] = "failed"
  BY DEF StopSnapshot, StopSending, Arrived

LEMMA StepCalls ==
    ASSUME IInv, [Next]_vars
    PROVE  \A d \in Calls : CallInv(d)'
  <1> USE TimesAssumption, BufferCoversTimeout
  <1> TypeOK'
    BY StepTypes DEF IInv
  <1>1. CASE UNCHANGED vars
    BY <1>1, SameKeeps DEF vars, IInv, Same
  <1>2. CASE Tick
    <2>1. ASSUME NEW d \in Calls PROVE Timer(d)'
      BY <1>2 DEF Tick, TimerDue, IInv, TypeOK, CallInv, Timer, Live
    <2>2. ASSUME NEW d \in Calls PROVE (Progress(d) /\ StateMachine(d) /\ Requests(d) /\ Stopped(d))'
      BY <1>2 DEF Tick, IInv, CallInv, Progress, StateMachine, Requests, AllIn, Stopped
    <2>3. QED
      BY <2>1, <2>2 DEF CallInv
  <1>3. ASSUME NEW c \in Calls, NEW s \in Sessions, Begin(c, s)
        PROVE  \A d \in Calls : CallInv(d)'
    <2>1. ASSUME NEW d \in Calls \ {c} PROVE CallInv(d)'
      BY <1>3, <2>1, SameKeeps DEF Begin, IInv, TypeOK, Same
    <2>2. CallInv(c)'
      BY <1>3 DEF Begin, IInv, TypeOK, CallInv, Progress, StateMachine, Requests, AllIn, Timer, Stopped,
                  Live, Awaits
    <2>3. QED
      BY <2>1, <2>2
  <1>4. ASSUME NEW c \in Calls, NEW s \in Sessions, NEW code \in Codes, Refuse(c, s, code)
        PROVE  \A d \in Calls : CallInv(d)'
    <2>1. ASSUME NEW d \in Calls \ {c} PROVE CallInv(d)'
      BY <1>4, <2>1, SameKeeps DEF Refuse, IInv, TypeOK, Same
    <2>2. CallInv(c)'
      BY <1>4 DEF Refuse, IInv, TypeOK, CallInv, Progress, StateMachine, Requests, AllIn, Timer, Stopped,
                  Live, Awaits
    <2>3. QED
      BY <2>1, <2>2
  <1>5. ASSUME NEW c \in Calls, NEW v \in {"deny", "escalate", "unavailable"},
               AuthorizationRefused(c, v)
        PROVE  \A d \in Calls : CallInv(d)'
    <2>1. Throw(c, RefusalCode(v)) /\ Live(c) /\ sent[c] = {}
      BY <1>5 DEF AuthorizationRefused, IInv, CallInv, Progress, Live, Awaits
    <2>2. \A d \in Calls \ {c} : verdict'[d] = verdict[d]
      BY <1>5 DEF AuthorizationRefused, IInv, TypeOK
    <2>3. QED
      BY <1>5, <2>1, <2>2, ThrowKeeps DEF AuthorizationRefused
  <1>6. ASSUME NEW c \in Calls, NEW expiry \in Nat \cup {Unreadable},
               NEW snapshot \in SnapshotOutcomes,
               AuthorizationAllowed(c, expiry, snapshot)
        PROVE  \A d \in Calls : CallInv(d)'
    <2>1. /\ \A d \in Calls \ {c} :
                verdict'[d] = verdict[d] /\ tokenExpiresAt'[d] = tokenExpiresAt[d]
          /\ verdict'[c] = "allow" /\ tokenExpiresAt'[c] = expiry
      BY <1>6 DEF AuthorizationAllowed, IInv, TypeOK
    <2>2. CASE \E code : Throw(c, code) /\ UNCHANGED sent
      <3>1. ASSUME NEW d \in Calls \ {c} PROVE CallInv(d)'
        BY <1>6, <2>1, <2>2, <3>1, ThrowEnds, SameKeeps
           DEF AuthorizationAllowed, IInv, Same, Live, Awaits
      <3>2. CallInv(c)'
        BY <1>6, <2>1, <2>2, ThrowEnds
           DEF AuthorizationAllowed, IInv, CallInv, Progress, StateMachine, Requests, AllIn, Timer,
               Stopped, Live, Awaits
      <3>3. QED
        BY <3>1, <3>2
    <2>3. CASE /\ ~aborted[c] /\ TokenFresh(expiry)
               /\ pc' = [pc EXCEPT ![c] = "initiating"]
               /\ sm' = [sm EXCEPT ![c] = "encrypting"]
               /\ sent' = [sent EXCEPT ![c] = @ \cup {"initiate"}]
               /\ UNCHANGED <<activeHandoffs, result>>
      <3>1. ASSUME NEW d \in Calls \ {c} PROVE CallInv(d)'
        BY <1>6, <2>1, <2>3, <3>1, SameKeeps DEF AuthorizationAllowed, IInv, TypeOK, Same
      <3>2. Timer(c)'
        BY <1>6, <2>1, <2>3
           DEF AuthorizationAllowed, TokenFresh, IInv, TypeOK, CallInv, Timer, Live, Awaits
      <3>3. (Progress(c) /\ StateMachine(c) /\ Requests(c) /\ Stopped(c))'
        BY <1>6, <2>1, <2>3
           DEF AuthorizationAllowed, IInv, TypeOK, CallInv, Progress, StateMachine, Requests, AllIn,
               Stopped
      <3>4. QED
        BY <3>1, <3>2, <3>3 DEF CallInv
    <2>4. QED
      BY <1>6, <2>2, <2>3 DEF AuthorizationAllowed
  <1>7. ASSUME NEW c \in Calls, InitiateFails(c) PROVE \A d \in Calls : CallInv(d)'
    BY <1>7, ThrowKeeps DEF InitiateFails, Live, Awaits
  <1>8. ASSUME NEW c \in Calls, NEW prepared \in Preparations,
               InitiateAnswered(c, prepared)
        PROVE  \A d \in Calls : CallInv(d)'
    <2>1. CASE \E code : Throw(c, code) /\ UNCHANGED uploadVars
      BY <1>8, <2>1, ThrowKeeps DEF InitiateAnswered, Live, Awaits
    <2>2. CASE /\ ~aborted[c]
               /\ pc' = [pc EXCEPT ![c] = "uploading"]
               /\ sm' = [sm EXCEPT ![c] = "transferring"]
               /\ snap' = [snap EXCEPT ![c] = "sending"]
               /\ art' = [art EXCEPT ![c] = [a \in Artifacts |-> "sending"]]
               /\ UNCHANGED <<activeHandoffs, result>>
      <3>1. ASSUME NEW d \in Calls \ {c} PROVE CallInv(d)'
        BY <1>8, <2>2, <3>1, SameKeeps DEF InitiateAnswered, IInv, TypeOK, Same
      <3>2. CallInv(c)'
        BY <1>8, <2>2
           DEF InitiateAnswered, IInv, TypeOK, CallInv, Progress, StateMachine, Requests, AllIn, Timer,
               Stopped, Live, Awaits
      <3>3. QED
        BY <3>1, <3>2
    <2>3. QED
      BY <1>8, <2>1, <2>2 DEF InitiateAnswered
  <1>9. ASSUME NEW c \in Calls, CompleteAnswered(c) PROVE \A d \in Calls : CallInv(d)'
    <2>1. ASSUME NEW d \in Calls \ {c} PROVE CallInv(d)'
      BY <1>9, <2>1, SameKeeps DEF CompleteAnswered, IInv, TypeOK, Same
    <2>2. CallInv(c)'
      BY <1>9 DEF CompleteAnswered, IInv, TypeOK, CallInv, Progress, StateMachine, Requests, AllIn, Timer,
                  Stopped, Live, Awaits
    <2>3. QED
      BY <2>1, <2>2
  <1>10. ASSUME NEW c \in Calls, CompleteFails(c) PROVE \A d \in Calls : CallInv(d)'
    BY <1>10, ThrowKeeps DEF CompleteFails, Live, Awaits
  <1>11. ASSUME NEW c \in Calls, SnapshotSent(c) \/ SnapshotErrors(c) \/ OffsetDiscovered(c)
         PROVE  \A d \in Calls : CallInv(d)'
    <2>1. AfterUploadEvent(c) /\ UNCHANGED <<now, callVars, tokenVars, cloud>>
      BY <1>11 DEF SnapshotSent, SnapshotErrors, OffsetDiscovered
    <2>2. \A d \in Calls \ {c} :
              snap'[d] = snap[d] /\ art'[d] = art[d] /\ aborted'[d] = aborted[d]
      BY <1>11 DEF SnapshotSent, SnapshotErrors, OffsetDiscovered, IInv, TypeOK
    <2>3. /\ aborted[c] => aborted'[c]
          /\ pc[c] = "idle" => aborted'[c] = aborted[c]
          /\ snap[c] = "none" <=> snap'[c] = "none"
      BY <1>11 DEF SnapshotSent, SnapshotErrors, OffsetDiscovered, IInv, TypeOK
    <2>4. "complete" \notin sent[c]
      BY <1>11 DEF SnapshotSent, SnapshotErrors, OffsetDiscovered, IInv, CallInv, Requests, AllIn,
                   Arrived
    <2>5. Stopped(c)'
      <3>1. pc[c] # "idle"
        BY <1>11 DEF SnapshotSent, SnapshotErrors, OffsetDiscovered, IInv, CallInv, Progress
      <3>2. pc'[c] # "idle"
        BY <2>1, <3>1 DEF AfterUploadEvent, Throw, IInv, TypeOK
      <3>3. QED
        BY <1>11, <3>2 DEF SnapshotSent, SnapshotErrors, OffsetDiscovered, IInv, TypeOK, CallInv,
                           Stopped
    <2>6. QED
      BY <2>1, <2>2, <2>3, <2>4, <2>5, UploadEventKeeps
  <1>12. ASSUME NEW c \in Calls, NEW b \in Artifacts, ArtifactSent(c, b) \/ ArtifactErrors(c, b)
         PROVE  \A d \in Calls : CallInv(d)'
    <2>1. AfterUploadEvent(c) /\ UNCHANGED <<now, callVars, tokenVars, cloud>>
      BY <1>12 DEF ArtifactSent, ArtifactErrors
    <2>2. \A d \in Calls \ {c} :
              snap'[d] = snap[d] /\ art'[d] = art[d] /\ aborted'[d] = aborted[d]
      BY <1>12 DEF ArtifactSent, ArtifactErrors, IInv, TypeOK
    <2>3. /\ aborted[c] => aborted'[c]
          /\ pc[c] = "idle" => aborted'[c] = aborted[c]
          /\ snap[c] = "none" <=> snap'[c] = "none"
      BY <1>12 DEF ArtifactSent, ArtifactErrors, IInv, TypeOK
    <2>4. "complete" \notin sent[c]
      BY <1>12 DEF ArtifactSent, ArtifactErrors, IInv, CallInv, Requests, AllIn, Arrived
    <2>5. Stopped(c)'
      <3>1. aborted'[c] = aborted[c] /\ snap'[c] = snap[c]
        BY <1>12 DEF ArtifactSent, ArtifactErrors
      <3>2. ~aborted[c]
        BY <1>12 DEF ArtifactSent, ArtifactErrors, IInv, CallInv, Stopped
      <3>3. snap[c] # "withdrawn"
        BY <1>12 DEF ArtifactSent, ArtifactErrors, IInv, CallInv, Stopped
      <3>4. CASE ArtifactSent(c, b)
        <4>1. art'[c] = [art[c] EXCEPT ![b] = "done"] /\ art[c][b] = "sending"
          BY <3>4 DEF ArtifactSent, IInv, TypeOK
        <4>2. \A a \in Artifacts : a # b => art'[c][a] = art[c][a]
          BY <4>1 DEF IInv, TypeOK
        <4>3. art'[c][b] = "done"
          BY <4>1 DEF IInv, TypeOK
        <4>4. QED
          BY <3>1, <3>2, <3>3, <4>1, <4>2, <4>3 DEF Stopped, IInv, CallInv
      <3>5. CASE ArtifactErrors(c, b)
        <4>1. art'[c] = StopSending([art[c] EXCEPT ![b] = "failed"])
          BY <3>5 DEF ArtifactErrors, IInv, TypeOK
        <4>2. [art[c] EXCEPT ![b] = "failed"][b] = "failed"
          BY DEF IInv, TypeOK
        <4>3. art'[c][b] = "failed"
          BY <4>1, <4>2, Stopping
        <4>4. QED
          BY <3>1, <3>2, <3>3, <4>3 DEF Stopped
      <3>6. QED
        BY <1>12, <3>4, <3>5
    <2>6. QED
      BY <2>1, <2>2, <2>3, <2>4, <2>5, UploadEventKeeps
  <1>13. ASSUME NEW c \in Calls, ExternalAbort(c) \/ TimerFires(c)
         PROVE  \A d \in Calls : CallInv(d)'
    <2>1. AfterUploadEvent(c) /\ UNCHANGED <<now, callVars, tokenVars, cloud>>
      BY <1>13 DEF ExternalAbort, TimerFires, Abort
    <2>2. \A d \in Calls \ {c} :
              snap'[d] = snap[d] /\ art'[d] = art[d] /\ aborted'[d] = aborted[d]
      BY <1>13 DEF ExternalAbort, TimerFires, Abort, IInv, TypeOK
    <2>3. /\ aborted[c] => aborted'[c]
          /\ pc[c] = "idle" => aborted'[c] = aborted[c]
          /\ snap[c] = "none" <=> snap'[c] = "none"
          /\ aborted'[c]
      BY <1>13, Stopping DEF ExternalAbort, TimerFires, Abort, Live, Awaits, IInv, TypeOK
    <2>4. "complete" \in sent[c] => AllIn(c, Arrived)'
      <3>1. /\ snap'[c] = StopSnapshot(snap[c])
            /\ art'[c] = StopSending(art[c])
            /\ aborted'[c]
        BY <1>13 DEF ExternalAbort, TimerFires, Abort, IInv, TypeOK
      <3>2. QED
        BY <3>1, Stopping DEF IInv, CallInv, Requests, AllIn, Arrived
    <2>5. Stopped(c)'
      <3>1. pc'[c] # "idle"
        BY <1>13, <2>1 DEF ExternalAbort, TimerFires, Live, Awaits, AfterUploadEvent, Throw, IInv,
                           TypeOK
      <3>2. /\ snap'[c] = StopSnapshot(snap[c])
            /\ art'[c] = StopSending(art[c])
            /\ aborted'[c]
        BY <1>13 DEF ExternalAbort, TimerFires, Abort, IInv, TypeOK
      <3>3. QED
        BY <3>1, <3>2, Stopping DEF Stopped
    <2>6. QED
      BY <2>1, <2>2, <2>3, <2>4, <2>5, UploadEventKeeps
  <1>14. ASSUME NEW c \in Calls, CloudStep(c) PROVE \A d \in Calls : CallInv(d)'
    <2>1. ASSUME NEW d \in Calls \ {c} PROVE CallInv(d)'
      BY <1>14, <2>1, SameKeeps DEF CloudStep, CloudOpens, CloudCloses, IInv, TypeOK, Same
    <2>2. CallInv(c)'
      BY <1>14 DEF CloudStep, CloudOpens, CloudCloses, IInv, TypeOK, CallInv, Progress,
                   StateMachine, Requests, AllIn, Timer, Stopped, Live
    <2>3. QED
      BY <2>1, <2>2
  <1>15. now \in Nat
    BY DEF IInv, TypeOK
  <1>16. QED
    BY <1>1, <1>2, <1>3, <1>4, <1>5, <1>6, <1>15, Expiries, <1>7, <1>8, <1>9, <1>10, <1>11, <1>12, <1>13, <1>14
       DEF Next, CallStep, CallStart, AuthorizationAnswered, InitiateSettles, CompleteSettles,
           UploadEvent

-----------------------------------------------------------------------------
(* The part about activeHandoffs: a call begins, ends, or the set of live    *)
(* calls stays as it is.                                                     *)

Ending(c) ==
    /\ Live(c) /\ pc'[c] \in Ends
    /\ \A d \in Calls \ {c} : pc'[d] = pc[d]
    /\ activeHandoffs' = activeHandoffs \ {session[c]}
    /\ session' = session

LiveUnchanged ==
    /\ \A d \in Calls : Live(d)' <=> Live(d)
    /\ \A d \in Calls : Live(d) => session'[d] = session[d]
    /\ activeHandoffs' = activeHandoffs

LEMMA StepKinds ==
    ASSUME IInv, Next
    PROVE  \/ \E c \in Calls, s \in Sessions : Begin(c, s)
           \/ \E c \in Calls : Ending(c)
           \/ LiveUnchanged
  <1> DEFINE Kinds == (\E c \in Calls : Ending(c)) \/ LiveUnchanged
  <1>0. ASSUME NEW c \in Calls, NEW code, Throw(c, code), Live(c), UNCHANGED callVars
        PROVE  Ending(c)
    BY <1>0, ThrowEnds DEF IInv, Ending, Throw, Ends
  <1>1. CASE Tick
    BY <1>1 DEF Tick, LiveUnchanged, Live
  <1>2. ASSUME NEW c \in Calls, NEW s \in Sessions, NEW code \in Codes, Refuse(c, s, code)
        PROVE  Kinds
    BY <1>2 DEF Refuse, LiveUnchanged, Live, Awaits, IInv, TypeOK
  <1>3. ASSUME NEW c \in Calls, AuthorizationAnswered(c) PROVE Kinds
    <2>1. CASE \E code : Throw(c, code)
      BY <1>0, <1>3, <2>1
         DEF AuthorizationAnswered, AuthorizationRefused, AuthorizationAllowed, Live, Awaits
    <2>2. CASE pc[c] = "authorizing" /\ pc' = [pc EXCEPT ![c] = "initiating"]
               /\ UNCHANGED <<activeHandoffs, session>>
      BY <2>2 DEF LiveUnchanged, Live, Awaits, IInv, TypeOK
    <2>3. QED
      BY <1>3, <2>1, <2>2 DEF AuthorizationAnswered, AuthorizationRefused, AuthorizationAllowed
  <1>4. ASSUME NEW c \in Calls, InitiateSettles(c) PROVE Kinds
    <2>1. CASE \E code : Throw(c, code)
      BY <1>0, <1>4, <2>1 DEF InitiateSettles, InitiateFails, InitiateAnswered, Live, Awaits
    <2>2. CASE pc[c] = "initiating" /\ pc' = [pc EXCEPT ![c] = "uploading"]
               /\ UNCHANGED <<activeHandoffs, session>>
      BY <2>2 DEF LiveUnchanged, Live, Awaits, IInv, TypeOK
    <2>3. QED
      BY <1>4, <2>1, <2>2 DEF InitiateSettles, InitiateFails, InitiateAnswered
  <1>5. ASSUME NEW c \in Calls, CompleteSettles(c) PROVE Kinds
    <2>1. CASE CompleteAnswered(c)
      BY <2>1 DEF CompleteAnswered, Ending, Live, Awaits, Ends, IInv, TypeOK
    <2>2. CASE CompleteFails(c)
      BY <1>0, <2>2 DEF CompleteFails, Live, Awaits
    <2>3. QED
      BY <1>5, <2>1, <2>2 DEF CompleteSettles
  <1>6. ASSUME NEW c \in Calls, AfterUploadEvent(c), UNCHANGED callVars PROVE Kinds
    <2>1. CASE pc[c] = "uploading" /\ \E code : Throw(c, code)
      BY <1>0, <1>6, <2>1 DEF Live, Awaits
    <2>2. CASE pc[c] = "uploading" /\ pc' = [pc EXCEPT ![c] = "completing"]
               /\ UNCHANGED activeHandoffs
      BY <1>6, <2>2 DEF LiveUnchanged, Live, Awaits, IInv, TypeOK
    <2>3. CASE UNCHANGED endVars
      BY <1>6, <2>3 DEF LiveUnchanged, Live
    <2>4. QED
      BY <1>6, <2>1, <2>2, <2>3 DEF AfterUploadEvent
  <1>7. ASSUME NEW c \in Calls, UploadEvent(c) \/ ExternalAbort(c) \/ TimerFires(c) PROVE Kinds
    BY <1>6, <1>7 DEF UploadEvent, SnapshotSent, SnapshotErrors, OffsetDiscovered, ArtifactSent,
                      ArtifactErrors, ExternalAbort, TimerFires, Abort
  <1>8. ASSUME NEW c \in Calls, CloudStep(c) PROVE Kinds
    BY <1>8 DEF CloudStep, CloudOpens, CloudCloses, LiveUnchanged, Live
  <1>9. QED
    BY <1>1, <1>2, <1>3, <1>4, <1>5, <1>7, <1>8 DEF Next, CallStep, CallStart

LEMMA StepActive == ASSUME IInv, [Next]_vars PROVE Active'
  <1>1. ASSUME NEW c \in Calls, NEW s \in Sessions, Begin(c, s) PROVE Active'
    <2>1. /\ \A d \in Calls \ {c} : pc'[d] = pc[d] /\ session'[d] = session[d]
          /\ pc'[c] = "authorizing" /\ session'[c] = s /\ pc[c] = "idle"
          /\ s \notin activeHandoffs /\ activeHandoffs' = activeHandoffs \cup {s}
      BY <1>1 DEF Begin, IInv, TypeOK
    <2>2. QED
      BY <2>1 DEF IInv, Active, Live, Awaits
  <1>2. ASSUME NEW c \in Calls, Ending(c) PROVE Active'
    <2>1. ~Live(c)' /\ \A d \in Calls \ {c} : Live(d)' <=> Live(d)
      BY <1>2 DEF Ending, Live, Awaits, Ends
    <2>2. QED
      BY <1>2, <2>1 DEF Ending, IInv, Active
  <1>3. CASE LiveUnchanged
    BY <1>3 DEF LiveUnchanged, IInv, Active
  <1>4. CASE UNCHANGED vars
    BY <1>4 DEF vars, IInv, Active, Live
  <1>5. QED
    BY <1>1, <1>2, <1>3, <1>4, StepKinds

-----------------------------------------------------------------------------
(* The theorems. *)

THEOREM Invariance == Spec => []IInv
  <1>1. Init => IInv
    <2>1. Init => TypeOK
      BY NoSessionAssumption DEF Init, TypeOK, HandoffState, Verdicts, SnapStates, ArtStates,
                                 CloudStates, Codes
    <2>2. Init => Active
      BY DEF Init, Active, Live, Awaits
    <2>3. Init => \A c \in Calls : CallInv(c)
      BY DEF Init, CallInv, Progress, StateMachine, Requests, AllIn, Timer, Stopped, Live, Awaits
    <2>4. QED
      BY <2>1, <2>2, <2>3 DEF IInv
  <1>2. IInv /\ [Next]_vars => IInv'
    BY StepTypes, StepCalls, StepActive DEF IInv
  <1>3. QED
    BY <1>1, <1>2, PTL DEF Spec

(* However many calls race for however many sessions, activeHandoffs is the  *)
(* set of sessions with a call in progress and no session has two.           *)
THEOREM Exclusive == Spec => []OneHandoffPerSession
  <1>1. IInv => OneHandoffPerSession
    BY DEF IInv, Active, OneHandoffPerSession
  <1>2. QED
    BY <1>1, Invariance, PTL

(* Without an allow decision no request and no byte of the session leaves.   *)
THEOREM PolicyGate == Spec => []NothingLeavesUnlessAllowed
  <1>1. IInv => NothingLeavesUnlessAllowed
    BY DEF IInv, CallInv, Requests, NothingLeavesUnlessAllowed
  <1>2. QED
    BY <1>1, Invariance, PTL

(* Whenever the token buffer covers the timeout, the one check of a token    *)
(* whose expiry can be read, made before encrypting, holds for all the       *)
(* requests that follow it.                                                  *)
THEOREM TokenCovers == Spec => []TokenOutlivesCall
  <1>1. IInv => TokenOutlivesCall
    BY DEF IInv, TypeOK, CallInv, Timer, TokenOutlivesCall, Live, Awaits
  <1>2. QED
    BY <1>1, Invariance, PTL

(* The cloud starts sessions only from transfers that arrived whole, and of  *)
(* which nothing was withdrawn unless the call was aborted.                  *)
THEOREM WholeSessions == Spec => []CloudSessionIsWhole
  <1>1. IInv => CloudSessionIsWhole
    BY DEF IInv, CallInv, Requests, CloudSessionIsWhole
  <1>2. QED
    BY <1>1, Invariance, PTL

(* After the abort signal no transfer of the call goes on or stays.          *)
THEOREM AbortIsClean == Spec => []AbortStopsTransfers
  <1>1. IInv => AbortStopsTransfers
    BY DEF IInv, CallInv, Stopped, AbortStopsTransfers
  <1>2. QED
    BY <1>1, Invariance, PTL

(* What a settled call that sent complete_handoff reports. *)
Report(c) ==
    Settled(c) /\ "complete" \in sent[c] =>
        \/ result[c] \in {"ok"} \cup InDoubt
        \/ result[c] = "HANDOFF_REJECTED" /\ cloud[c] = "rejected"

(* Only a call in doubt may fail while the cloud gets its session.           *)
THEOREM SafeRetry == Spec => []RetryIsSafe
  <1> DEFINE Kept(c) == /\ pc'[c] = pc[c] /\ result'[c] = result[c]
                        /\ sent'[c] = sent[c]
                        /\ cloud'[c] = cloud[c] \/ cloud[c] = "open"
  <1>1. Init => \A c \in Calls : Report(c)
    BY DEF Init, Report
  <1>2. ASSUME IInv, [Next]_vars, NEW c \in Calls, Report(c) PROVE Report(c)'
    <2>1. Kept(c) => Report(c)'
      BY <1>2 DEF Report, Settled
    <2>2. CASE UNCHANGED vars \/ Tick
      BY <2>1, <2>2 DEF vars, Tick
    <2>3. ASSUME NEW d \in Calls, CallStart(d) PROVE Report(c)'
      BY <1>2, <2>1, <2>3
         DEF CallStart, Begin, Refuse, IInv, TypeOK, CallInv, Progress, Report, Settled, Ends
    <2>4. ASSUME NEW d \in Calls, AuthorizationAnswered(d) \/ InitiateSettles(d) PROVE Report(c)'
      <3>1. CASE c = d
        BY <1>2, <2>4, <3>1
           DEF AuthorizationAnswered, AuthorizationRefused, AuthorizationAllowed, InitiateSettles,
               InitiateFails, InitiateAnswered, IInv, TypeOK, CallInv, Progress, Report, Throw
      <3>2. CASE c # d
        BY <1>2, <2>1, <2>4, <3>2
           DEF AuthorizationAnswered, AuthorizationRefused, AuthorizationAllowed, InitiateSettles,
               InitiateFails, InitiateAnswered, IInv, TypeOK, Throw
      <3>3. QED
        BY <3>1, <3>2
    <2>5. ASSUME NEW d \in Calls, CompleteSettles(d) PROVE Report(c)'
      BY <1>2, <2>1, <2>5
         DEF CompleteSettles, CompleteAnswered, CompleteFails, Throw, WrappedCode, InDoubt, IInv,
             TypeOK, CallInv, StateMachine, Report
    <2>6. ASSUME NEW d \in Calls, UploadEvent(d) \/ ExternalAbort(d) \/ TimerFires(d)
          PROVE  Report(c)'
      <3>1. AfterUploadEvent(d) /\ cloud' = cloud
        BY <2>6 DEF UploadEvent, SnapshotSent, SnapshotErrors, OffsetDiscovered, ArtifactSent,
                    ArtifactErrors, ExternalAbort, TimerFires, Abort
      <3>2. QED
        BY <1>2, <2>1, <3>1 DEF AfterUploadEvent, Throw, InDoubt, IInv, TypeOK, Report, Settled, Ends
    <2>7. ASSUME NEW d \in Calls, CloudStep(d) PROVE Report(c)'
      BY <1>2, <2>1, <2>7 DEF CloudStep, CloudOpens, CloudCloses, IInv, TypeOK, CallInv, Requests,
                              Report, Settled
    <2>8. QED
      BY <1>2, <2>2, <2>3, <2>4, <2>5, <2>6, <2>7 DEF Next, CallStep
  <1>3. IInv /\ (\A c \in Calls : Report(c)) /\ [Next]_vars => (\A c \in Calls : Report(c))'
    BY <1>2
  <1>4. IInv /\ (\A c \in Calls : Report(c)) => RetryIsSafe
    BY DEF IInv, CallInv, Requests, Report, RetryIsSafe
  <1>5. QED
    BY <1>1, <1>3, <1>4, Invariance, PTL DEF Spec

(* After an abort the call sends no request and starts no upload.            *)
THEOREM AbortIsLast == Spec => AbortedSendsNothing
  <1> DEFINE Quiet(c) == sent'[c] = sent[c] /\ (snap[c] = "none" => snap'[c] = "none")
  <1>1. ASSUME IInv, [Next]_vars, NEW c \in Calls, aborted[c] PROVE Quiet(c)
    <2>1. CASE UNCHANGED vars \/ Tick
      BY <2>1 DEF vars, Tick
    <2>2. ASSUME NEW d \in Calls, CallStart(d) \/ CompleteSettles(d) \/ CloudStep(d)
          PROVE  Quiet(c)
      BY <2>2 DEF CallStart, Begin, Refuse, CompleteSettles, CompleteAnswered, CompleteFails,
                  CloudStep, CloudOpens, CloudCloses
    <2>3. ASSUME NEW d \in Calls, AuthorizationAnswered(d) \/ InitiateSettles(d) PROVE Quiet(c)
      <3>1. CASE AuthorizationAnswered(d)
        BY <1>1, <3>1 DEF AuthorizationAnswered, AuthorizationRefused, AuthorizationAllowed, IInv,
                          TypeOK
      <3>2. CASE InitiateFails(d)
        BY <3>2 DEF InitiateFails
      <3>3. ASSUME NEW prepared, InitiateAnswered(d, prepared) PROVE Quiet(c)
        BY <1>1, <3>3 DEF InitiateAnswered, IInv, TypeOK
      <3>4. QED
        BY <2>3, <3>1, <3>2, <3>3 DEF InitiateSettles
    <2>4. ASSUME NEW d \in Calls, AfterUploadEvent(d), aborted[c] => aborted'[c]
          PROVE  sent'[c] = sent[c]
      BY <1>1, <2>4 DEF AfterUploadEvent, IInv, TypeOK
    <2>5. ASSUME NEW d \in Calls, UploadEvent(d) \/ ExternalAbort(d) \/ TimerFires(d)
          PROVE  /\ AfterUploadEvent(d)
                 /\ aborted[c] => aborted'[c]
                 /\ snap[c] = "none" => snap'[c] = "none"
      BY <2>5, <1>1 DEF UploadEvent, SnapshotSent, SnapshotErrors, OffsetDiscovered, ArtifactSent,
                        ArtifactErrors, ExternalAbort, TimerFires, Abort, StopSnapshot, IInv, TypeOK
    <2>6. QED
      BY <1>1, <2>1, <2>2, <2>3, <2>4, <2>5 DEF Next, CallStep
  <1>2. IInv /\ [Next]_vars =>
            [\A c \in Calls :
               aborted[c] => sent'[c] = sent[c] /\ (snap[c] = "none" => snap'[c] = "none")]_vars
    BY <1>1
  <1>3. QED
    BY <1>2, Invariance, PTL DEF Spec, AbortedSendsNothing

-----------------------------------------------------------------------------
(* The contract.                                                             *)

Phases == [c \in Calls |-> Phase(c)]
Delivered == {c \in Calls : cloud[c] = "completed"}

LEMMA PhaseOf ==
    ASSUME TypeOK, NEW c \in Calls
    PROVE  /\ pc[c] = "idle" => Phase(c) = "idle"
           /\ pc[c] = "refused" => Phase(c) = "refused"
           /\ pc[c] = "threw" => Phase(c) = "failed"
           /\ pc[c] = "returned" => Phase(c) = "completed"
           /\ Live(c) <=> Phase(c) = "running"
  BY DEF TypeOK, Phase, Live, Awaits, Ends

(* A step that changes one phase, and no other, maps to a contract step.     *)
LEMMA PhaseChange ==
    ASSUME NEW c \in Calls, NEW p, Phase(c)' = p,
           \A d \in Calls \ {c} : pc'[d] = pc[d]
    PROVE  Phases' = [Phases EXCEPT ![c] = p]
  <1>1. \A d \in Calls \ {c} : Phase(d)' = Phase(d)
    BY DEF Phase, Live
  <1>2. QED
    BY <1>1 DEF Phases

LEMMA SamePhases ==
    ASSUME TypeOK, TypeOK', \A d \in Calls : pc'[d] = pc[d] \/ (Live(d) /\ Live(d)')
    PROVE  Phases' = Phases
  <1>1. ASSUME NEW d \in Calls PROVE Phase(d)' = Phase(d)
    <2>1. CASE pc'[d] = pc[d]
      BY <2>1 DEF Phase, Live
    <2>2. CASE Live(d) /\ Live(d)'
      BY <2>2, PhaseOf DEF Phase, TypeOK, Live, Awaits, Ends
    <2>3. QED
      BY <1>1, <2>1, <2>2
  <1>2. QED
    BY <1>1 DEF Phases

(* Every step of executeHandoff is a step its contract allows, or none.      *)
THEOREM Implementation == Spec => ImplementsContract
  <1>1. Init => Contract!Init
    BY DEF Init, Contract!Init, Phase, Live, Awaits
  <1>2. ASSUME IInv, IInv', [Next]_vars PROVE [Contract!Next]_(Contract!vars)
    <2> DEFINE Stutters == Phases' = Phases /\ session' = session /\ Delivered' = Delivered
    <2> USE DEF Phases, Delivered
    <2>0. TypeOK /\ TypeOK'
      BY <1>2 DEF IInv
    <2>1. Stutters => UNCHANGED Contract!vars
      BY DEF Contract!vars
    <2>2. ASSUME NEW c \in Calls, NEW s \in Sessions, Begin(c, s) PROVE Contract!Claim(c, s)
      <3>1. Phase(c) = "idle" /\ Phase(c)' = "running"
        BY <2>0, <2>2, PhaseOf DEF Begin, TypeOK, Phase, Live, Awaits
      <3>2. Phases' = [Phases EXCEPT ![c] = "running"]
        BY <2>0, <2>2, <3>1, PhaseChange DEF Begin, TypeOK
      <3>3. \A d \in Calls : Phase(d) = "running" => session[d] # s
        BY <1>2, <2>0, <2>2, PhaseOf DEF Begin, IInv, Active
      <3>4. QED
        BY <2>2, <3>1, <3>2, <3>3 DEF Begin, Contract!Claim, Contract!Free
    <2>3. ASSUME NEW c \in Calls, NEW s \in Sessions, NEW code \in Codes, Refuse(c, s, code)
          PROVE  Contract!Refuse(c, s)
      <3>1. Phase(c) = "idle" /\ Phase(c)' = "refused"
        BY <2>0, <2>3, PhaseOf DEF Refuse, TypeOK, Phase, Live, Awaits
      <3>2. Phases' = [Phases EXCEPT ![c] = "refused"]
        BY <2>0, <2>3, <3>1, PhaseChange DEF Refuse, TypeOK
      <3>3. QED
        BY <2>3, <3>1, <3>2 DEF Refuse, Contract!Refuse
    <2>4. ASSUME NEW c \in Calls, NEW code, Throw(c, code), Live(c), UNCHANGED <<session, cloud>>
          PROVE  Contract!Fail(c)
      <3>1. Phase(c) = "running" /\ Phase(c)' = "failed"
        BY <2>0, <2>4, PhaseOf DEF Throw, TypeOK, Phase, Live, Awaits
      <3>2. Phases' = [Phases EXCEPT ![c] = "failed"]
        BY <2>0, <2>4, <3>1, PhaseChange DEF Throw, TypeOK
      <3>3. QED
        BY <2>4, <3>1, <3>2 DEF Contract!Fail
    <2>5. ASSUME NEW c \in Calls, CompleteAnswered(c) PROVE Contract!Succeed(c)
      <3>1. Phase(c) = "running" /\ Phase(c)' = "completed"
        BY <2>0, <2>5, PhaseOf DEF CompleteAnswered, TypeOK, Phase, Live, Awaits
      <3>2. Phases' = [Phases EXCEPT ![c] = "completed"]
        BY <2>0, <2>5, <3>1, PhaseChange DEF CompleteAnswered, TypeOK
      <3>3. QED
        BY <2>5, <3>1, <3>2 DEF CompleteAnswered, callVars, Contract!Succeed
    <2>6. ASSUME NEW c \in Calls, CloudCloses(c, "completed") PROVE Contract!Deliver(c)
      <3>1. Phase(c) \in {"running", "failed"}
        BY <1>2, <2>0, <2>6, PhaseOf
           DEF CloudCloses, IInv, TypeOK, CallInv, Progress, StateMachine, Live, Awaits, Ends
      <3>2. Phases' = Phases
        BY <2>0, <2>6, SamePhases DEF CloudCloses, endVars
      <3>3. Delivered' = Delivered \cup {c}
        BY <2>0, <2>6 DEF CloudCloses, TypeOK
      <3>4. QED
        BY <2>6, <3>1, <3>2, <3>3 DEF CloudCloses, callVars, Contract!Deliver
    <2>7. ASSUME NEW c \in Calls, CloudOpens(c) \/ CloudCloses(c, "rejected") PROVE Stutters
      <3>1. Phases' = Phases
        BY <2>0, <2>7, SamePhases DEF CloudOpens, CloudCloses, endVars
      <3>2. Delivered' = Delivered
        BY <2>0, <2>7 DEF CloudOpens, CloudCloses, TypeOK
      <3>3. QED
        BY <2>7, <3>1, <3>2 DEF CloudOpens, CloudCloses, callVars
    <2>8. ASSUME NEW c \in Calls, Live(c), NEW w \in Awaits, pc' = [pc EXCEPT ![c] = w],
                 UNCHANGED <<session, cloud>>
          PROVE  Stutters
      <3>1. \A d \in Calls : pc'[d] = pc[d] \/ (Live(d) /\ Live(d)')
        BY <2>0, <2>8 DEF TypeOK, Live
      <3>2. QED
        BY <2>0, <2>8, <3>1, SamePhases
    <2>9. CASE UNCHANGED <<pc, session, cloud>>
      BY <2>0, <2>1, <2>9, SamePhases
    <2>10. ASSUME NEW c \in Calls, AfterUploadEvent(c), UNCHANGED <<session, cloud>>
           PROVE  Contract!Fail(c) \/ Stutters
      <3>1. CASE pc[c] = "uploading" /\ \E code : Throw(c, code)
        BY <2>4, <2>10, <3>1 DEF Live, Awaits
      <3>2. CASE pc[c] = "uploading" /\ pc' = [pc EXCEPT ![c] = "completing"]
        BY <2>8, <2>10, <3>2 DEF Live, Awaits
      <3>3. CASE UNCHANGED endVars
        BY <2>0, <2>10, <3>3, SamePhases DEF endVars
      <3>4. QED
        BY <2>10, <3>1, <3>2, <3>3 DEF AfterUploadEvent
    <2>11. ASSUME NEW c \in Calls,
                  AuthorizationAnswered(c) \/ InitiateSettles(c) \/ CompleteFails(c)
           PROVE  Contract!Fail(c) \/ Stutters
      <3>1. Live(c) /\ UNCHANGED <<session, cloud>>
        BY <2>11 DEF AuthorizationAnswered, AuthorizationRefused, AuthorizationAllowed,
                     InitiateSettles, InitiateFails, InitiateAnswered, CompleteFails, Live, Awaits,
                     callVars
      <3>2. (\E code : Throw(c, code)) \/ (\E w \in Awaits : pc' = [pc EXCEPT ![c] = w])
        BY <2>11 DEF AuthorizationAnswered, AuthorizationRefused, AuthorizationAllowed,
                     InitiateSettles, InitiateFails, InitiateAnswered, CompleteFails, Awaits
      <3>3. QED
        BY <2>4, <2>8, <3>1, <3>2
    <2>12. ASSUME NEW c \in Calls, UploadEvent(c) \/ ExternalAbort(c) \/ TimerFires(c)
           PROVE  Contract!Fail(c) \/ Stutters
      BY <2>10, <2>12 DEF UploadEvent, SnapshotSent, SnapshotErrors, OffsetDiscovered, ArtifactSent,
                          ArtifactErrors, ExternalAbort, TimerFires, Abort, callVars
    <2>13. CASE Tick \/ UNCHANGED vars
      BY <2>9, <2>13 DEF Tick, callVars, vars
    <2>14. CASE \E c \in Calls : CallStep(c)
      BY <2>1, <2>2, <2>3, <2>5, <2>6, <2>7, <2>11, <2>12, <2>14
         DEF CallStep, CallStart, CompleteSettles, CloudStep, Contract!Next
    <2>15. QED
      BY <1>2, <2>13, <2>14 DEF Next
  <1>3. QED
    BY <1>1, <1>2, Invariance, PTL DEF Spec, ImplementsContract, Contract!Spec
=============================================================================
