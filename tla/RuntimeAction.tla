--------------------------- MODULE RuntimeAction ---------------------------
(***************************************************************************)
(* executeRuntimeAction: running an agent's action under policy.            *)
(*                                                                         *)
(* A call asks the policy service for a decision and its token (privileged   *)
(* actions only), plans (planRuntimeExecution, which reserves the token's id *)
(* in the replay cache), runs the action, checks the provenance of what it   *)
(* produced and reports an output event to the control plane.  pc[c] names   *)
(* the await a call is suspended at; calls interleave at awaits and share    *)
(* the replay cache, which is on disk: it survives a restart of the          *)
(* companion, which prunes it, while the calls in progress are lost.         *)
(*                                                                         *)
(* The registry interface DecisionJtiRegistry has no implementation in the   *)
(* repository other than the replay cache; reserveIfUnused is modelled as    *)
(* ReplayCache.consume, or as unavailable.  Tokens carry one tenant.         *)
(* The id that is reserved is the one the response carries beside its token; *)
(* nothing compares it with the id the signed token holds.                   *)
(***************************************************************************)
EXTENDS Integers

CONSTANTS
    Calls,        \* calls of executeRuntimeAction, each made at most once
    Jtis,         \* the ids that responses of the policy service carry
    Tokens,       \* signed decision tokens
    TokenExpiry,  \* exp of each token
    Artifacts,    \* artifacts an action may produce
    Inputs,       \* the inputs a call may have
    MaxTime,      \* bound on the clock
    Grace,        \* bound on how far the clock is set back altogether
    NoInput,      \* the input of a call that was not made yet
    NoDecision    \* no decision received

RiskLevels == {"low", "medium", "high", "critical"}
InputType ==
    [tenant : {"internal", "external"}, risk : RiskLevels, privileged : BOOLEAN,
     executes : BOOLEAN, provenance : {"off", "audit", "enforce"}]

ASSUME TokenAssumption == TokenExpiry \in [Tokens -> Nat] /\ MaxTime \in Nat /\ Grace \in Nat
ASSUME InputAssumption == Inputs \subseteq InputType /\ NoInput \notin InputType

VARIABLES
    now,       \* the wall clock, floor(Date.now() / 1000)
    setBack,   \* how far it was set back so far
    consumed,  \* rows of consumed_tokens, each with the token it came with
    pc,        \* where each call is suspended
    input,     \* what it was called with
    decision,  \* the decision the policy service answered
    policy,    \* policyAvailable, as the plan sees it
    plan,      \* plan.status
    status,    \* the status to be returned
    started,   \* calls whose executeAction was invoked
    artifact,  \* provenance of the artifacts the action produced
    submitted, \* calls whose outputSubmitted is true
    ledger     \* output events the control plane recorded (external)

clock == <<now, setBack>>
vars == <<now, setBack, consumed, pc, input, decision, policy, plan, status, started,
          artifact, submitted, ledger>>

(* A decision: the response's outcome and id, its signed token, and whether  *)
(* the response has the action's risk level and the token names the tenant,  *)
(* workspace and action of the call.                                         *)
Decisions ==
    [outcome : {"allow", "deny", "escalate"}, jti : Jtis, token : Tokens, fits : BOOLEAN]

ASSUME DecisionAssumption == NoDecision \notin Decisions

(* What verifyAndDecode says of the decision's token: the token is decoded    *)
(* first, so that a signature is looked at only if its claims are complete.  *)
Verdicts == {"ok", "malformed_token", "missing_claims", "invalid_signature"}

Awaits == {"deciding", "verifying", "planned", "executing", "checking", "submitting"}
Statuses == {"none", "allowed", "blocked", "approval_required", "error"}

Live(c) == pc[c] \in Awaits

Init ==
    /\ now = 0 /\ setBack = 0
    /\ consumed = {}
    /\ pc = [c \in Calls |-> "idle"]
    /\ input = [c \in Calls |-> NoInput]
    /\ decision = [c \in Calls |-> NoDecision]
    /\ policy = [c \in Calls |-> "none"]
    /\ plan = [c \in Calls |-> "none"]
    /\ status = [c \in Calls |-> "none"]
    /\ started = {}
    /\ artifact = [c \in Calls |-> [a \in Artifacts |-> "none"]]
    /\ submitted = {}
    /\ ledger = {}

-----------------------------------------------------------------------------
(* Mutated form of DegradesTo: the risk test that shouldFailClosed makes     *)
(* (runtimeRouting.ts:28), where a critical action is not a high one.        *)
DegradesToUnlessHigh(i) ==
    IF (i.tenant = "external" /\ i.risk # "low") \/ i.risk = "high"
    THEN "blocked" ELSE "allowed"

(* authorizeAction without a policy service: fail closed for an external     *)
(* tenant above low risk and for everyone at high risk.                      *)
DegradesTo(i) ==
    IF \/ i.tenant = "external" /\ i.risk # "low"
       \/ i.risk \in {"high", "critical"}
    THEN "blocked" ELSE "allowed"

(* Mutated form of StatusOf: the outcome, not translated. *)
StatusOfRaw(outcome) == outcome

(* authorizeAction and buildAuthorizationResult for the service's outcome. *)
StatusOf(outcome) ==
    CASE outcome = "allow" -> "allowed"
      [] outcome = "deny" -> "blocked"
      [] outcome = "escalate" -> "approval_required"

(* The policy_result of the plan's output event. *)
PolicyResult(s) ==
    CASE s = "allowed" -> "allow"
      [] s = "approval_required" -> "escalate"
      [] OTHER -> "deny"

(* The comparison of risk levels and validateDecisionToken. *)
TokenValid(c) == decision[c].fits /\ TokenExpiry[decision[c].token] > now

(* consume finds a row for the response's id. *)
Known(c) == \E row \in consumed : row.jti = decision[c].jti

(* Mutated form of FailsClosed: only at high risk. *)
FailsClosedIfHigh(c) ==
    input[c].privileged /\ input[c].tenant = "external" /\ input[c].risk = "high"

FailsClosed(c) == input[c].privileged /\ input[c].tenant = "external"

(* The plan without a decision. *)
UnavailablePlan(i) == IF i.privileged THEN DegradesTo(i) ELSE "allowed"

(* The end of planRuntimeExecution: the call goes on to its first telemetry  *)
(* await with the plan.                                                      *)
Planned(c, available, s) ==
    /\ pc' = [pc EXCEPT ![c] = "planned"]
    /\ policy' = [policy EXCEPT ![c] = available]
    /\ plan' = [plan EXCEPT ![c] = s]
    /\ status' = [status EXCEPT ![c] = s]
    /\ UNCHANGED <<clock, started, artifact, submitted, ledger>>

-----------------------------------------------------------------------------
(* A non-privileged action asks nobody: it is planned at once. *)
Call(c, i) ==
    /\ pc[c] = "idle"
    /\ input' = [input EXCEPT ![c] = i]
    /\ \/ /\ i.privileged
          /\ pc' = [pc EXCEPT ![c] = "deciding"]
          /\ UNCHANGED <<clock, policy, plan, status, started, artifact, submitted, ledger>>
       \/ /\ ~i.privileged
          /\ Planned(c, "unavailable", UnavailablePlan(i))
    /\ UNCHANGED <<consumed, decision>>

DecisionAnswered(c, d) ==
    /\ pc[c] = "deciding"
    /\ decision' = [decision EXCEPT ![c] = d]
    /\ pc' = [pc EXCEPT ![c] = "verifying"]
    /\ UNCHANGED <<clock, consumed, input, policy, plan, status, started, artifact, submitted, ledger>>

(* The catch block of resolvePolicyState. *)
PolicyUnavailable(c) ==
    /\ Planned(c, "unavailable", UnavailablePlan(input[c]))
    /\ UNCHANGED <<consumed, input, decision>>

(* The request has no decision to return: the transport or the server failed, *)
(* the tool reported an error, or its answer is not a decision.              *)
RequestFails(c) == pc[c] = "deciding" /\ PolicyUnavailable(c)

(* The answer came, and the verifier threw. *)
VerifierThrows(c) == pc[c] = "verifying" /\ PolicyUnavailable(c)

(* The verifier refused the token, or the response or the token does not fit *)
(* the action: the replay cache is not asked.                                *)
DecisionRefused(c, verdict) ==
    /\ pc[c] = "verifying"
    /\ verdict # "ok" \/ ~TokenValid(c)
    /\ Planned(c, "available", "blocked")
    /\ UNCHANGED <<consumed, input, decision>>

DecisionReplayed(c) ==
    /\ pc[c] = "verifying"
    /\ TokenValid(c)
    /\ Known(c)
    /\ Planned(c, "available", "blocked")
    /\ UNCHANGED <<consumed, input, decision>>

RegistryUnavailable(c) ==
    /\ pc[c] = "verifying"
    /\ TokenValid(c)
    /\ Planned(c, "available", "error")
    /\ UNCHANGED <<consumed, input, decision>>

(* The response's id is consumed until its token expires, whatever the       *)
(* outcome.                                                                  *)
DecisionReserved(c) ==
    /\ pc[c] = "verifying"
    /\ TokenValid(c)
    /\ ~Known(c)
    /\ consumed' = consumed \cup {[jti |-> decision[c].jti, token |-> decision[c].token]}
    /\ Planned(c, "available", StatusOf(decision[c].outcome))
    /\ UNCHANGED <<input, decision>>

-----------------------------------------------------------------------------
(* executeAction is invoked, if there is one and the plan allows it. *)
ActionStarts(c) ==
    /\ pc[c] = "planned"
    /\ plan[c] = "allowed" /\ input[c].executes
    /\ pc' = [pc EXCEPT ![c] = "executing"]
    /\ started' = started \cup {c}
    /\ UNCHANGED <<clock, consumed, input, decision, policy, plan, status, artifact, submitted, ledger>>

ActionSkipped(c) ==
    /\ pc[c] = "planned"
    /\ plan[c] # "allowed" \/ ~input[c].executes
    /\ pc' = [pc EXCEPT ![c] = "submitting"]
    /\ UNCHANGED <<clock, consumed, input, decision, policy, plan, status, started, artifact, submitted, ledger>>

(* The action resolves with the artifacts it produced, perhaps none. *)
ActionResolves(c, produced) ==
    /\ pc[c] = "executing"
    /\ artifact' = [artifact EXCEPT ![c] =
          [a \in Artifacts |-> IF a \in produced THEN "unchecked" ELSE "none"]]
    /\ pc' = [pc EXCEPT ![c] =
          IF input[c].provenance = "off" \/ produced = {} THEN "submitting" ELSE "checking"]
    /\ UNCHANGED <<clock, consumed, input, decision, policy, plan, status, started, submitted, ledger>>

ActionThrows(c) ==
    /\ pc[c] = "executing"
    /\ status' = [status EXCEPT ![c] = "error"]
    /\ pc' = [pc EXCEPT ![c] = "submitting"]
    /\ UNCHANGED <<clock, consumed, input, decision, policy, plan, started, artifact, submitted, ledger>>

(* getArtifactProvenance: a record that fits the call, or one that does not  *)
(* or cannot be had.                                                         *)
Lookups == {"valid", "failed"}

(* Mutated form of SomeFailed: all of them have to fail. *)
EachFailed(files) == \A b \in Artifacts : files[b] = "failed"

SomeFailed(files) == \E b \in Artifacts : files[b] = "failed"

(* The lookup of one artifact answers: its record fits the call, or it does  *)
(* not or cannot be read.  After the last one, enforcement turns a failure   *)
(* into an error; auditing only reports it.                                  *)
ArtifactChecked(c, a, verdict) ==
    /\ pc[c] = "checking"
    /\ artifact[c][a] = "unchecked"
    /\ artifact' = [artifact EXCEPT ![c][a] = verdict]
    /\ \/ /\ \E b \in Artifacts : artifact'[c][b] = "unchecked"
          /\ UNCHANGED <<pc, status>>
       \/ /\ \A b \in Artifacts : artifact'[c][b] # "unchecked"
          /\ pc' = [pc EXCEPT ![c] = "submitting"]
          /\ status' = [status EXCEPT ![c] =
                IF /\ input[c].provenance = "enforce"
                   /\ SomeFailed(artifact'[c])
                THEN "error" ELSE @]
    /\ UNCHANGED <<clock, consumed, input, decision, policy, plan, started, submitted, ledger>>

-----------------------------------------------------------------------------
(* Mutated form of Event: the result is that of the whole call. *)
EventOfStatus(c) ==
    [call |-> c, result |-> PolicyResult(status[c]),
     token |-> IF policy[c] = "available"
               THEN {[jti |-> decision[c].jti, token |-> decision[c].token]} ELSE {}]

(* The output event names the response's id and its token. *)
Event(c) ==
    [call |-> c, result |-> PolicyResult(plan[c]),
     token |-> IF policy[c] = "available"
               THEN {[jti |-> decision[c].jti, token |-> decision[c].token]} ELSE {}]

(* The control plane takes the event that sendOutputEvent posts, or not. *)
Recording(c, recorded) ==
    ledger' = IF recorded THEN ledger \cup {Event(c)} ELSE ledger

(* The request is answered with a success status.  sendOutputEvent does not  *)
(* look at the body, where a JSON-RPC error may say that nothing was         *)
(* recorded.                                                                 *)
OutputSubmitted(c, recorded) ==
    /\ pc[c] = "submitting"
    /\ Recording(c, recorded)
    /\ pc' = [pc EXCEPT ![c] = "returned"]
    /\ submitted' = submitted \cup {c}
    /\ UNCHANGED <<clock, consumed, input, decision, policy, plan, status, started, artifact>>

(* The request failed, though the control plane may have recorded the event. *)
OutputFails(c, recorded) ==
    /\ pc[c] = "submitting"
    /\ Recording(c, recorded)
    /\ pc' = [pc EXCEPT ![c] = "returned"]
    /\ status' = [status EXCEPT ![c] = IF FailsClosed(c) THEN "error" ELSE @]
    /\ UNCHANGED <<clock, consumed, input, decision, policy, plan, started, artifact, submitted>>

-----------------------------------------------------------------------------
(* Mutated form of Pruned: a row is dropped before its token expires. *)
PrunedEarly == {row \in consumed : TokenExpiry[row.token] > now + 1}

(* prune keeps the rows whose token may still be presented. *)
Pruned == {row \in consumed : TokenExpiry[row.token] >= now}

(* The companion stops, at any moment, and starts again. *)
Restart ==
    /\ pc' = [c \in Calls |-> IF Live(c) THEN "lost" ELSE pc[c]]
    /\ consumed' = Pruned
    /\ UNCHANGED <<clock, input, decision, policy, plan, status, started, artifact, submitted, ledger>>

Tick ==
    /\ now < MaxTime
    /\ now' = now + 1
    /\ UNCHANGED <<setBack, consumed, pc, input, decision, policy, plan, status, started, artifact, submitted, ledger>>

(* The wall clock is set back, by less than the hour for which the design of *)
(* the replay cache keeps expired rows (WP02-replay-cache.md:145).           *)
ClockSetBack ==
    /\ now > 0 /\ setBack < Grace
    /\ now' = now - 1
    /\ setBack' = setBack + 1
    /\ UNCHANGED <<consumed, pc, input, decision, policy, plan, status, started, artifact, submitted, ledger>>

-----------------------------------------------------------------------------
Deciding(c) ==
    \/ \E d \in Decisions : DecisionAnswered(c, d)
    \/ RequestFails(c) \/ VerifierThrows(c)
    \/ \E verdict \in Verdicts : DecisionRefused(c, verdict)
    \/ DecisionReplayed(c)
    \/ RegistryUnavailable(c)
    \/ DecisionReserved(c)

Acting(c) ==
    \/ ActionStarts(c)
    \/ ActionSkipped(c)
    \/ \E produced \in SUBSET Artifacts : ActionResolves(c, produced)
    \/ ActionThrows(c)
    \/ \E a \in Artifacts, verdict \in Lookups : ArtifactChecked(c, a, verdict)

Submitting(c) ==
    \E recorded \in BOOLEAN : OutputSubmitted(c, recorded) \/ OutputFails(c, recorded)

CallStep(c) ==
    \/ \E i \in Inputs : Call(c, i)
    \/ Deciding(c)
    \/ Acting(c)
    \/ Submitting(c)

Next == Restart \/ Tick \/ \E c \in Calls : CallStep(c)

Spec == Init /\ [][Next]_vars

(* The same, on a machine whose clock does not only go forward. *)
SkewedSpec == Init /\ [][Next \/ ClockSetBack]_vars

-----------------------------------------------------------------------------
TypeOK ==
    /\ now \in Nat /\ setBack \in Nat
    /\ consumed \subseteq [jti : Jtis, token : Tokens]
    /\ pc \in [Calls -> {"idle", "returned", "lost"} \cup Awaits]
    /\ input \in [Calls -> Inputs \cup {NoInput}]
    /\ decision \in [Calls -> Decisions \cup {NoDecision}]
    /\ policy \in [Calls -> {"none", "available", "unavailable"}]
    /\ plan \in [Calls -> Statuses]
    /\ status \in [Calls -> Statuses]
    /\ started \subseteq Calls
    /\ artifact \in [Calls -> [Artifacts -> {"none", "unchecked", "valid", "failed"}]]
    /\ submitted \subseteq Calls
    /\ ledger \subseteq [call : Calls, result : {"allow", "deny", "escalate"},
                       token : SUBSET [jti : Jtis, token : Tokens]]

(* One decision of the policy service, a response's id and its token,        *)
(* authorizes one action, whatever calls race for it or are given it again   *)
(* after a restart pruned the replay cache: "Any attempt to reuse a          *)
(* previously consumed JTI must be detected" (kitty-specs/                   *)
(* 005-live-control-plane-integration/tasks/WP02-replay-cache.md:28).        *)
(* Nothing is said of a token that comes in responses with different ids.    *)
DecisionAuthorizesOnce ==
    \A c, d \in started :
        /\ policy[c] = "available" /\ policy[d] = "available"
        /\ decision[c].jti = decision[d].jti
        /\ decision[c].token = decision[d].token
        => c = d

(* A signed token authorizes one action, whatever ids the responses that     *)
(* carried it had (the same page; runtimeOrchestrator.ts:158).               *)
TokenAuthorizesOnce ==
    \A c, d \in started :
        /\ policy[c] = "available" /\ policy[d] = "available"
        /\ decision[c].token = decision[d].token
        => c = d

(* A privileged action runs on an accepted "allow" that fits it, or, when no *)
(* decision was to be had, only at the risk the degraded mode covers         *)
(* (authorization.ts:22-68, runtimeExecution.ts:194).                        *)
ActsOnlyAuthorized ==
    \A c \in started :
        input[c].privileged =>
            \/ /\ policy[c] = "available"
               /\ decision[c].outcome = "allow" /\ decision[c].fits
            \/ /\ policy[c] = "unavailable"
               /\ input[c].risk \in {"low", "medium"}
               /\ input[c].tenant = "external" => input[c].risk = "low"

(* An external tenant's privileged action is returned as allowed only if its *)
(* output event was answered with a success status, and what the control     *)
(* plane kept of it says so too (runtimeExecution.ts:355).  That the event   *)
(* was kept is not claimed: a JSON-RPC error in the answer goes unread.      *)
ExternalIsReported ==
    \A c \in Calls :
        /\ pc[c] = "returned" /\ status[c] = "allowed"
        /\ input[c].privileged /\ input[c].tenant = "external"
        => c \in submitted /\ \A e \in ledger : e.call = c => e.result = "allow"

(* Under enforcement, a result returned as allowed has only artifacts whose  *)
(* provenance was found to fit (runtimeExecution.ts:262-266).                *)
EnforcedProvenance ==
    \A c \in Calls :
        /\ pc[c] = "returned" /\ status[c] = "allowed"
        /\ input[c].provenance = "enforce"
        => \A a \in Artifacts : artifact[c][a] \in {"none", "valid"}

(* The control plane's ledger agrees with what the desktop did: an event     *)
(* that says denied or escalated is of an action that never ran, and one     *)
(* decision (id and token) has allow events of one call only.                *)
LedgerIsTrue ==
    /\ \A e \in ledger : e.call \in started => e.result = "allow"
    /\ \A e, f \in ledger :
          /\ e.result = "allow" /\ f.result = "allow"
          /\ e.token # {} /\ e.token = f.token
          => e.call = f.call

(* "Given policy returns `deny`, When desktop evaluates an action, Then      *)
(* action is blocked" (kitty-specs/001-desktop-runtime-policy-enforcement/   *)
(* spec.md:37).                                                              *)
DenialBlocks ==
    \A c \in started : decision[c] # NoDecision => decision[c].outcome # "deny"
=============================================================================
