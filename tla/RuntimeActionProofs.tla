------------------------ MODULE RuntimeActionProofs ------------------------
(***************************************************************************)
(* Theorems about RuntimeAction, for every number of calls, tokens,          *)
(* artifacts and inputs, on a clock that only goes forward.                  *)
(***************************************************************************)
EXTENDS RuntimeAction, TLAPS

-----------------------------------------------------------------------------
(* The inductive invariant, in parts.                                        *)

(* What a call has settled by the time it is suspended where it is. *)
Stage(c) ==
    /\ pc[c] \in {"idle", "deciding", "verifying"} => policy[c] = "none"
    /\ pc[c] \in {"idle", "deciding", "verifying", "planned"} => c \notin started
    /\ pc[c] \in {"planned", "executing", "checking", "submitting", "returned"} =>
          policy[c] # "none"
    /\ pc[c] = "verifying" => decision[c] # NoDecision
    /\ policy[c] = "none" => plan[c] = "none"
    /\ pc[c] # "idle" \/ policy[c] # "none" => input[c] # NoInput
    /\ policy[c] = "available" => decision[c] # NoDecision
    /\ c \in started => plan[c] = "allowed" /\ policy[c] # "none"
    /\ status[c] \in {plan[c], "error"}

(* The row that reserving the decision of the call inserts. *)
Reservation(c) == [jti |-> decision[c].jti, token |-> decision[c].token]

(* Why a plan allows the action: its decision is reserved or its token has   *)
(* expired, or the degraded mode covers it.                                  *)
Authorized(c) ==
    plan[c] = "allowed" =>
        /\ policy[c] = "available" =>
              /\ decision[c].outcome = "allow" /\ decision[c].fits
              /\ \/ Reservation(c) \in consumed
                 \/ TokenExpiry[decision[c].token] < now
        /\ policy[c] = "unavailable" /\ input[c].privileged =>
              DegradesTo(input[c]) = "allowed"

Provenance(c) ==
    /\ pc[c] \in {"idle", "deciding", "verifying", "planned", "executing"} =>
          \A a \in Artifacts : artifact[c][a] = "none"
    /\ /\ pc[c] \in {"submitting", "returned"} /\ status[c] = "allowed"
       /\ input[c].provenance = "enforce"
       => \A a \in Artifacts : artifact[c][a] \in {"none", "valid"}

(* The call was allowed by a decision. *)
Held(c) == policy[c] = "available" /\ plan[c] = "allowed"

HeldOnce ==
    \A c, d \in Calls :
        /\ Held(c) /\ Held(d)
        /\ decision[c].jti = decision[d].jti
        /\ decision[c].token = decision[d].token
        => c = d

Recorded == \A e \in ledger : pc[e.call] = "returned" /\ e = Event(e.call)

CallInv(c) == Stage(c) /\ Authorized(c) /\ Provenance(c)

IInv ==
    /\ TypeOK
    /\ \A c \in Calls : CallInv(c)
    /\ HeldOnce
    /\ Recorded
    /\ ExternalIsReported

-----------------------------------------------------------------------------
USE DEF clock

LEMMA InitTypes == Init => TypeOK
  BY TokenAssumption DEF Init, TypeOK, Statuses

(* The types a plan leaves behind. *)
LEMMA PlannedTypes ==
    ASSUME TypeOK, NEW c \in Calls, NEW available \in {"available", "unavailable"},
           NEW s \in Statuses, Planned(c, available, s),
           input' \in [Calls -> Inputs \cup {NoInput}],
           decision' \in [Calls -> Decisions \cup {NoDecision}],
           consumed' \subseteq [jti : Jtis, token : Tokens]
    PROVE  TypeOK'
  BY DEF TypeOK, Planned, Awaits

LEMMA StatusTypes ==
    /\ \A outcome \in {"allow", "deny", "escalate"} : StatusOf(outcome) \in Statuses
    /\ \A i : UnavailablePlan(i) \in Statuses
    /\ \A s : PolicyResult(s) \in {"allow", "deny", "escalate"}
  BY DEF StatusOf, UnavailablePlan, DegradesTo, PolicyResult, Statuses

(* An output event of a planned call is well formed. *)
LEMMA EventType ==
    ASSUME TypeOK, NEW c \in Calls, policy[c] = "available" => decision[c] # NoDecision
    PROVE  /\ Event(c) \in [call : Calls, result : {"allow", "deny", "escalate"},
                            token : SUBSET [jti : Jtis, token : Tokens]]
           /\ Event(c).call = c
  BY StatusTypes DEF TypeOK, Event, Decisions

LEMMA StepTypes ==
    ASSUME TypeOK, \A c \in Calls : Stage(c), [Next]_vars
    PROVE  TypeOK'
  <1> USE TokenAssumption
  <1>1. CASE UNCHANGED vars
    BY <1>1 DEF vars, TypeOK
  <1>2. CASE Restart
    BY <1>2 DEF Restart, TypeOK, Pruned, Live, Awaits
  <1>3. CASE Tick
    BY <1>3 DEF Tick, TypeOK
  <1>4. ASSUME NEW c \in Calls, NEW i \in Inputs, Call(c, i) PROVE TypeOK'
    <2>1. CASE i.privileged
      BY <1>4, <2>1 DEF Call, TypeOK, Awaits
    <2>2. CASE ~i.privileged
      BY <1>4, <2>2, PlannedTypes, StatusTypes DEF Call, TypeOK
    <2>3. QED
      BY <2>1, <2>2
  <1>5. ASSUME NEW c \in Calls, NEW d \in Decisions, DecisionAnswered(c, d) PROVE TypeOK'
    BY <1>5 DEF DecisionAnswered, TypeOK, Awaits
  <1>6. ASSUME NEW c \in Calls, RequestFails(c) \/ VerifierThrows(c) PROVE TypeOK'
    BY <1>6, PlannedTypes, StatusTypes DEF RequestFails, VerifierThrows, PolicyUnavailable, TypeOK
  <1>7. ASSUME NEW c \in Calls, NEW verdict \in Verdicts, DecisionRefused(c, verdict)
        PROVE TypeOK'
    BY <1>7, PlannedTypes DEF DecisionRefused, TypeOK, Statuses
  <1>8. ASSUME NEW c \in Calls, DecisionReplayed(c) \/ RegistryUnavailable(c) PROVE TypeOK'
    BY <1>8, PlannedTypes DEF DecisionReplayed, RegistryUnavailable, TypeOK, Statuses
  <1>9. ASSUME NEW c \in Calls, DecisionReserved(c) PROVE TypeOK'
    <2>1. decision[c] \in Decisions
      BY <1>9 DEF DecisionReserved, TypeOK, Stage
    <2>2. /\ StatusOf(decision[c].outcome) \in Statuses
          /\ consumed' \subseteq [jti : Jtis, token : Tokens]
      BY <1>9, <2>1, StatusTypes DEF DecisionReserved, TypeOK, Decisions
    <2>3. QED
      BY <1>9, <2>2, PlannedTypes DEF DecisionReserved, TypeOK
  <1>10. ASSUME NEW c \in Calls, ActionStarts(c) \/ ActionSkipped(c) \/ ActionThrows(c)
         PROVE TypeOK'
    BY <1>10 DEF ActionStarts, ActionSkipped, ActionThrows, TypeOK, Awaits, Statuses
  <1>11. ASSUME NEW c \in Calls, NEW produced \in SUBSET Artifacts, ActionResolves(c, produced)
         PROVE TypeOK'
    BY <1>11 DEF ActionResolves, TypeOK, Awaits
  <1>12. ASSUME NEW c \in Calls, NEW a \in Artifacts, NEW verdict \in Lookups,
                ArtifactChecked(c, a, verdict)
         PROVE TypeOK'
    BY <1>12 DEF ArtifactChecked, Lookups, TypeOK, Awaits, Statuses
  <1>13. ASSUME NEW c \in Calls, NEW recorded \in BOOLEAN, OutputSubmitted(c, recorded)
         PROVE TypeOK'
    BY <1>13, EventType DEF OutputSubmitted, Recording, TypeOK, Stage
  <1>14. ASSUME NEW c \in Calls, NEW recorded \in BOOLEAN, OutputFails(c, recorded)
         PROVE TypeOK'
    BY <1>14, EventType DEF OutputFails, Recording, TypeOK, Stage, Statuses
  <1>15. QED
    BY <1>1, <1>2, <1>3, <1>4, <1>5, <1>6, <1>7, <1>8, <1>9, <1>10, <1>11, <1>12, <1>13, <1>14
       DEF Next, CallStep, Deciding, Acting, Submitting

-----------------------------------------------------------------------------
(* A step of one call leaves the others as they are.                         *)

Same(d) ==
    /\ pc'[d] = pc[d] /\ input'[d] = input[d] /\ decision'[d] = decision[d]
    /\ policy'[d] = policy[d] /\ plan'[d] = plan[d] /\ status'[d] = status[d]
    /\ artifact'[d] = artifact[d] /\ (d \in started' <=> d \in started)
    /\ (d \in submitted' <=> d \in submitted)

LEMMA OthersStay ==
    ASSUME TypeOK, NEW c \in Calls, CallStep(c), NEW d \in Calls, d # c
    PROVE  Same(d)
  <1>1. CASE \E i \in Inputs : Call(c, i)
    BY <1>1 DEF Call, Planned, UnavailablePlan, Same, TypeOK
  <1>2. CASE Deciding(c)
    BY <1>2 DEF Deciding, DecisionAnswered, RequestFails, VerifierThrows,
       PolicyUnavailable, UnavailablePlan, DecisionRefused,
       DecisionReplayed, RegistryUnavailable, DecisionReserved, Planned, Same, TypeOK
  <1>3. CASE ActionStarts(c) \/ ActionSkipped(c) \/ ActionThrows(c)
    BY <1>3 DEF ActionStarts, ActionSkipped, ActionThrows, Same, TypeOK
  <1>4. ASSUME NEW produced \in SUBSET Artifacts, ActionResolves(c, produced) PROVE Same(d)
    BY <1>4 DEF ActionResolves, Same, TypeOK
  <1>5. ASSUME NEW a \in Artifacts, NEW verdict \in Lookups,
               ArtifactChecked(c, a, verdict)
        PROVE Same(d)
    BY <1>5 DEF ArtifactChecked, Lookups, Same, TypeOK
  <1>6. CASE Submitting(c)
    BY <1>6 DEF Submitting, OutputSubmitted, OutputFails, Recording, Same, TypeOK
  <1>7. QED
    BY <1>1, <1>2, <1>3, <1>4, <1>5, <1>6 DEF CallStep, Acting

(* Tokens are only ever added to the replay cache by the calls, and only the *)
(* clock's step moves the clock.                                             *)
LEMMA SharedGrows ==
    ASSUME NEW c \in Calls, CallStep(c)
    PROVE  consumed \subseteq consumed' /\ now' = now
  <1>1. CASE \E i \in Inputs : Call(c, i)
    BY <1>1 DEF Call, Planned, UnavailablePlan
  <1>2. CASE Deciding(c)
    BY <1>2 DEF Deciding, DecisionAnswered, RequestFails, VerifierThrows,
       PolicyUnavailable, UnavailablePlan, DecisionRefused,
       DecisionReplayed, RegistryUnavailable, DecisionReserved, Planned
  <1>3. CASE Acting(c)
    BY <1>3 DEF Acting, ActionStarts, ActionSkipped, ActionThrows, ActionResolves,
       ArtifactChecked, Lookups
  <1>4. CASE Submitting(c)
    BY <1>4 DEF Submitting, OutputSubmitted, OutputFails, Recording
  <1>5. QED
    BY <1>1, <1>2, <1>3, <1>4 DEF CallStep

LEMMA SameInv ==
    ASSUME NEW d \in Calls, CallInv(d), Same(d), consumed \subseteq consumed', now' = now
    PROVE  CallInv(d)'
  BY DEF CallInv, Stage, Authorized, Reservation, Provenance, Same, DegradesTo

-----------------------------------------------------------------------------
(* A call keeps its own invariant.                                           *)

LEMMA StageKept ==
    ASSUME TypeOK, NEW c \in Calls, CallInv(c), CallStep(c)
    PROVE  Stage(c)'
  <1> USE DEF CallInv, Stage, TypeOK
  <1>1. ASSUME NEW i \in Inputs, Call(c, i) PROVE Stage(c)'
    BY <1>1, InputAssumption DEF Call, Planned, UnavailablePlan
  <1>2. ASSUME NEW d \in Decisions, DecisionAnswered(c, d) PROVE Stage(c)'
    BY <1>2, DecisionAssumption DEF DecisionAnswered
  <1>3. CASE RequestFails(c) \/ VerifierThrows(c)
    BY <1>3 DEF RequestFails, VerifierThrows, PolicyUnavailable, UnavailablePlan, Planned
  <1>4. CASE (\E verdict \in Verdicts : DecisionRefused(c, verdict)) \/ DecisionReplayed(c)
    BY <1>4 DEF DecisionRefused, DecisionReplayed, Planned
  <1>5. CASE RegistryUnavailable(c) \/ DecisionReserved(c)
    BY <1>5 DEF RegistryUnavailable, DecisionReserved, Planned
  <1>6. CASE ActionStarts(c) \/ ActionSkipped(c) \/ ActionThrows(c)
    BY <1>6 DEF ActionStarts, ActionSkipped, ActionThrows
  <1>7. ASSUME NEW produced \in SUBSET Artifacts, ActionResolves(c, produced) PROVE Stage(c)'
    BY <1>7 DEF ActionResolves
  <1>8. ASSUME NEW a \in Artifacts, NEW verdict \in Lookups,
               ArtifactChecked(c, a, verdict)
        PROVE Stage(c)'
    BY <1>8 DEF ArtifactChecked, Lookups
  <1>9. CASE Submitting(c)
    BY <1>9 DEF Submitting, OutputSubmitted, OutputFails, Recording
  <1>10. QED
    BY <1>1, <1>2, <1>3, <1>4, <1>5, <1>6, <1>7, <1>8, <1>9
       DEF CallStep, Deciding, Acting

(* The plan is made once; only DecisionReserved makes one that a token       *)
(* allows, and it has just consumed the token.                               *)
LEMMA AuthorizedKept ==
    ASSUME TypeOK, NEW c \in Calls, CallInv(c), CallStep(c)
    PROVE  Authorized(c)'
  <1> USE DEF CallInv, Stage, Authorized, Reservation, TypeOK
  <1>1. ASSUME NEW i \in Inputs, Call(c, i) PROVE Authorized(c)'
    BY <1>1 DEF Call, Planned, UnavailablePlan, DegradesTo
  <1>2. CASE \E d \in Decisions : DecisionAnswered(c, d)
    BY <1>2 DEF DecisionAnswered, DegradesTo
  <1>3. CASE RequestFails(c) \/ VerifierThrows(c)
    BY <1>3 DEF RequestFails, VerifierThrows, PolicyUnavailable, UnavailablePlan, Planned, DegradesTo
  <1>4. CASE (\E verdict \in Verdicts : DecisionRefused(c, verdict)) \/ DecisionReplayed(c)
    BY <1>4 DEF DecisionRefused, DecisionReplayed, Planned
  <1>5. CASE RegistryUnavailable(c)
    BY <1>5 DEF RegistryUnavailable, Planned
  <1>6. CASE DecisionReserved(c)
    BY <1>6 DEF DecisionReserved, Planned, StatusOf, TokenValid, Decisions
  <1>7. CASE Acting(c)
    BY <1>7 DEF Acting, ActionStarts, ActionSkipped, ActionThrows, ActionResolves,
       ArtifactChecked, Lookups, DegradesTo
  <1>8. CASE Submitting(c)
    BY <1>8 DEF Submitting, OutputSubmitted, OutputFails, Recording, DegradesTo
  <1>9. QED
    BY <1>1, <1>2, <1>3, <1>4, <1>5, <1>6, <1>7, <1>8 DEF CallStep, Deciding

(* An enforced result that stays allowed has no artifact whose check failed: *)
(* the last check looks at all of them.                                      *)
LEMMA ProvenanceKept ==
    ASSUME TypeOK, NEW c \in Calls, CallInv(c), CallStep(c)
    PROVE  Provenance(c)'
  <1> USE DEF CallInv, Stage, Provenance, TypeOK
  <1>1. CASE \E i \in Inputs : Call(c, i)
    BY <1>1 DEF Call, Planned, UnavailablePlan
  <1>2. CASE Deciding(c)
    BY <1>2 DEF Deciding, DecisionAnswered, RequestFails, VerifierThrows,
       PolicyUnavailable, UnavailablePlan, DecisionRefused,
       DecisionReplayed, RegistryUnavailable, DecisionReserved, Planned
  <1>3. CASE ActionStarts(c) \/ ActionSkipped(c) \/ ActionThrows(c)
    BY <1>3 DEF ActionStarts, ActionSkipped, ActionThrows
  <1>4. ASSUME NEW produced \in SUBSET Artifacts, ActionResolves(c, produced)
        PROVE Provenance(c)'
    BY <1>4 DEF ActionResolves
  <1>5. ASSUME NEW a \in Artifacts, NEW verdict \in Lookups,
               ArtifactChecked(c, a, verdict)
        PROVE Provenance(c)'
    <2>1. CASE pc' = pc
      BY <1>5, <2>1 DEF ArtifactChecked, Lookups
    <2>2. CASE /\ \A b \in Artifacts : artifact'[c][b] # "unchecked"
               /\ pc' = [pc EXCEPT ![c] = "submitting"]
               /\ status' = [status EXCEPT ![c] =
                     IF /\ input[c].provenance = "enforce" /\ SomeFailed(artifact'[c])
                     THEN "error" ELSE @]
      <3>1. \A b \in Artifacts : artifact'[c][b] \in {"none", "valid", "failed"}
        BY <1>5, <2>2 DEF ArtifactChecked, Lookups
      <3>2. input' = input /\ pc'[c] = "submitting"
        BY <1>5, <2>2 DEF ArtifactChecked, Lookups
      <3>3. status'[c] = "allowed" /\ input[c].provenance = "enforce"
               => ~SomeFailed(artifact'[c])
        BY <2>2
      <3>4. ~SomeFailed(artifact'[c]) => \A b \in Artifacts : artifact'[c][b] # "failed"
        BY DEF SomeFailed
      <3>5. QED
        BY <3>1, <3>2, <3>3, <3>4
    <2>3. QED
      BY <1>5, <2>1, <2>2 DEF ArtifactChecked, Lookups
  <1>6. CASE Submitting(c)
    BY <1>6 DEF Submitting, OutputSubmitted, OutputFails, Recording
  <1>7. QED
    BY <1>1, <1>2, <1>3, <1>4, <1>5, <1>6 DEF CallStep, Acting

-----------------------------------------------------------------------------
(* One call per token.                                                       *)

(* A call that a token newly allows found it fresh and not consumed.         *)
LEMMA NewlyHeld ==
    ASSUME TypeOK, NEW c \in Calls, CallInv(c), CallStep(c), Held(c)'
    PROVE  /\ decision'[c].jti = decision[c].jti
           /\ decision'[c].token = decision[c].token
           /\ \/ Held(c)
              \/ ~Known(c) /\ TokenExpiry[decision[c].token] > now
  <1> USE DEF CallInv, Stage, Held, TypeOK
  <1>1. CASE \E i \in Inputs : Call(c, i)
    BY <1>1 DEF Call, Planned, UnavailablePlan
  <1>2. CASE \E d \in Decisions : DecisionAnswered(c, d)
    BY <1>2 DEF DecisionAnswered
  <1>3. CASE RequestFails(c) \/ VerifierThrows(c)
    BY <1>3 DEF RequestFails, VerifierThrows, PolicyUnavailable, UnavailablePlan, Planned
  <1>4. CASE (\E verdict \in Verdicts : DecisionRefused(c, verdict)) \/ DecisionReplayed(c)
    BY <1>4 DEF DecisionRefused, DecisionReplayed, Planned
  <1>5. CASE RegistryUnavailable(c)
    BY <1>5 DEF RegistryUnavailable, Planned
  <1>6. CASE DecisionReserved(c)
    BY <1>6 DEF DecisionReserved, Planned, TokenValid
  <1>7. CASE Acting(c)
    BY <1>7 DEF Acting, ActionStarts, ActionSkipped, ActionThrows, ActionResolves,
       ArtifactChecked, Lookups
  <1>8. CASE Submitting(c)
    BY <1>8 DEF Submitting, OutputSubmitted, OutputFails, Recording
  <1>9. QED
    BY <1>1, <1>2, <1>3, <1>4, <1>5, <1>6, <1>7, <1>8 DEF CallStep, Deciding

(* So its decision is not that of another call it allowed, for that one is   *)
(* still in the replay cache or its token has expired.                       *)
LEMMA HeldOnceKept ==
    ASSUME IInv, TypeOK', NEW c \in Calls, CallStep(c)
    PROVE  HeldOnce'
  <1> DEFINE Alike(d, e) == d.jti = e.jti /\ d.token = e.token
  <1> SUFFICES ASSUME NEW d \in Calls, NEW e \in Calls, d # e,
                      Held(d)', Held(e)', Alike(decision'[d], decision'[e])
               PROVE  FALSE
    BY DEF HeldOnce
  <1>1. \A x \in Calls : x # c => Same(x)
    BY OthersStay DEF IInv
  <1>2. \A x \in Calls : x # c /\ Held(x)' => Held(x) /\ decision'[x] = decision[x]
    BY <1>1 DEF Same, Held
  <1>3. ASSUME NEW x \in Calls, NEW y \in Calls, x = c, y # c,
               Held(x)', Held(y)', Alike(decision'[x], decision'[y])
        PROVE FALSE
    <2>1. /\ Held(y) /\ Alike(decision[x], decision[y])
          /\ \/ Held(x)
             \/ ~Known(x) /\ TokenExpiry[decision[x].token] > now
      BY <1>2, <1>3, NewlyHeld DEF IInv
    <2>2. Held(y) => \/ Reservation(y) \in consumed
                     \/ TokenExpiry[decision[y].token] < now
      BY DEF IInv, CallInv, Authorized, Held
    <2>3. Reservation(y) \in consumed => Known(x)
      BY <2>1 DEF Known, Reservation
    <2>4. decision[y].token \in Tokens
      BY <2>1 DEF IInv, TypeOK, CallInv, Stage, Held, Decisions
    <2>5. TokenExpiry[decision[y].token] \in Nat /\ now \in Nat
      BY <2>4, TokenAssumption DEF IInv, TypeOK
    <2>6. CASE Held(x)
      BY <1>3, <2>1, <2>6 DEF IInv, HeldOnce
    <2>7. QED
      BY <2>1, <2>2, <2>3, <2>5, <2>6
  <1>4. CASE d # c /\ e # c
    BY <1>2, <1>4 DEF IInv, HeldOnce
  <1>5. QED
    BY <1>3, <1>4

-----------------------------------------------------------------------------
(* The ledger.                                                               *)

(* The calls whose events are recorded have returned, and stay as they are.  *)
LEMMA ReturnedStays ==
    ASSUME TypeOK, NEW c \in Calls, CallStep(c), NEW d \in Calls, pc[d] = "returned"
    PROVE  d # c /\ Same(d)
  <1>1. pc[c] # "returned"
    BY DEF CallStep, Call, Deciding, DecisionAnswered, RequestFails, VerifierThrows,
       PolicyUnavailable, UnavailablePlan, DecisionRefused,
       DecisionReplayed, RegistryUnavailable, DecisionReserved, Acting, ActionStarts,
       ActionSkipped, ActionThrows, ActionResolves, ArtifactChecked, Lookups, Submitting,
       OutputSubmitted, OutputFails, Recording
  <1>2. QED
    BY <1>1, OthersStay

(* Only a call that submits its output adds to the ledger, and returns.      *)
LEMMA LedgerStep ==
    ASSUME TypeOK, NEW c \in Calls, CallStep(c)
    PROVE  /\ \/ ledger' = ledger
              \/ /\ pc[c] = "submitting" /\ pc'[c] = "returned"
                 /\ ledger' = ledger \cup {Event(c)}
                 /\ UNCHANGED <<decision, policy, plan>>
           /\ \/ pc'[c] # "returned" \/ status'[c] = "error" \/ ~FailsClosed(c)
              \/ c \in submitted'
  <1> USE DEF TypeOK
  <1>1. CASE \E i \in Inputs : Call(c, i)
    BY <1>1 DEF Call, Planned, UnavailablePlan
  <1>2. CASE Deciding(c)
    BY <1>2 DEF Deciding, DecisionAnswered, RequestFails, VerifierThrows,
       PolicyUnavailable, UnavailablePlan, DecisionRefused,
       DecisionReplayed, RegistryUnavailable, DecisionReserved, Planned
  <1>3. CASE Acting(c)
    BY <1>3 DEF Acting, ActionStarts, ActionSkipped, ActionThrows, ActionResolves,
       ArtifactChecked, Lookups
  <1>4. CASE Submitting(c)
    BY <1>4 DEF Submitting, OutputSubmitted, OutputFails, Recording
  <1>5. QED
    BY <1>1, <1>2, <1>3, <1>4 DEF CallStep

LEMMA RecordedKept ==
    ASSUME IInv, TypeOK', NEW c \in Calls, CallStep(c)
    PROVE  Recorded'
  <1> SUFFICES ASSUME NEW e \in ledger'
               PROVE  pc'[e.call] = "returned" /\ e = Event(e.call)'
    BY DEF Recorded
  <1>1. CASE e \in ledger
    <2>1. e.call \in Calls /\ pc[e.call] = "returned" /\ e = Event(e.call)
      BY <1>1 DEF IInv, TypeOK, Recorded
    <2>2. Same(e.call)
      BY <2>1, ReturnedStays DEF IInv
    <2>3. QED
      BY <2>1, <2>2 DEF Same, Event, PolicyResult
  <1>2. CASE e \notin ledger
    <2>1. /\ e = Event(c) /\ pc'[c] = "returned"
          /\ UNCHANGED <<decision, policy, plan>>
      BY <1>2, LedgerStep DEF IInv
    <2>2. e.call = c
      BY <2>1 DEF Event
    <2>3. QED
      BY <2>1, <2>2 DEF Event, PolicyResult
  <1>3. QED
    BY <1>1, <1>2

LEMMA ReturnedIsSubmitted ==
    ASSUME TypeOK, NEW c \in Calls, CallStep(c), pc'[c] = "returned"
    PROVE  pc[c] = "submitting" /\ input' = input
  <1> USE DEF TypeOK
  <1>1. CASE \E i \in Inputs : Call(c, i)
    BY <1>1 DEF Call, Planned, UnavailablePlan
  <1>2. CASE Deciding(c)
    BY <1>2 DEF Deciding, DecisionAnswered, RequestFails, VerifierThrows,
       PolicyUnavailable, UnavailablePlan, DecisionRefused,
       DecisionReplayed, RegistryUnavailable, DecisionReserved, Planned
  <1>3. CASE Acting(c)
    BY <1>3 DEF Acting, ActionStarts, ActionSkipped, ActionThrows, ActionResolves,
       ArtifactChecked, Lookups
  <1>4. CASE Submitting(c)
    BY <1>4 DEF Submitting, OutputSubmitted, OutputFails, Recording
  <1>5. QED
    BY <1>1, <1>2, <1>3, <1>4 DEF CallStep

LEMMA ReportKept ==
    ASSUME IInv, TypeOK', Recorded', NEW c \in Calls, CallStep(c)
    PROVE  ExternalIsReported'
  <1> SUFFICES ASSUME NEW d \in Calls,
                      pc'[d] = "returned", status'[d] = "allowed",
                      input'[d].privileged, input'[d].tenant = "external"
               PROVE  d \in submitted' /\ \A e \in ledger' : e.call = d => e.result = "allow"
    BY DEF ExternalIsReported
  <1>1. d \in submitted'
    <2>1. CASE d # c
      BY <2>1, OthersStay DEF IInv, ExternalIsReported, Same
    <2>2. CASE d = c
      <3>1. input' = input
        BY <2>2, ReturnedIsSubmitted DEF IInv
      <3>2. QED
        BY <2>2, <3>1, LedgerStep DEF IInv, FailsClosed
    <2>3. QED
      BY <2>1, <2>2
  <1>2. Stage(d)'
    BY StageKept, OthersStay, SharedGrows, SameInv DEF IInv, CallInv
  <1>3. plan'[d] = "allowed"
    BY <1>2 DEF Stage
  <1>4. ASSUME NEW e \in ledger', e.call = d PROVE e.result = "allow"
    BY <1>3, <1>4 DEF Recorded, Event, PolicyResult
  <1>5. QED
    BY <1>1, <1>4

-----------------------------------------------------------------------------
(* The steps that are of no call.                                            *)

(* A restart forgets only tokens that have expired.                          *)
LEMMA RestartKeeps == ASSUME IInv, TypeOK', Restart PROVE IInv'
  <1> USE DEF IInv, Restart, TypeOK
  <1>1. ASSUME NEW c \in Calls PROVE CallInv(c)'
    <2>1. /\ pc'[c] = pc[c] \/ (pc[c] \notin {"idle", "returned"} /\ pc'[c] = "lost")
          /\ CallInv(c)
      <3>1. pc'[c] = IF Live(c) THEN "lost" ELSE pc[c]
        OBVIOUS
      <3>2. Live(c) => pc[c] \notin {"idle", "returned"}
        BY DEF Live, Awaits
      <3>3. QED
        BY <3>1, <3>2
    <2>2. Stage(c)' /\ Provenance(c)'
      BY <2>1 DEF CallInv, Stage, Provenance
    <2>3. Authorized(c)'
      <3>1. CASE plan[c] = "allowed" /\ policy[c] = "available"
        <4>1. decision[c] \in Decisions
          BY <2>1, <3>1 DEF CallInv, Stage
        <4>2. TokenExpiry[decision[c].token] \in Nat
          BY <4>1, TokenAssumption DEF Decisions
        <4>3. QED
          BY <2>1, <3>1, <4>2 DEF CallInv, Authorized, Pruned, Reservation
      <3>2. CASE ~(plan[c] = "allowed" /\ policy[c] = "available")
        BY <2>1, <3>2 DEF CallInv, Authorized, DegradesTo
      <3>3. QED
        BY <3>1, <3>2
    <2>4. QED
      BY <2>2, <2>3 DEF CallInv
  <1>2. HeldOnce'
    BY DEF HeldOnce, Held
  <1>3. Recorded'
    <2>1. ASSUME NEW e \in ledger
          PROVE  pc'[e.call] = "returned" /\ e = Event(e.call)'
      BY DEF Recorded, Event, PolicyResult, Live, Awaits
    <2>2. QED
      BY <2>1 DEF Recorded
  <1>4. ExternalIsReported'
    BY DEF ExternalIsReported, Live, Awaits
  <1>5. QED
    BY <1>1, <1>2, <1>3, <1>4

LEMMA TickKeeps == ASSUME IInv, TypeOK', Tick PROVE IInv'
  <1> USE DEF IInv, Tick, TypeOK
  <1>1. ASSUME NEW c \in Calls PROVE CallInv(c)'
    <2>1. Stage(c)' /\ Provenance(c)'
      BY DEF CallInv, Stage, Provenance
    <2>2. Authorized(c)'
      <3>1. CASE plan[c] = "allowed" /\ policy[c] = "available"
        <4>1. decision[c] \in Decisions
          BY <3>1 DEF CallInv, Stage
        <4>2. TokenExpiry[decision[c].token] \in Nat
          BY <4>1, TokenAssumption DEF Decisions
        <4>3. now \in Nat /\ now' = now + 1 /\ Reservation(c)' = Reservation(c)
          BY DEF Reservation
        <4>4. \/ Reservation(c) \in consumed
              \/ TokenExpiry[decision[c].token] < now
          BY <3>1 DEF CallInv, Authorized
        <4>5. \/ Reservation(c)' \in consumed'
              \/ TokenExpiry[decision'[c].token] < now'
          BY <4>2, <4>3, <4>4
        <4>6. QED
          BY <3>1, <4>5 DEF CallInv, Authorized
      <3>2. CASE ~(plan[c] = "allowed" /\ policy[c] = "available")
        BY <3>2 DEF CallInv, Authorized, DegradesTo
      <3>3. QED
        BY <3>1, <3>2
    <2>3. QED
      BY <2>1, <2>2 DEF CallInv
  <1>2. HeldOnce' /\ Recorded' /\ ExternalIsReported'
    BY DEF HeldOnce, Held, Recorded, Event, PolicyResult, ExternalIsReported
  <1>3. QED
    BY <1>1, <1>2

LEMMA StutterKeeps == ASSUME IInv, UNCHANGED vars PROVE IInv'
  BY DEF IInv, vars, TypeOK, CallInv, Stage, Authorized, Reservation, Provenance, HeldOnce,
     Held, Recorded, Event, PolicyResult, ExternalIsReported, DegradesTo

-----------------------------------------------------------------------------
LEMMA StepKeeps == ASSUME IInv, [Next]_vars PROVE IInv'
  <1>1. TypeOK'
    BY StepTypes DEF IInv, CallInv
  <1>2. ASSUME NEW c \in Calls, CallStep(c) PROVE IInv'
    <2>1. ASSUME NEW d \in Calls PROVE CallInv(d)'
      <3>1. CASE d = c
        BY <1>2, <3>1, StageKept, AuthorizedKept, ProvenanceKept DEF IInv, CallInv
      <3>2. CASE d # c
        BY <1>2, <3>2, OthersStay, SharedGrows, SameInv DEF IInv
      <3>3. QED
        BY <3>1, <3>2
    <2>2. HeldOnce' /\ Recorded'
      BY <1>1, <1>2, HeldOnceKept, RecordedKept
    <2>3. ExternalIsReported'
      BY <1>1, <1>2, <2>2, ReportKept
    <2>4. QED
      BY <1>1, <2>1, <2>2, <2>3 DEF IInv
  <1>3. QED
    BY <1>1, <1>2, RestartKeeps, TickKeeps, StutterKeeps DEF Next

(* The invariant holds in every state of every behaviour. *)
THEOREM Invariance == Spec => []IInv
  <1>1. Init => IInv
    <2> SUFFICES ASSUME Init PROVE IInv
      OBVIOUS
    <2>1. TypeOK
      BY InitTypes
    <2>2. ASSUME NEW c \in Calls PROVE CallInv(c)
      BY <2>2 DEF Init, CallInv, Stage, Authorized, Provenance
    <2>3. HeldOnce /\ Recorded /\ ExternalIsReported
      BY DEF Init, HeldOnce, Held, Recorded, ExternalIsReported
    <2>4. QED
      BY <2>1, <2>2, <2>3 DEF IInv
  <1>2. IInv /\ [Next]_vars => IInv'
    BY StepKeeps
  <1>3. QED
    BY <1>1, <1>2, PTL DEF Spec

(* Every variable keeps its type (runtimeExecution.ts, runtimeOrchestrator.ts). *)
THEOREM TypeCorrect == Spec => []TypeOK
  <1>1. IInv => TypeOK
    BY DEF IInv
  <1>2. QED
    BY <1>1, Invariance, PTL

(* One decision of the policy service (its id and token) authorizes one      *)
(* action, however many calls race for it and however often the companion    *)
(* restarts and prunes its replay cache.                                     *)
THEOREM SingleUse == Spec => []DecisionAuthorizesOnce
  <1>1. IInv => DecisionAuthorizesOnce
    BY DEF IInv, TypeOK, CallInv, Stage, HeldOnce, Held, DecisionAuthorizesOnce
  <1>2. QED
    BY <1>1, Invariance, PTL

(* Each token comes in responses with one id, as it does from a service that *)
(* repeats the token's own id beside it.                                     *)
OneIdPerToken ==
    \A c, d \in Calls :
        /\ decision[c] # NoDecision /\ decision[d] # NoDecision
        /\ decision[c].token = decision[d].token
        => decision[c].jti = decision[d].jti

(* A signed token authorizes one action as long as the policy service gives  *)
(* it one id: what the companion does not check itself.                      *)
THEOREM SingleUseOfTokens == Spec /\ []OneIdPerToken => []TokenAuthorizesOnce
  <1>1. IInv /\ DecisionAuthorizesOnce /\ OneIdPerToken => TokenAuthorizesOnce
    BY DEF IInv, TypeOK, CallInv, Stage, DecisionAuthorizesOnce, OneIdPerToken,
       TokenAuthorizesOnce
  <1>2. QED
    BY <1>1, Invariance, SingleUse, PTL

(* Privileged actions run only on an allow that fits them, or where the      *)
(* degraded mode covers their risk.                                          *)
THEOREM PolicyGate == Spec => []ActsOnlyAuthorized
  <1>1. ASSUME IInv, NEW c \in started, input[c].privileged
        PROVE  \/ /\ policy[c] = "available"
                  /\ decision[c].outcome = "allow" /\ decision[c].fits
               \/ /\ policy[c] = "unavailable"
                  /\ input[c].risk \in {"low", "medium"}
                  /\ input[c].tenant = "external" => input[c].risk = "low"
    <2>1. /\ c \in Calls /\ plan[c] = "allowed" /\ Authorized(c)
          /\ policy[c] \in {"available", "unavailable"}
      BY <1>1 DEF IInv, TypeOK, CallInv, Stage
    <2>2. input[c] \in InputType
      BY <1>1, <2>1, InputAssumption DEF IInv, TypeOK, CallInv, Stage
    <2>3. input[c].risk \in RiskLevels /\ input[c].tenant \in {"internal", "external"}
      BY <2>2 DEF InputType
    <2>4. QED
      BY <1>1, <2>1, <2>3 DEF Authorized, DegradesTo, RiskLevels
  <1>2. IInv => ActsOnlyAuthorized
    BY <1>1 DEF ActsOnlyAuthorized
  <1>3. QED
    BY <1>2, Invariance, PTL

(* An external tenant's call is returned as allowed only if its report was   *)
(* answered with a success status, and the ledger never says otherwise.      *)
THEOREM FailClosed == Spec => []ExternalIsReported
  <1>1. IInv => ExternalIsReported
    BY DEF IInv
  <1>2. QED
    BY <1>1, Invariance, PTL

(* Enforcement lets no artifact with a failed check through as allowed. *)
THEOREM ProvenanceEnforced == Spec => []EnforcedProvenance
  <1>1. IInv => EnforcedProvenance
    BY DEF IInv, CallInv, Provenance, EnforcedProvenance
  <1>2. QED
    BY <1>1, Invariance, PTL

(* The control plane's ledger agrees with what the desktop did. *)
THEOREM TrueLedger == Spec => []LedgerIsTrue
  <1>1. ASSUME IInv, NEW e \in ledger, e.call \in started PROVE e.result = "allow"
    <2>1. e = Event(e.call) /\ e.call \in Calls
      BY <1>1 DEF IInv, Recorded, TypeOK
    <2>2. plan[e.call] = "allowed"
      BY <1>1, <2>1 DEF IInv, CallInv, Stage
    <2>3. QED
      BY <2>1, <2>2 DEF Event, PolicyResult
  <1>2. ASSUME IInv, NEW e \in ledger, NEW f \in ledger,
               e.result = "allow", f.result = "allow", e.token # {}, e.token = f.token
        PROVE  e.call = f.call
    <2>1. /\ e = Event(e.call) /\ e.call \in Calls
          /\ f = Event(f.call) /\ f.call \in Calls
      BY <1>2 DEF IInv, Recorded, TypeOK
    <2>2. /\ PolicyResult(plan[e.call]) = "allow" /\ PolicyResult(plan[f.call]) = "allow"
          /\ policy[e.call] = "available" /\ policy[f.call] = "available"
          /\ Reservation(e.call) = Reservation(f.call)
      BY <1>2, <2>1 DEF Event, Reservation
    <2>3. plan[e.call] = "allowed" /\ plan[f.call] = "allowed"
      BY <2>2 DEF PolicyResult
    <2>4. QED
      BY <1>2, <2>1, <2>2, <2>3 DEF IInv, HeldOnce, Held, Reservation
  <1>3. IInv => LedgerIsTrue
    BY <1>1, <1>2 DEF LedgerIsTrue
  <1>4. QED
    BY <1>3, Invariance, PTL
=============================================================================
