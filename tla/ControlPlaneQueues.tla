------------------------- MODULE ControlPlaneQueues -------------------------
(***************************************************************************)
(* The two background services of the control plane's client: the refresh    *)
(* of decision tokens, and the queue of events with the retrying HTTP        *)
(* client below it.                                                          *)
(***************************************************************************)
EXTENDS Naturals, Sequences

CONSTANTS
    Keys,          \* action keys of the token refresh
    MaxAttempts,   \* maxAttempts of the emitter
    RetryMax,      \* retryMaxAttempts of the client
    MaxEvents, MaxCancels   \* bounds

ASSUME QueueBounds ==
    /\ MaxAttempts \in Nat \ {0} /\ RetryMax \in Nat \ {0}
    /\ MaxEvents \in Nat /\ MaxCancels \in Nat

Drains == {1, 2}   \* activations of drainLoop

VARIABLES
    timers,        \* keys with a refresh timer
    inFlight,      \* keys with an entry in inFlight
    outstanding,   \* outstanding[k]: requests of k that are under way
    cancels,       \* how often cancelAll ran
    emitted,       \* events emitted: 1..emitted
    queue,         \* the emitter's queue
    attempts,      \* attempts[e] of an event
    drain,         \* drain[d]: what an activation of drainLoop does, for which event
    draining,      \* the flag
    accepted,      \* events the control plane has received
    logged,        \* events in the failure log
    lost,          \* history: events whose entry in that log could not be written
    gone,          \* events shifted from the queue
    missed,        \* history: events pushed when the loop had seen an empty queue
    shutdown       \* "no", "flushing", "exited"

refreshVars == <<timers, inFlight, outstanding, cancels>>
eventVars == <<emitted, queue, attempts, drain, draining, accepted, logged, lost, gone, missed, shutdown>>
queueVars == <<refreshVars, eventVars>>

Idle == [at |-> "idle", event |-> 0, sends |-> 0]

RefreshInit ==
    /\ timers = {} /\ inFlight = {} /\ cancels = 0
    /\ outstanding = [k \in Keys |-> 0]

EmitterInit ==
    /\ emitted = 0 /\ queue = <<>>
    /\ attempts = [e \in 1..MaxEvents |-> 0]
    /\ drain = [d \in Drains |-> Idle]
    /\ draining = FALSE
    /\ accepted = {} /\ logged = {} /\ lost = {} /\ gone = {} /\ missed = {}
    /\ shutdown = "no"

QueuesInit == RefreshInit /\ EmitterInit

-----------------------------------------------------------------------------
(* Token refresh.  A token whose time is up is refreshed at once, otherwise  *)
(* by a timer, unless there is a timer or a request already.                 *)

DoRefresh(k, tracked, running) ==
    /\ inFlight' = tracked \cup {k}
    /\ outstanding' = [outstanding EXCEPT ![k] = running + 1]

(* Mutated form of ScheduleRefresh: requests in flight are not looked at. *)
ScheduleRefreshAlways(k, tracked, running) ==
    IF k \in timers
    THEN inFlight' = tracked /\ outstanding' = [outstanding EXCEPT ![k] = running] /\ UNCHANGED timers
    ELSE \/ DoRefresh(k, tracked, running) /\ UNCHANGED timers
         \/ /\ timers' = timers \cup {k}
            /\ inFlight' = tracked
            /\ outstanding' = [outstanding EXCEPT ![k] = running]

ScheduleRefresh(k, tracked, running) ==
    IF k \in timers \cup tracked
    THEN inFlight' = tracked /\ outstanding' = [outstanding EXCEPT ![k] = running] /\ UNCHANGED timers
    ELSE \/ DoRefresh(k, tracked, running) /\ UNCHANGED timers
         \/ /\ timers' = timers \cup {k}
            /\ inFlight' = tracked
            /\ outstanding' = [outstanding EXCEPT ![k] = running]

Schedule(k) ==
    /\ shutdown # "exited"
    /\ ScheduleRefresh(k, inFlight, outstanding[k])
    /\ UNCHANGED <<cancels, eventVars>>

RefreshTimerFires(k) ==
    /\ shutdown # "exited" /\ k \in timers
    /\ timers' = timers \ {k}
    /\ DoRefresh(k, inFlight, outstanding[k])
    /\ UNCHANGED <<cancels, eventVars>>

(* An answer clears the key's entry, be it its own or a later request's. *)
RefreshResolves(k) ==
    /\ shutdown # "exited" /\ outstanding[k] > 0
    /\ ScheduleRefresh(k, inFlight \ {k}, outstanding[k] - 1)
    /\ UNCHANGED <<cancels, eventVars>>

RefreshRejects(k) ==
    /\ shutdown # "exited" /\ outstanding[k] > 0
    /\ outstanding' = [outstanding EXCEPT ![k] = @ - 1]
    /\ inFlight' = inFlight \ {k}
    /\ UNCHANGED <<timers, cancels, eventVars>>

CancelAll ==
    /\ shutdown = "no" /\ cancels < MaxCancels
    /\ timers' = {} /\ inFlight' = {} /\ cancels' = cancels + 1
    /\ UNCHANGED <<outstanding, eventVars>>

-----------------------------------------------------------------------------
(* The emitter.  The loop takes the head of the queue, or is about to end.   *)

Looks(q) ==
    IF q = <<>> THEN [at |-> "finishing", event |-> 0, sends |-> 0]
    ELSE [at |-> "sending", event |-> Head(q), sends |-> 1]

Starts(q) ==
    IF draining THEN UNCHANGED <<draining, drain>>
    ELSE /\ draining' = TRUE
         /\ drain' = [drain EXCEPT ![CHOOSE d \in Drains : drain[d] = Idle] = Looks(q)]

Emit ==
    /\ shutdown # "exited" /\ emitted < MaxEvents
    /\ emitted' = emitted + 1
    /\ queue' = Append(queue, emitted')
    /\ Starts(queue')
    /\ missed' = missed \cup {e \in {emitted'} : \E d \in Drains : drain[d].at = "finishing"}
    /\ UNCHANGED <<refreshVars, attempts, accepted, logged, lost, gone, shutdown>>

Busy(d) == shutdown # "exited" /\ drain[d].at = "sending"

(* A request may be received whether or not an answer to it arrives. *)
Received(d) == accepted' \in {accepted, accepted \cup {drain[d].event}}

Shifts(d) ==
    /\ queue' = Tail(queue)
    /\ gone' = gone \cup {Head(queue)}
    /\ drain' = [drain EXCEPT ![d] = Looks(queue')]

(* The answer is a success. *)
Delivered(d) ==
    /\ Busy(d) /\ queue # <<>>
    /\ accepted' = accepted \cup {drain[d].event}
    /\ Shifts(d)
    /\ UNCHANGED <<refreshVars, emitted, attempts, draining, logged, lost, missed, shutdown>>

(* Mutated form of ClientRetries: one retry more. *)
ClientRetriesOnceMore(d) ==
    /\ Busy(d) /\ drain[d].sends <= RetryMax
    /\ Received(d)
    /\ drain' = [drain EXCEPT ![d].sends = @ + 1]
    /\ UNCHANGED <<refreshVars, emitted, queue, attempts, draining, logged, lost, gone, missed, shutdown>>

(* The client: 429, 502, 503, 504 or a broken connection; not a timeout. *)
ClientRetries(d) ==
    /\ Busy(d) /\ drain[d].sends < RetryMax
    /\ Received(d)
    /\ drain' = [drain EXCEPT ![d].sends = @ + 1]
    /\ UNCHANGED <<refreshVars, emitted, queue, attempts, draining, logged, lost, gone, missed, shutdown>>

(* Mutated form of SentAgain: the attempt is not counted. *)
SentAgainUncounted(d) ==
    /\ Busy(d) /\ attempts[drain[d].event] + 1 < MaxAttempts
    /\ Received(d)
    /\ drain' = [drain EXCEPT ![d] = Looks(queue)]
    /\ UNCHANGED <<refreshVars, emitted, queue, attempts, draining, logged, lost, gone, missed, shutdown>>

(* A timeout, a refusal or the last retry: the loop sleeps, then starts over *)
(* with the head of the queue.                                               *)
SentAgain(d) ==
    /\ Busy(d) /\ attempts[drain[d].event] + 1 < MaxAttempts
    /\ Received(d)
    /\ attempts' = [attempts EXCEPT ![drain[d].event] = @ + 1]
    /\ drain' = [drain EXCEPT ![d] = Looks(queue)]
    /\ UNCHANGED <<refreshVars, emitted, queue, draining, logged, lost, gone, missed, shutdown>>

(* writeFallbackLog swallows a failure of its own: the event is shifted all   *)
(* the same.                                                                 *)
GivenUp(d) ==
    /\ Busy(d) /\ queue # <<>> /\ attempts[drain[d].event] + 1 >= MaxAttempts
    /\ Received(d)
    /\ attempts' = [attempts EXCEPT ![drain[d].event] = @ + 1]
    /\ \/ logged' = logged \cup {drain[d].event} /\ UNCHANGED lost
       \/ lost' = lost \cup {drain[d].event} /\ UNCHANGED logged
    /\ Shifts(d)
    /\ UNCHANGED <<refreshVars, emitted, draining, missed, shutdown>>

(* finally, a turn after the loop has seen the queue empty. *)
DrainEnds(d) ==
    /\ shutdown # "exited" /\ drain[d].at = "finishing"
    /\ drain' = [drain EXCEPT ![d] = Idle]
    /\ draining' = FALSE
    /\ UNCHANGED <<refreshVars, emitted, queue, attempts, accepted, logged, lost, gone, missed, shutdown>>

-----------------------------------------------------------------------------
(* SIGTERM: flush waits for the loop that runs now, then all is cancelled.   *)

Terminated ==
    /\ shutdown = "no"
    /\ shutdown' = "flushing"
    /\ UNCHANGED <<refreshVars, emitted, queue, attempts, drain, draining, accepted, logged, lost, gone, missed>>

Exits ==
    /\ shutdown = "flushing" /\ ~draining
    /\ shutdown' = "exited"
    /\ timers' = {} /\ inFlight' = {}
    /\ UNCHANGED <<outstanding, cancels, emitted, queue, attempts, drain, draining, accepted, logged, lost, gone, missed>>

-----------------------------------------------------------------------------
DrainProceeds(d) ==
    \/ Delivered(d)
    \/ ClientRetries(d)
    \/ SentAgain(d)
    \/ GivenUp(d)
    \/ DrainEnds(d)

QueuesNext ==
    \/ \E k \in Keys :
        \/ Schedule(k)
        \/ RefreshTimerFires(k)
        \/ RefreshResolves(k)
        \/ RefreshRejects(k)
    \/ CancelAll
    \/ Emit
    \/ \E d \in Drains : DrainProceeds(d)
    \/ Terminated
    \/ Exits

QueuesSpec == QueuesInit /\ [][QueuesNext]_queueVars

(* A request has a timeout, and a sleep ends. *)
QueuesFairness == \A d \in Drains : WF_queueVars(DrainProceeds(d))

QueuesTypeOK ==
    /\ timers \subseteq Keys /\ inFlight \subseteq Keys
    /\ outstanding \in [Keys -> Nat] /\ cancels \in Nat
    /\ emitted \in 0..MaxEvents
    /\ queue \in Seq(1..MaxEvents)
    /\ attempts \in [1..MaxEvents -> 0..MaxAttempts]
    /\ drain \in [Drains -> [at : {"idle", "sending", "finishing"}, event : 0..MaxEvents, sends : 0..RetryMax]]
    /\ draining \in BOOLEAN
    /\ {accepted, logged, lost, gone, missed} \subseteq SUBSET (1..MaxEvents)
    /\ shutdown \in {"no", "flushing", "exited"}

(* Each cancelAll may leave one request of a key behind that goes on         *)
(* refreshing; beyond these a key has one request or timer, however answers, *)
(* timers and calls of schedule interleave (tokenRefresh.ts:22, :45, :70).   *)
RefreshesBounded ==
    \A k \in Keys :
        outstanding[k] + (IF k \in timers THEN 1 ELSE 0) <= 1 + cancels

(* An event goes out when it, or one after it, was emitted at a time the     *)
(* loop was not about to end.  One emitted in that very moment waits for the *)
(* next (eventEmitter.ts:107, :127, :138).                                   *)
EventsGoOut ==
    \A e, f \in 1..MaxEvents :
        (e <= f /\ f <= emitted /\ f \notin missed) ~>
            (shutdown = "exited" \/ e \in gone)
=============================================================================
