---------------------- MODULE ControlPlaneQueuesProofs ----------------------
(***************************************************************************)
(* Theorems about ControlPlaneQueues, for every number of keys, events,      *)
(* retries and cancellations.                                               *)
(***************************************************************************)
EXTENDS ControlPlaneQueues, TLAPS

-----------------------------------------------------------------------------
(* Token refresh.                                                           *)

RefreshTyped ==
    /\ timers \subseteq Keys /\ inFlight \subseteq Keys
    /\ outstanding \in [Keys -> Nat] /\ cancels \in Nat
    /\ shutdown \in {"no", "flushing", "exited"}

(* A key whose timer and whose entry in inFlight are gone has only the       *)
(* requests that cancelAll left behind, so a call of schedule may add one.   *)
Leftovers(k) ==
    /\ ~(k \in timers /\ k \in inFlight)
    /\ shutdown # "exited" /\ k \notin timers /\ k \notin inFlight => outstanding[k] <= cancels

Bounded(k) == outstanding[k] + (IF k \in timers THEN 1 ELSE 0) <= 1 + cancels

RefreshInv == RefreshTyped /\ \A k \in Keys : Bounded(k) /\ Leftovers(k)

LEMMA RefreshStarts == QueuesInit => RefreshInv
  BY DEF QueuesInit, RefreshInit, EmitterInit, RefreshInv, RefreshTyped, Bounded, Leftovers

(* What schedule does to the key it is called for, and to no other. *)
LEMMA ScheduleKeeps ==
  ASSUME RefreshInv, NEW k \in Keys, NEW tracked \in SUBSET Keys, NEW running \in Nat,
         ScheduleRefresh(k, tracked, running), UNCHANGED <<cancels, shutdown>>,
         shutdown # "exited",
         tracked \ {k} = inFlight \ {k}, running <= 1 + cancels,
         k \in timers => k \notin tracked /\ running <= cancels,
         k \notin timers /\ k \notin tracked => running <= cancels
  PROVE  RefreshInv'
  <1>1. RefreshTyped'
    BY DEF RefreshInv, RefreshTyped, ScheduleRefresh, DoRefresh
  <1>2. ASSUME NEW q \in Keys PROVE (Bounded(q) /\ Leftovers(q))'
    <2>1. CASE q # k
      BY <2>1 DEF RefreshInv, RefreshTyped, Bounded, Leftovers, ScheduleRefresh, DoRefresh
    <2>2. CASE q = k
      BY <2>2 DEF RefreshInv, RefreshTyped, Bounded, Leftovers, ScheduleRefresh, DoRefresh
    <2> QED BY <2>1, <2>2
  <1> QED BY <1>1, <1>2 DEF RefreshInv

LEMMA RefreshStep == RefreshInv /\ [QueuesNext]_queueVars => RefreshInv'
  <1> SUFFICES ASSUME RefreshInv, [QueuesNext]_queueVars PROVE RefreshInv'
    OBVIOUS
  <1>1. ASSUME UNCHANGED <<refreshVars, shutdown>> PROVE RefreshInv'
    BY <1>1 DEF RefreshInv, RefreshTyped, Bounded, Leftovers, refreshVars
  <1>2. ASSUME NEW k \in Keys, Schedule(k) PROVE RefreshInv'
    <2>1. /\ outstanding[k] \in Nat /\ cancels \in Nat /\ inFlight \in SUBSET Keys
          /\ Bounded(k) /\ Leftovers(k)
      BY DEF RefreshInv, RefreshTyped
    <2>2. /\ ScheduleRefresh(k, inFlight, outstanding[k])
          /\ UNCHANGED <<cancels, shutdown>> /\ shutdown # "exited"
      BY <1>2 DEF Schedule, eventVars
    <2>3. /\ outstanding[k] <= 1 + cancels
          /\ k \in timers => k \notin inFlight /\ outstanding[k] <= cancels
          /\ k \notin timers /\ k \notin inFlight => outstanding[k] <= cancels
      BY <2>1, <2>2 DEF Bounded, Leftovers
    <2> QED BY <2>1, <2>2, <2>3, ScheduleKeeps
  <1>3. ASSUME NEW k \in Keys, RefreshTimerFires(k) PROVE RefreshInv'
    BY <1>3 DEF RefreshTimerFires, DoRefresh, RefreshInv, RefreshTyped, Bounded, Leftovers, eventVars
  <1>4. ASSUME NEW k \in Keys, RefreshResolves(k) PROVE RefreshInv'
    <2>1. outstanding[k] \in Nat /\ outstanding[k] - 1 \in Nat /\ Bounded(k) /\ Leftovers(k) /\ cancels \in Nat
      BY <1>4 DEF RefreshInv, RefreshTyped, RefreshResolves
    <2>2. /\ outstanding[k] - 1 <= cancels
          /\ inFlight \ {k} \in SUBSET Keys
          /\ (inFlight \ {k}) \ {k} = inFlight \ {k}
      BY <2>1 DEF Bounded, RefreshInv, RefreshTyped
    <2>3. outstanding[k] - 1 <= 1 + cancels
      BY <2>1, <2>2
    <2>4. /\ ScheduleRefresh(k, inFlight \ {k}, outstanding[k] - 1)
          /\ UNCHANGED <<cancels, shutdown>> /\ shutdown # "exited"
      BY <1>4 DEF RefreshResolves, eventVars
    <2> QED BY <2>1, <2>2, <2>3, <2>4, ScheduleKeeps
  <1>5. ASSUME NEW k \in Keys, RefreshRejects(k) PROVE RefreshInv'
    BY <1>5 DEF RefreshRejects, RefreshInv, RefreshTyped, Bounded, Leftovers, eventVars
  <1>6. CASE CancelAll
    BY <1>6 DEF CancelAll, RefreshInv, RefreshTyped, Bounded, Leftovers, eventVars
  <1>7. CASE Emit
    BY <1>1, <1>7 DEF Emit
  <1>8. ASSUME NEW d \in Drains, DrainProceeds(d) PROVE RefreshInv'
    BY <1>1, <1>8 DEF DrainProceeds, Delivered, ClientRetries, SentAgain, GivenUp, DrainEnds
  <1>9. CASE Terminated
    BY <1>9 DEF Terminated, RefreshInv, RefreshTyped, Bounded, Leftovers, refreshVars
  <1>10. CASE Exits
    BY <1>10 DEF Exits, RefreshInv, RefreshTyped, Bounded, Leftovers
  <1>11. CASE UNCHANGED queueVars
    BY <1>1, <1>11 DEF queueVars, eventVars
  <1> QED
    BY <1>2, <1>3, <1>4, <1>5, <1>6, <1>7, <1>8, <1>9, <1>10, <1>11 DEF QueuesNext

(* However answers, timers, calls of schedule and cancellations interleave,  *)
(* a key has at most one request or timer beyond one per cancelAll           *)
(* (tokenRefresh.ts:22, :45, :70).                                           *)
THEOREM RefreshesStayBounded == QueuesSpec => []RefreshesBounded
  <1>1. RefreshInv => RefreshesBounded
    BY DEF RefreshInv, Bounded, RefreshesBounded
  <1> QED BY <1>1, RefreshStarts, RefreshStep, PTL DEF QueuesSpec

-----------------------------------------------------------------------------
(* The emitter.                                                             *)

Events == 1..MaxEvents

EmitterTyped ==
    /\ emitted \in 0..MaxEvents
    /\ queue \in Seq(Events)
    /\ attempts \in [Events -> 0..MaxAttempts]
    /\ drain \in [Drains -> [at : {"idle", "sending", "finishing"}, event : 0..MaxEvents, sends : 0..RetryMax]]
    /\ draining \in BOOLEAN
    /\ accepted \subseteq Events /\ logged \subseteq Events /\ lost \subseteq Events
    /\ gone \subseteq Events /\ missed \subseteq Events

(* One activation of drainLoop at a time, and what it sends is the head of   *)
(* the queue; it is about to end, or it is none, otherwise.                  *)
OneLoop ==
    /\ \A d, c \in Drains : drain[d] # Idle /\ drain[c] # Idle => d = c
    /\ ~draining => \A d \in Drains : drain[d] = Idle
    /\ \A d \in Drains : drain[d].at = "idle" => drain[d] = Idle
    /\ \A d \in Drains :
          drain[d].at = "sending" => queue # <<>> /\ drain[d].event = Head(queue)

(* Events stand in the queue in the order they were emitted, and those that  *)
(* are in it, or have left it, are all there are.                            *)
Fifo ==
    /\ \A i \in 1..Len(queue) : queue[i] = emitted - Len(queue) + i
    /\ Len(queue) <= emitted
    /\ gone = 1..(emitted - Len(queue))

(* An event left the queue when it was received, or when its attempts were    *)
(* used up; it then is in the failure log, unless that could not be written. *)
Accounted ==
    /\ gone \subseteq accepted \cup logged \cup lost
    /\ logged \cup lost \subseteq gone
    /\ \A e \in logged \cup lost : attempts[e] = MaxAttempts

(* An event that has not left the queue has attempts left. *)
AttemptsLeft == \A e \in Events \ gone : attempts[e] < MaxAttempts

EmitterInv == EmitterTyped /\ OneLoop /\ Fifo /\ Accounted /\ AttemptsLeft

LEMMA LooksTyped ==
  ASSUME NEW q \in Seq(Events)
  PROVE  /\ Looks(q) \in [at : {"idle", "sending", "finishing"}, event : 0..MaxEvents, sends : 0..RetryMax]
         /\ Looks(q).at # "idle"
         /\ Looks(q).at = "sending" => q # <<>> /\ Looks(q).event = Head(q)
  BY QueueBounds DEF Looks, Events

LEMMA EmitterStarts == QueuesInit => EmitterInv
  <1> SUFFICES ASSUME QueuesInit PROVE EmitterInv
    OBVIOUS
  <1>1. EmitterTyped
    <2>0. emitted \in 0..MaxEvents /\ attempts \in [Events -> 0..MaxAttempts]
      BY QueueBounds DEF QueuesInit, EmitterInit, Events
    <2>1. /\ draining \in BOOLEAN
          /\ accepted \subseteq Events /\ logged \subseteq Events /\ lost \subseteq Events
          /\ gone \subseteq Events /\ missed \subseteq Events
      BY DEF QueuesInit, EmitterInit
    <2>2. queue \in Seq(Events)
      BY DEF QueuesInit, EmitterInit
    <2>3. Idle \in [at : {"idle", "sending", "finishing"}, event : 0..MaxEvents, sends : 0..RetryMax]
      BY QueueBounds DEF Idle
    <2> QED BY <2>0, <2>1, <2>2, <2>3 DEF QueuesInit, EmitterInit, EmitterTyped
  <1>2. OneLoop
    BY DEF QueuesInit, EmitterInit, OneLoop, Idle
  <1>3. Fifo /\ Accounted /\ AttemptsLeft
    BY QueueBounds DEF QueuesInit, EmitterInit, Fifo, Accounted, AttemptsLeft, Events
  <1> QED BY <1>1, <1>2, <1>3 DEF EmitterInv

(* The loop looks again at a queue: the same, or one event shorter. *)
LEMMA LooksAgain ==
  ASSUME EmitterTyped, OneLoop, NEW d \in Drains, drain[d] # Idle,
         queue' \in Seq(Events), drain' = [drain EXCEPT ![d] = Looks(queue')], UNCHANGED draining
  PROVE  /\ drain' \in [Drains -> [at : {"idle", "sending", "finishing"}, event : 0..MaxEvents, sends : 0..RetryMax]]
         /\ OneLoop'
  <1>1. \A c \in Drains : c # d => drain[c] = Idle
    BY DEF OneLoop
  <1>2. /\ Looks(queue') \in [at : {"idle", "sending", "finishing"}, event : 0..MaxEvents, sends : 0..RetryMax]
        /\ Looks(queue').at # "idle"
        /\ Looks(queue').at = "sending" => queue' # <<>> /\ Looks(queue').event = Head(queue')
    BY LooksTyped
  <1>3. /\ drain'[d] = Looks(queue')
        /\ \A c \in Drains : c # d => drain'[c] = Idle
    BY <1>1 DEF EmitterTyped
  <1>4. draining
    BY DEF OneLoop
  <1>5. Idle.at = "idle" BY DEF Idle
  <1> QED BY <1>2, <1>3, <1>4, <1>5 DEF OneLoop, EmitterTyped

(* Shifting the head keeps the order and names it as gone. *)
LEMMA ShiftKeepsOrder ==
  ASSUME EmitterTyped, Fifo, queue # <<>>, queue' = Tail(queue), gone' = gone \cup {Head(queue)},
         UNCHANGED emitted
  PROVE  /\ queue' \in Seq(Events) /\ Head(queue) \in Events
         /\ Len(queue') = Len(queue) - 1
         /\ \A i \in 1..Len(queue') : queue'[i] = queue[i + 1] /\ queue'[i] # Head(queue)
         /\ Fifo' /\ gone' \subseteq Events
  <1>1. /\ Len(queue) \in Nat /\ Len(queue) >= 1 /\ emitted \in Nat
        /\ Head(queue) = queue[1] /\ queue[1] \in Events
        /\ queue' \in Seq(Events) /\ Len(queue') = Len(queue) - 1
        /\ \A i \in 1..Len(queue') : queue'[i] = queue[i + 1]
    BY DEF EmitterTyped
  <1>2. /\ queue[1] = emitted - Len(queue) + 1
        /\ \A i \in 1..Len(queue') : queue'[i] = emitted - Len(queue) + (i + 1)
    BY <1>1 DEF Fifo
  <1>3. gone' = 1..(emitted - (Len(queue) - 1))
    BY <1>1, <1>2 DEF Fifo
  <1> QED BY <1>1, <1>2, <1>3 DEF Fifo, EmitterTyped

LEMMA EmitKeeps ==
  ASSUME EmitterInv, Emit PROVE EmitterInv'
  <1>1. /\ emitted' = emitted + 1 /\ emitted' \in Events /\ emitted' \in 0..MaxEvents
        /\ queue' = Append(queue, emitted') /\ queue' \in Seq(Events)
        /\ Len(queue') = Len(queue) + 1 /\ Len(queue) \in Nat /\ emitted \in Nat
        /\ \A i \in 1..Len(queue) : queue'[i] = queue[i]
        /\ queue'[Len(queue) + 1] = emitted + 1
        /\ UNCHANGED <<attempts, accepted, logged, lost, gone>>
    BY QueueBounds DEF Emit, EmitterInv, EmitterTyped, Events
  <1>2. Fifo'
    <2>1. \A i \in 1..Len(queue') : queue'[i] = emitted' - Len(queue') + i
      BY <1>1 DEF EmitterInv, Fifo
    <2> QED BY <1>1, <2>1 DEF EmitterInv, Fifo
  <1>3. drain' \in [Drains -> [at : {"idle", "sending", "finishing"}, event : 0..MaxEvents, sends : 0..RetryMax]]
        /\ draining' \in BOOLEAN /\ OneLoop'
    <2>1. CASE draining
      <3>1. UNCHANGED <<draining, drain>>
        BY <2>1 DEF Emit, Starts
      <3>2. queue # <<>> => queue' # <<>> /\ Head(queue') = Head(queue)
        BY <1>1 DEF EmitterInv, EmitterTyped
      <3> QED BY <3>1, <3>2 DEF EmitterInv, EmitterTyped, OneLoop
    <2>2. CASE ~draining
      <3> DEFINE d == CHOOSE c \in Drains : drain[c] = Idle
      <3>1. \A c \in Drains : drain[c] = Idle
        BY <2>2 DEF EmitterInv, OneLoop
      <3>2. d \in Drains
        BY <3>1 DEF Drains
      <3>3. draining' = TRUE /\ drain' = [drain EXCEPT ![d] = Looks(queue')]
        BY <2>2 DEF Emit, Starts
      <3> HIDE DEF d
      <3>4. /\ drain'[d] = Looks(queue')
            /\ \A c \in Drains : c # d => drain'[c] = Idle
        BY <3>1, <3>2, <3>3 DEF EmitterInv, EmitterTyped
      <3>5. /\ Looks(queue') \in [at : {"idle", "sending", "finishing"}, event : 0..MaxEvents, sends : 0..RetryMax]
            /\ Looks(queue').at # "idle"
            /\ Looks(queue').at = "sending" => queue' # <<>> /\ Looks(queue').event = Head(queue')
        BY <1>1, LooksTyped
      <3>6. Idle.at = "idle" BY DEF Idle
      <3>7. OneLoop'
        BY <3>3, <3>4, <3>5, <3>6 DEF OneLoop
      <3> QED BY <3>2, <3>3, <3>5, <3>7 DEF EmitterInv, EmitterTyped
    <2> QED BY <2>1, <2>2
  <1>4. missed' \subseteq Events
    BY <1>1 DEF Emit, EmitterInv, EmitterTyped
  <1>5. EmitterTyped' /\ Accounted' /\ AttemptsLeft'
    BY <1>1, <1>3, <1>4 DEF EmitterInv, EmitterTyped, Accounted, AttemptsLeft
  <1> QED BY <1>2, <1>3, <1>5 DEF EmitterInv

(* What an activation that sends has in hand. *)
LEMMA InHand ==
  ASSUME EmitterInv, NEW d \in Drains, drain[d].at = "sending"
  PROVE  /\ drain[d] # Idle /\ queue # <<>>
         /\ drain[d].event = Head(queue) /\ Head(queue) \in Events
         /\ drain[d].event \in Events \ gone
  <1>1. /\ drain[d] # Idle /\ queue # <<>> /\ drain[d].event = Head(queue)
    BY DEF EmitterInv, OneLoop, Idle
  <1>2. /\ Len(queue) \in Nat /\ Len(queue) >= 1 /\ emitted \in Nat
        /\ Head(queue) = queue[1] /\ queue[1] \in Events
    BY <1>1 DEF EmitterInv, EmitterTyped
  <1>3. queue[1] = emitted - Len(queue) + 1 /\ gone = 1..(emitted - Len(queue))
    BY <1>2 DEF EmitterInv, Fifo
  <1> QED BY <1>1, <1>2, <1>3

LEMMA DeliveredKeeps ==
  ASSUME EmitterInv, NEW d \in Drains, Delivered(d) PROVE EmitterInv'
  <1>1. /\ drain[d] # Idle /\ queue # <<>> /\ drain[d].event = Head(queue)
        /\ queue' = Tail(queue) /\ gone' = gone \cup {Head(queue)}
        /\ accepted' = accepted \cup {drain[d].event}
        /\ drain' = [drain EXCEPT ![d] = Looks(queue')]
        /\ UNCHANGED <<emitted, attempts, draining, logged, lost, missed>>
    BY InHand DEF Delivered, Busy, Shifts
  <1>2. queue' \in Seq(Events) /\ Head(queue) \in Events /\ Fifo' /\ gone' \subseteq Events
    BY <1>1, ShiftKeepsOrder DEF EmitterInv
  <1>3. /\ drain' \in [Drains -> [at : {"idle", "sending", "finishing"}, event : 0..MaxEvents, sends : 0..RetryMax]]
        /\ OneLoop'
    BY <1>1, <1>2, LooksAgain DEF EmitterInv
  <1>4. EmitterTyped' /\ Accounted' /\ AttemptsLeft'
    BY <1>1, <1>2, <1>3 DEF EmitterInv, EmitterTyped, Accounted, AttemptsLeft
  <1> QED BY <1>2, <1>3, <1>4 DEF EmitterInv

LEMMA ReceivedIsEvent ==
  ASSUME EmitterInv, NEW d \in Drains, drain[d].at = "sending", Received(d)
  PROVE  accepted' \subseteq Events /\ accepted \subseteq accepted'
  BY InHand DEF Received, EmitterInv, EmitterTyped

LEMMA ClientRetriesKeeps ==
  ASSUME EmitterInv, NEW d \in Drains, ClientRetries(d) PROVE EmitterInv'
  <1>1. /\ drain[d].at = "sending" /\ drain[d].sends < RetryMax /\ Received(d)
        /\ drain' = [drain EXCEPT ![d].sends = @ + 1]
        /\ UNCHANGED <<emitted, queue, attempts, draining, logged, lost, gone, missed>>
    BY DEF ClientRetries, Busy
  <1>2. /\ drain' \in [Drains -> [at : {"idle", "sending", "finishing"}, event : 0..MaxEvents, sends : 0..RetryMax]]
        /\ drain'[d].at = drain[d].at /\ drain'[d].event = drain[d].event
        /\ \A c \in Drains : c # d => drain'[c] = drain[c]
    <2> DEFINE Loops == [at : {"idle", "sending", "finishing"}, event : 0..MaxEvents, sends : 0..RetryMax]
               r == [drain[d] EXCEPT !.sends = @ + 1]
    <2>1. drain \in [Drains -> Loops] /\ drain[d] \in Loops
      BY DEF EmitterInv, EmitterTyped
    <2>2. r.at = drain[d].at /\ r.event = drain[d].event
      BY <2>1
    <2>3. drain[d].sends + 1 \in 0..RetryMax
      BY <1>1, <2>1, QueueBounds
    <2>4. r \in Loops
      BY <2>1, <2>3
    <2>5. drain' = [drain EXCEPT ![d] = r]
      BY <1>1
    <2> HIDE DEF r
    <2> QED BY <2>1, <2>2, <2>4, <2>5
  <1>3. drain[d] # Idle /\ Idle.at = "idle"
    BY <1>1, InHand DEF Idle
  <1>4. OneLoop'
    BY <1>1, <1>2, <1>3 DEF EmitterInv, OneLoop
  <1>5. EmitterTyped' /\ Accounted' /\ AttemptsLeft' /\ Fifo'
    BY <1>1, <1>2, ReceivedIsEvent DEF EmitterInv, EmitterTyped, Accounted, AttemptsLeft, Fifo
  <1> QED BY <1>4, <1>5 DEF EmitterInv

LEMMA SentAgainKeeps ==
  ASSUME EmitterInv, NEW d \in Drains, SentAgain(d) PROVE EmitterInv'
  <1>1. /\ drain[d].at = "sending" /\ Received(d)
        /\ attempts[drain[d].event] + 1 < MaxAttempts
        /\ attempts' = [attempts EXCEPT ![drain[d].event] = @ + 1]
        /\ drain' = [drain EXCEPT ![d] = Looks(queue')]
        /\ UNCHANGED <<emitted, queue, draining, logged, lost, gone, missed>>
    BY DEF SentAgain, Busy
  <1>2. drain[d] # Idle /\ drain[d].event \in Events
    BY <1>1, InHand
  <1>3. /\ drain' \in [Drains -> [at : {"idle", "sending", "finishing"}, event : 0..MaxEvents, sends : 0..RetryMax]]
        /\ OneLoop'
    <2>1. queue' \in Seq(Events)
      BY <1>1 DEF EmitterInv, EmitterTyped
    <2> QED BY <1>1, <1>2, <2>1, LooksAgain DEF EmitterInv
  <1>4. attempts' \in [Events -> 0..MaxAttempts] /\ AttemptsLeft'
    BY <1>1, <1>2, QueueBounds DEF EmitterInv, EmitterTyped, AttemptsLeft
  <1>5. EmitterTyped' /\ Fifo'
    BY <1>1, <1>3, <1>4, ReceivedIsEvent DEF EmitterInv, EmitterTyped, Fifo
  <1>6. Accounted'
    <2>1. drain[d].event \notin gone
      BY <1>1, InHand
    <2>2. \A e \in logged \cup lost : e # drain[d].event /\ e \in Events
      BY <2>1 DEF EmitterInv, Accounted, EmitterTyped
    <2>3. \A e \in logged \cup lost : attempts'[e] = attempts[e]
      BY <1>1, <2>2 DEF EmitterInv, EmitterTyped
    <2> QED BY <1>1, <2>3, ReceivedIsEvent DEF EmitterInv, Accounted
  <1> QED BY <1>3, <1>4, <1>5, <1>6 DEF EmitterInv

LEMMA GivenUpKeeps ==
  ASSUME EmitterInv, NEW d \in Drains, GivenUp(d) PROVE EmitterInv'
  <1>1. /\ drain[d].at = "sending" /\ Received(d)
        /\ attempts' = [attempts EXCEPT ![drain[d].event] = @ + 1]
        /\ \/ logged' = logged \cup {drain[d].event} /\ UNCHANGED lost
           \/ lost' = lost \cup {drain[d].event} /\ UNCHANGED logged
        /\ attempts[drain[d].event] + 1 >= MaxAttempts
        /\ queue' = Tail(queue) /\ gone' = gone \cup {Head(queue)}
        /\ drain' = [drain EXCEPT ![d] = Looks(queue')]
        /\ UNCHANGED <<emitted, draining, missed>>
    BY DEF GivenUp, Busy, Shifts
  <1>2. /\ drain[d] # Idle /\ queue # <<>> /\ drain[d].event = Head(queue)
        /\ Head(queue) \in Events /\ Head(queue) \notin gone
    BY <1>1, InHand
  <1>3. queue' \in Seq(Events) /\ Fifo' /\ gone' \subseteq Events
    BY <1>1, <1>2, ShiftKeepsOrder DEF EmitterInv
  <1>4. /\ drain' \in [Drains -> [at : {"idle", "sending", "finishing"}, event : 0..MaxEvents, sends : 0..RetryMax]]
        /\ OneLoop'
    BY <1>1, <1>2, <1>3, LooksAgain DEF EmitterInv
  <1>5. attempts' \in [Events -> 0..MaxAttempts] /\ AttemptsLeft'
    <2> DEFINE e == drain[d].event
    <2>1. e \in Events /\ e \notin gone /\ e \in gone' /\ gone \subseteq gone'
      BY <1>1, <1>2
    <2>2. attempts[e] \in 0..MaxAttempts /\ attempts[e] < MaxAttempts
      BY <2>1 DEF EmitterInv, EmitterTyped, AttemptsLeft
    <2>3. attempts[e] + 1 \in 0..MaxAttempts
      BY <2>2, QueueBounds
    <2>4. /\ attempts' = [attempts EXCEPT ![e] = attempts[e] + 1]
          /\ attempts \in [Events -> 0..MaxAttempts]
      BY <1>1 DEF EmitterInv, EmitterTyped
    <2> HIDE DEF e
    <2> QED BY <2>1, <2>3, <2>4 DEF EmitterInv, AttemptsLeft
  <1>6. EmitterTyped'
    BY <1>1, <1>2, <1>3, <1>4, <1>5, ReceivedIsEvent DEF EmitterInv, EmitterTyped
  <1>7. Accounted'
    <2> DEFINE e == drain[d].event
    <2>1. e \notin gone /\ e \in Events /\ gone' = gone \cup {e}
      BY <1>1, <1>2
    <2>2. attempts[e] \in 0..MaxAttempts /\ attempts[e] < MaxAttempts /\ attempts[e] + 1 >= MaxAttempts
      BY <1>1, <2>1 DEF EmitterInv, EmitterTyped, AttemptsLeft
    <2>3. attempts[e] + 1 = MaxAttempts
      BY <2>2, QueueBounds
    <2>4. attempts'[e] = MaxAttempts
      BY <1>1, <2>1, <2>3 DEF EmitterInv, EmitterTyped
    <2>5. \A f \in logged \cup lost : f # e /\ f \in Events /\ attempts'[f] = attempts[f]
      BY <1>1, <2>1 DEF EmitterInv, EmitterTyped, Accounted
    <2>6. accepted \subseteq accepted'
      BY <1>1, ReceivedIsEvent
    <2>7. logged' \cup lost' = logged \cup lost \cup {e}
      BY <1>1
    <2> HIDE DEF e
    <2> QED BY <2>1, <2>4, <2>5, <2>6, <2>7 DEF EmitterInv, Accounted
  <1> QED BY <1>3, <1>4, <1>5, <1>6, <1>7 DEF EmitterInv

LEMMA DrainEndsKeeps ==
  ASSUME EmitterInv, NEW d \in Drains, DrainEnds(d) PROVE EmitterInv'
  <1>1. /\ drain[d].at = "finishing" /\ drain' = [drain EXCEPT ![d] = Idle] /\ draining' = FALSE
        /\ UNCHANGED <<emitted, queue, attempts, accepted, logged, lost, gone, missed>>
    BY DEF DrainEnds
  <1>2. drain[d] # Idle /\ Idle.at = "idle"
    BY <1>1 DEF Idle
  <1>3. \A c \in Drains : drain'[c] = Idle
    BY <1>1, <1>2 DEF EmitterInv, EmitterTyped, OneLoop
  <1>4. OneLoop'
    BY <1>2, <1>3 DEF OneLoop
  <1>5. drain' \in [Drains -> [at : {"idle", "sending", "finishing"}, event : 0..MaxEvents, sends : 0..RetryMax]]
    BY <1>1, QueueBounds DEF EmitterInv, EmitterTyped, Idle
  <1>6. EmitterTyped' /\ Accounted' /\ AttemptsLeft' /\ Fifo'
    BY <1>1, <1>5 DEF EmitterInv, EmitterTyped, Accounted, AttemptsLeft, Fifo
  <1> QED BY <1>4, <1>6 DEF EmitterInv

LEMMA EmitterStep == EmitterInv /\ [QueuesNext]_queueVars => EmitterInv'
  <1> SUFFICES ASSUME EmitterInv, [QueuesNext]_queueVars PROVE EmitterInv'
    OBVIOUS
  <1>1. ASSUME UNCHANGED <<emitted, queue, attempts, drain, draining, accepted, logged, lost, gone, missed>>
        PROVE EmitterInv'
    BY <1>1 DEF EmitterInv, EmitterTyped, OneLoop, Fifo, Accounted, AttemptsLeft
  <1>2. ASSUME NEW k \in Keys,
               Schedule(k) \/ RefreshTimerFires(k) \/ RefreshResolves(k) \/ RefreshRejects(k)
        PROVE EmitterInv'
    BY <1>1, <1>2 DEF Schedule, RefreshTimerFires, RefreshResolves, RefreshRejects, eventVars
  <1>3. CASE CancelAll \/ Terminated \/ Exits \/ UNCHANGED queueVars
    BY <1>1, <1>3 DEF CancelAll, Terminated, Exits, queueVars, eventVars
  <1>4. ASSUME NEW d \in Drains, DrainProceeds(d) PROVE EmitterInv'
    BY <1>4, DeliveredKeeps, ClientRetriesKeeps, SentAgainKeeps, GivenUpKeeps, DrainEndsKeeps DEF DrainProceeds
  <1> QED BY <1>2, <1>3, <1>4, EmitKeeps DEF QueuesNext

(* Every reachable state of the two services is typed. *)
THEOREM QueuesTypeCorrect == QueuesSpec => []QueuesTypeOK
  <1>1. RefreshInv /\ EmitterInv => QueuesTypeOK
    BY DEF RefreshInv, RefreshTyped, EmitterInv, EmitterTyped, QueuesTypeOK, Events
  <1> QED BY <1>1, RefreshStarts, RefreshStep, EmitterStarts, EmitterStep, PTL DEF QueuesSpec

(* The queue holds the events from some number on, in the order they were     *)
(* emitted; each event before that was received by the control plane, or was *)
(* sent MaxAttempts times and then written to the failure log.  What that log *)
(* cannot take is lost (eventEmitter.ts:90-101, :110-121).                    *)
THEOREM EventsAreAccountedFor == QueuesSpec => [](Fifo /\ Accounted)
  <1>1. EmitterInv => Fifo /\ Accounted
    BY DEF EmitterInv
  <1> QED BY <1>1, EmitterStarts, EmitterStep, PTL DEF QueuesSpec
=============================================================================
