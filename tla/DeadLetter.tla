----------------------------- MODULE DeadLetter -----------------------------
(***************************************************************************)
(* The layers around one sink: the circuit breaker and retries             *)
(* (resilience/circuit_breaker.go), the dead-letter decorator that bisects *)
(* a failing batch (dlq/sink.go), its failure counts and operator requests *)
(* (dlq/manager.go) and the Redis store (dlq/store.go).                    *)
(*                                                                         *)
(* The stream is the sequence of events 1..NumEvents.  A delivery covers   *)
(* pos+1..hi for a batch end the reader chooses; an error makes the reader *)
(* replay from pos.  The recursion of isolate is the worklist of ranges it *)
(* has yet to send, the next one first.  A call of the resilient sink, all *)
(* its attempts included, is one step with the outcome the breaker sees.   *)
(* An operator retries and discards entries at the same time.              *)
(***************************************************************************)
EXTENDS Integers, Sequences, FiniteSets

CONSTANTS
  NumEvents,          \* bound: events of the stream
  MaxBatch,           \* largest delivery
  Bad,                \* events the sink rejects with a permanent error
  Flaky,              \* events that always fail with another error
  SinkStates,         \* what the destination may be: up, slow, down
  Threshold,          \* CDC_DLQ_THRESHOLD
  FailureThreshold,   \* consecutive failures that open the circuit
  MaxEntries          \* CDC_DLQ_MAX_ENTRIES

Events == 1..NumEvents
Poison == Bad \cup Flaky

ASSUME DeadLetterAssumption ==
  /\ NumEvents \in Nat /\ MaxBatch \in Nat \ {0}
  /\ Bad \subseteq Events /\ Flaky \subseteq Events
  /\ SinkStates \subseteq {"up", "slow", "down"} /\ "up" \in SinkStates
  /\ Threshold \in Nat \ {0} /\ FailureThreshold \in Nat \ {0}
  /\ MaxEntries \in Nat

VARIABLES
  pos,         \* events 1..pos are behind the stream
  hi,          \* end of the batch in delivery
  work,        \* ranges still to send, <<first, last>>
  step,        \* where the delivery is
  top,         \* the call is Process's own, not one of isolate
  fails,       \* Manager.failures, counted up to Threshold
  breaker,     \* closed, open or half-open
  streak,      \* the breaker's ConsecutiveFailures
  sink,        \* state of the destination
  store,       \* events with an entry in Redis
  op,          \* where the operator's Retry is
  opEvent,     \* the entry it works on
  delivered,   \* history: events a successful call carried
  discarded,   \* history: events an operator discarded
  refused      \* history: the destination was down at some time

streamVars  == <<pos, hi, work, step, top>>
breakerVars == <<breaker, streak>>
opVars      == <<op, opEvent>>
histVars    == <<delivered, discarded, refused>>
vars == <<streamVars, fails, breakerVars, sink, store, opVars, histVars>>

Ranges == {r \in Events \X Events : r[1] <= r[2]}
Span(r) == r[1]..r[2]

TypeOK ==
  /\ pos \in 0..NumEvents /\ hi \in 0..NumEvents
  /\ work \in Seq(Ranges)
  /\ step \in {"idle", "call", "park", "write"} /\ top \in BOOLEAN
  /\ fails \in [Events -> 0..Threshold]
  /\ breaker \in {"closed", "half", "open"}
  /\ streak \in 0..(FailureThreshold - 1)
  /\ sink \in SinkStates
  /\ store \subseteq Events
  /\ op \in {"none", "got", "remove", "repark", "rewrite"}
  /\ opEvent \in Events \cup {0}
  /\ delivered \subseteq Events /\ discarded \subseteq Events
  /\ refused \in BOOLEAN

Init ==
  /\ pos = 0 /\ hi = 0 /\ work = <<>> /\ step = "idle" /\ top = FALSE
  /\ fails = [e \in Events |-> 0]
  /\ breaker = "closed" /\ streak = 0
  /\ sink = "up" /\ store = {}
  /\ op = "none" /\ opEvent = 0
  /\ delivered = {} /\ discarded = {} /\ refused = FALSE

-----------------------------------------------------------------------------
(* One call of the resilient sink on the events of a set.                  *)

\* What processWithRetry ends with, or the open circuit.
Outcomes(E) ==
  IF breaker = "open" THEN {"circuit"}
  ELSE IF sink = "down" THEN {"transient"}
  ELSE (IF sink = "slow" THEN {"timeout"} ELSE {})
       \cup (IF E \cap Bad # {} THEN {"permanent"} ELSE {})
       \cup (IF E \cap Flaky # {} THEN {"transient"} ELSE {})
       \cup (IF E \cap Poison = {} THEN {"ok"} ELSE {})

\* Slip: a permanent error counts against the sink.
HealthyStrict(o) == o = "ok"

\* IsSuccessful: a permanent error says nothing about the sink's health.
Healthy(o) == o \in {"ok", "permanent"}

\* gobreaker's bookkeeping at the end of a call.
Count(o) ==
  \/ /\ o = "circuit"
     /\ UNCHANGED breakerVars
  \/ /\ o # "circuit" /\ Healthy(o)
     /\ breaker' = "closed" /\ streak' = 0
  \/ /\ o # "circuit" /\ ~Healthy(o)
     /\ IF breaker = "half" \/ streak + 1 >= FailureThreshold
          THEN breaker' = "open" /\ streak' = 0
          ELSE streak' = streak + 1 /\ UNCHANGED breaker

\* Slip: only the open circuit stalls.
StallsOnCircuit(o) == o = "circuit"

\* stalls: outcomes that never park anything.
Stalls(o) == o \in {"circuit", "timeout"}

-----------------------------------------------------------------------------
(* dlq.Sink.Process on the stream's batches.                               *)

\* The reader hands over a batch that starts behind pos.
Begin ==
  /\ step = "idle" /\ pos < NumEvents
  /\ hi' \in {h \in Events : pos < h /\ h <= pos + MaxBatch}
  /\ work' = <<<<pos + 1, hi'>>>>
  /\ step' = "call" /\ top' = TRUE
  /\ UNCHANGED <<pos, fails, breakerVars, sink, store, opVars, histVars>>

\* Process returns an error; the reader will replay from pos.
Abort ==
  /\ step' = "idle" /\ work' = <<>>
  /\ UNCHANGED <<pos, hi, top>>

\* The first range is dealt with; Process returns nil after the last.
Proceed ==
  /\ work' = Tail(work)
  /\ IF Len(work) = 1 THEN pos' = hi /\ step' = "idle"
                      ELSE step' = "call" /\ UNCHANGED pos
  /\ UNCHANGED <<hi, top>>

\* Slips: the halves in the wrong order; the halves overlap wrongly.
HalvesSwapped(r) ==
  LET mid == r[1] + (r[2] - r[1] + 1) \div 2
  IN <<<<mid, r[2]>>, <<r[1], mid - 1>>>>

HalvesOff(r) ==
  LET mid == r[1] + (r[2] - r[1] + 1) \div 2
  IN <<<<r[1], mid>>, <<mid + 1, r[2]>>>>

\* The two halves isolate sends, in order.
Halves(r) ==
  LET mid == r[1] + (r[2] - r[1] + 1) \div 2
  IN <<<<r[1], mid - 1>>, <<mid, r[2]>>>>

\* isolate: park a single event, or send the halves.
Isolate ==
  LET r == Head(work)
  IN /\ IF r[1] = r[2]
          THEN step' = "park" /\ UNCHANGED work
          ELSE step' = "call" /\ work' = Halves(r) \o Tail(work)
     /\ top' = FALSE
     /\ UNCHANGED <<pos, hi>>

CallSucceeds ==
  /\ step = "call" /\ "ok" \in Outcomes(Span(Head(work)))
  /\ Count("ok")
  /\ delivered' = delivered \cup Span(Head(work))
  /\ fails' = [e \in Events |-> IF e \in Span(Head(work)) THEN 0 ELSE fails[e]]
  /\ Proceed
  /\ UNCHANGED <<sink, store, opVars, discarded, refused>>

\* An open circuit or a timeout propagates.
CallStalls ==
  /\ step = "call"
  /\ \E o \in Outcomes(Span(Head(work))) : Stalls(o) /\ Count(o)
  /\ Abort
  /\ UNCHANGED <<fails, sink, store, opVars, histVars>>

\* Process's own call failed with an error that is neither: recordFailure
\* counts it against the batch's first event; below the threshold it
\* propagates, at the threshold isolation starts.
CallCounted ==
  /\ step = "call" /\ top
  /\ \E o \in Outcomes(Span(Head(work))) :
       ~Stalls(o) /\ o \notin {"ok", "permanent"} /\ Count(o)
  /\ LET first == Head(work)[1]
         n     == IF fails[first] < Threshold THEN fails[first] + 1
                                              ELSE Threshold
     IN /\ fails' = [fails EXCEPT ![first] = n]
        /\ IF n < Threshold THEN Abort ELSE Isolate
  /\ UNCHANGED <<sink, store, opVars, histVars>>

\* A permanent error, or any failure inside isolate, is isolated at once.
CallIsolates ==
  /\ step = "call"
  /\ \E o \in Outcomes(Span(Head(work))) :
       ~Stalls(o) /\ o # "ok" /\ (top => o = "permanent") /\ Count(o)
  /\ Isolate
  /\ UNCHANGED <<fails, sink, store, opVars, histVars>>

-----------------------------------------------------------------------------
(* Parking: redisStore.Park looks (HEXISTS, ZCARD), then writes.           *)

HasRoom(e) == e \in store \/ MaxEntries = 0 \/ Cardinality(store) < MaxEntries

\* Slips: a full queue drops the event; the size is not looked at.
ParkCheckDrops ==
  /\ step = "park"
  /\ IF HasRoom(Head(work)[1]) THEN step' = "write" /\ UNCHANGED <<pos, hi, work, top>>
                               ELSE Proceed
  /\ UNCHANGED <<fails, breakerVars, sink, store, opVars, histVars>>

ParkCheckBlind ==
  /\ step = "park"
  /\ step' = "write" /\ UNCHANGED <<pos, hi, work, top>>
  /\ UNCHANGED <<fails, breakerVars, sink, store, opVars, histVars>>

ParkCheck ==
  /\ step = "park"
  /\ IF HasRoom(Head(work)[1]) THEN step' = "write" /\ UNCHANGED <<pos, hi, work, top>>
                               ELSE Abort
  /\ UNCHANGED <<fails, breakerVars, sink, store, opVars, histVars>>

ParkWrite ==
  /\ step = "write"
  /\ store' = store \cup {Head(work)[1]}
  /\ fails' = [fails EXCEPT ![Head(work)[1]] = 0]
  /\ Proceed
  /\ UNCHANGED <<breakerVars, sink, opVars, histVars>>

\* Redis fails; a write may have been applied all the same.
ParkFails ==
  /\ step \in {"park", "write"}
  /\ \/ UNCHANGED store
     \/ step = "write" /\ store' = store \cup {Head(work)[1]}
  /\ Abort
  /\ UNCHANGED <<fails, breakerVars, sink, opVars, histVars>>

-----------------------------------------------------------------------------
(* Manager.Retry and Manager.Discard, called by an operator.               *)

RetryGet ==
  /\ op = "none"
  /\ opEvent' \in store
  /\ op' = "got"
  /\ UNCHANGED <<streamVars, fails, breakerVars, sink, store, histVars>>

\* The stored event goes straight to the resilient sink.
RetryCall ==
  /\ op = "got"
  /\ \E o \in Outcomes({opEvent}) :
       /\ Count(o)
       /\ IF o = "ok" THEN op' = "remove" /\ delivered' = delivered \cup {opEvent}
                      ELSE op' = "repark" /\ UNCHANGED delivered
  /\ UNCHANGED <<streamVars, fails, sink, store, opEvent, discarded, refused>>

\* Remove the delivered entry; a Redis error leaves it.
RetryRemove ==
  /\ op = "remove"
  /\ store' \in {store, store \ {opEvent}}
  /\ op' = "none"
  /\ UNCHANGED <<streamVars, fails, breakerVars, sink, opEvent, histVars>>

\* A failed retry parks the entry again, through the same two steps; an
\* error there is only logged.
RetryRepark ==
  /\ op = "repark"
  /\ op' \in IF HasRoom(opEvent) THEN {"rewrite", "none"} ELSE {"none"}
  /\ UNCHANGED <<streamVars, fails, breakerVars, sink, store, opEvent, histVars>>

RetryRewrite ==
  /\ op = "rewrite"
  /\ store' \in {store, store \cup {opEvent}}
  /\ op' = "none"
  /\ UNCHANGED <<streamVars, fails, breakerVars, sink, opEvent, histVars>>

Discard ==
  /\ \E e \in store : store' = store \ {e} /\ discarded' = discarded \cup {e}
  /\ UNCHANGED <<streamVars, fails, breakerVars, sink, opVars, delivered, refused>>

-----------------------------------------------------------------------------
(* The environment.                                                        *)

\* CircuitOpenDuration passes.
HalfOpen ==
  /\ breaker = "open"
  /\ breaker' = "half"
  /\ UNCHANGED <<streamVars, fails, streak, sink, store, opVars, histVars>>

SinkChanges ==
  /\ sink' \in SinkStates \ {sink}
  /\ refused' = (refused \/ sink' = "down")
  /\ UNCHANGED <<streamVars, fails, breakerVars, store, opVars, delivered, discarded>>

\* The process dies and starts again: counts and breaker are in memory.
Restart ==
  /\ step' = "idle" /\ work' = <<>>
  /\ fails' = [e \in Events |-> 0]
  /\ breaker' = "closed" /\ streak' = 0
  /\ op' = "none" /\ opEvent' = 0
  /\ UNCHANGED <<pos, hi, top, sink, store, histVars>>

Stream ==
  \/ Begin \/ CallSucceeds \/ CallStalls \/ CallCounted \/ CallIsolates
  \/ ParkCheck \/ ParkWrite \/ ParkFails

Operator ==
  RetryGet \/ RetryCall \/ RetryRemove \/ RetryRepark \/ RetryRewrite \/ Discard

Next == Stream \/ Operator \/ HalfOpen \/ SinkChanges \/ Restart

Spec == Init /\ [][Next]_vars

\* The stream keeps delivering, Redis answers in the end, the open duration
\* passes.  Operators owe nothing.
Fairness ==
  /\ WF_vars(Begin) /\ WF_vars(HalfOpen)
  /\ WF_vars(CallSucceeds \/ CallStalls \/ CallCounted \/ CallIsolates)
  /\ WF_vars(ParkCheck \/ ParkWrite)

FairSpec == Spec /\ Fairness

\* The same when no operator touches the queue.
QuietSpec == Init /\ [][Stream \/ HalfOpen \/ SinkChanges \/ Restart]_vars /\ Fairness

Fault == ParkFails \/ SinkChanges \/ Restart

-----------------------------------------------------------------------------
\* An event the stream has passed was delivered, is parked, or was discarded
\* by an operator: bisection, failed parking, a full queue, replays and
\* concurrent retries lose nothing (README: "the DLQ never drops an event to
\* save itself").
Resolved == delivered \cup store \cup discarded
NothingLost == 1..pos \subseteq Resolved

\* The sink is given a batch in order: when isolate sends a range, every
\* earlier event of the batch is already resolved.
IsolatesInOrder ==
  step # "idle" => \A e \in (pos + 1)..(Head(work)[1] - 1) : e \in Resolved

\* Park looks and writes in two steps, and the stream and an operator's retry
\* may both park: the cap is overshot by one entry at most.
CapNearlyKept == MaxEntries > 0 => Cardinality(store) <= MaxEntries + 1

\* README: "outages never divert to the DLQ".  Timeouts and open circuits
\* park nothing: as long as the destination never refused a call outright,
\* only events it rejects on their own are parked.
OutagesNeverPark == refused \/ store \subseteq Poison

\* A poison event does not stall the pipeline (README, "Dead-letter queue"):
\* when faults cease with the sink up, the stream gets past every event, or
\* it is refused again and again by a queue that is full.
QueueFull == step = "park" /\ ~HasRoom(Head(work)[1])
PoisonPasses ==
  (<>[][~Fault]_vars /\ <>[](sink = "up"))
    => (<>(pos = NumEvents) \/ []<>QueueFull)
=============================================================================
