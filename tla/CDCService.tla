----------------------------- MODULE CDCService -----------------------------
(***************************************************************************)
(* The service between the WAL reader and the sinks                        *)
(* (core/services/cdc_service.go, registry.go): Start initializes the      *)
(* sinks and runs the reader, handleBatch fans a batch out to every sink   *)
(* in pieces of the sink's own limit, Stop waits for the batch in flight,  *)
(* stops the reader and shuts the sinks down.                              *)
(*                                                                         *)
(* The reader is seen through its handler calls: one worker, batches that  *)
(* start behind pos, replay from pos after an error.  A batch is the set   *)
(* of its events, which are numbers in stream order.  A sink call is one   *)
(* step; it may take forever.                                              *)
(***************************************************************************)
EXTENDS Integers, Sequences, FiniteSets

CONSTANTS
  Sinks,        \* registered sinks
  Limit,        \* MaxBatchEvents of each sink, 0 for none
  NumEvents,    \* bound: events of the stream
  Excluded,     \* events of excluded tables
  MaxBatch      \* bound: events of a batch

Events == 1..NumEvents

ASSUME ServiceAssumption ==
  /\ IsFiniteSet(Sinks) /\ Limit \in [Sinks -> Nat]
  /\ NumEvents \in Nat /\ Excluded \subseteq Events /\ MaxBatch \in Nat \ {0}

VARIABLES
  parallel,   \* CDC_PARALLEL_SINKS, fixed when the service is built
  ready,      \* sinks whose Initialize returned nil
  cancelled,  \* the context of Start is cancelled
  reader,     \* new, running, ended, or never (an Initialize failed)
  pos,        \* the handler returned nil for events 1..pos
  hi,         \* end of the batch in the handler
  h,          \* where handleBatch is
  inFlight,   \* the service's WaitGroup (there is one worker)
  left,       \* per sink, the events of the batch it has yet to accept
  result,     \* per sink, SinkResult
  closing,    \* the shutdown channel is closed
  stop,       \* where Stop is
  gaveUp,     \* Stop's wait for the batch in flight timed out
  shut,       \* sinks that were shut down
  applied     \* history: per sink, the events it accepted

handlerVars == <<pos, hi, h, inFlight, left, result, applied>>
stopVars    == <<closing, stop, gaveUp, shut>>
vars == <<parallel, ready, cancelled, reader, handlerVars, stopVars>>

TypeOK ==
  /\ parallel \in BOOLEAN
  /\ ready \subseteq Sinks /\ cancelled \in BOOLEAN
  /\ reader \in {"new", "running", "ended", "never"}
  /\ pos \in 0..NumEvents /\ hi \in 0..NumEvents
  /\ h \in {"idle", "entered", "work"}
  /\ inFlight \in 0..1
  /\ left \in [Sinks -> SUBSET Events]
  /\ result \in [Sinks -> {"none", "ok", "failed"}]
  /\ closing \in BOOLEAN
  /\ stop \in {"no", "wait", "reader", "sinks", "done"}
  /\ gaveUp \in BOOLEAN
  /\ shut \subseteq Sinks
  /\ applied \in [Sinks -> SUBSET Events]

Init ==
  /\ parallel \in BOOLEAN
  /\ ready = {} /\ cancelled = FALSE /\ reader = "new"
  /\ pos = 0 /\ hi = 0 /\ h = "idle" /\ inFlight = 0
  /\ left = [s \in Sinks |-> {}] /\ result = [s \in Sinks |-> "none"]
  /\ closing = FALSE /\ stop = "no" /\ gaveUp = FALSE /\ shut = {}
  /\ applied = [s \in Sinks |-> {}]

-----------------------------------------------------------------------------
(* Start.                                                                  *)

InitializeSink(s) ==
  /\ reader = "new" /\ s \notin ready
  /\ \/ ready' = ready \cup {s} /\ UNCHANGED reader
     \/ reader' = "never" /\ UNCHANGED ready
  /\ UNCHANGED <<parallel, cancelled, handlerVars, stopVars>>

StartReader ==
  /\ reader = "new" /\ ready = Sinks
  /\ reader' = "running"
  /\ UNCHANGED <<parallel, ready, cancelled, handlerVars, stopVars>>

\* The reader's Start returns once its context is cancelled; it joins its
\* worker.
ReaderEnds ==
  /\ reader = "running" /\ cancelled /\ h = "idle"
  /\ reader' = "ended"
  /\ UNCHANGED <<parallel, ready, cancelled, handlerVars, stopVars>>

-----------------------------------------------------------------------------
(* handleBatch.                                                            *)

\* admit: the batch without the events of excluded tables.
Admit(lo, end) == {e \in lo..end : e \notin Excluded}
Batch == Admit(pos + 1, hi)

\* Slip: the batch is counted twice.
HandlerEntersTwice ==
  /\ reader = "running" /\ h = "idle" /\ pos < NumEvents
  /\ hi' \in {e \in Events : pos < e /\ e <= pos + MaxBatch}
  /\ h' = "entered" /\ inFlight' = 2
  /\ UNCHANGED <<parallel, ready, cancelled, reader, pos, left, result, applied, stopVars>>

\* The worker calls the handler, which first counts itself in flight.
HandlerEnters ==
  /\ reader = "running" /\ h = "idle" /\ pos < NumEvents
  /\ hi' \in {e \in Events : pos < e /\ e <= pos + MaxBatch}
  /\ h' = "entered" /\ inFlight' = 1
  /\ UNCHANGED <<parallel, ready, cancelled, reader, pos, left, result, applied, stopVars>>

\* handleBatch returns, with success when the position moves to the batch's
\* end; its locals are gone.
Leaves(to) ==
  /\ h' = "idle" /\ pos' = to /\ hi' = to
  /\ left' = [s \in Sinks |-> {}] /\ result' = [s \in Sinks |-> "none"]

\* Slip: the refused batch stays in the WaitGroup.
HandlerRefusesNotDone ==
  /\ h = "entered" /\ closing
  /\ Leaves(pos) /\ inFlight' = 1
  /\ UNCHANGED <<parallel, ready, cancelled, reader, applied, stopVars>>

\* ErrShuttingDown.
HandlerRefuses ==
  /\ h = "entered" /\ closing
  /\ Leaves(pos) /\ inFlight' = 0
  /\ UNCHANGED <<parallel, ready, cancelled, reader, applied, stopVars>>

\* Nothing admitted, or no sink: the handler returns nil at once.
HandlerSkips ==
  /\ h = "entered" /\ ~closing
  /\ Batch = {} \/ Sinks = {}
  /\ Leaves(hi) /\ inFlight' = 0
  /\ UNCHANGED <<parallel, ready, cancelled, reader, applied, stopVars>>

HandlerWorks ==
  /\ h = "entered" /\ ~closing
  /\ Batch # {} /\ Sinks # {}
  /\ h' = "work"
  /\ left' = [s \in Sinks |-> Batch] /\ result' = [s \in Sinks |-> "none"]
  /\ UNCHANGED <<parallel, ready, cancelled, reader, pos, hi, inFlight, applied, stopVars>>

\* ProcessBatch: one goroutine per sink, or one sink after the other.
Turn(s) ==
  /\ h = "work" /\ result[s] = "none"
  /\ parallel \/ \A t \in Sinks \ {s} : result[t] = "none" => left[t] = Batch

\* The piece deliver hands to the sink next: the first Limit of what is left.
Piece(s) ==
  {e \in left[s] : \/ Limit[s] = 0
                   \/ Cardinality({f \in left[s] : f <= e}) <= Limit[s]}

SinkAccepts(s) ==
  /\ Turn(s)
  /\ left' = [left EXCEPT ![s] = @ \ Piece(s)]
  /\ applied' = [applied EXCEPT ![s] = @ \cup Piece(s)]
  /\ result' = [result EXCEPT ![s] =
                  IF left[s] \subseteq Piece(s) THEN "ok" ELSE "none"]
  /\ UNCHANGED <<parallel, ready, cancelled, reader, pos, hi, h, inFlight, stopVars>>

\* Slip: the next piece is sent although this one failed.
SinkFailsGoesOn(s) ==
  /\ Turn(s)
  /\ left' = [left EXCEPT ![s] = @ \ Piece(s)]
  /\ result' = [result EXCEPT ![s] =
                  IF left[s] \subseteq Piece(s) THEN "failed" ELSE "none"]
  /\ UNCHANGED <<parallel, ready, cancelled, reader, pos, hi, h, inFlight, applied, stopVars>>

SinkFails(s) ==
  /\ Turn(s)
  /\ result' = [result EXCEPT ![s] = "failed"]
  /\ UNCHANGED <<parallel, ready, cancelled, reader, pos, hi, h, inFlight, left, applied, stopVars>>

\* Slip: one successful sink is enough.
HandlerReturnsAny ==
  /\ h = "work" /\ \A s \in Sinks : result[s] # "none"
  /\ Leaves(IF \E s \in Sinks : result[s] = "ok" THEN hi ELSE pos)
  /\ inFlight' = 0
  /\ UNCHANGED <<parallel, ready, cancelled, reader, applied, stopVars>>

\* nil when every sink succeeded, ErrSinkProcessFailed otherwise.
HandlerReturns ==
  /\ h = "work" /\ \A s \in Sinks : result[s] # "none"
  /\ Leaves(IF \A s \in Sinks : result[s] = "ok" THEN hi ELSE pos)
  /\ inFlight' = 0
  /\ UNCHANGED <<parallel, ready, cancelled, reader, applied, stopVars>>

-----------------------------------------------------------------------------
(* Stop, under the deadline of its context.                                *)

\* run's OnStop cancels the context Start runs under, then calls Stop.
Cancel ==
  /\ ~cancelled
  /\ cancelled' = TRUE
  /\ UNCHANGED <<parallel, ready, reader, handlerVars, stopVars>>

StopCalled ==
  /\ stop = "no" /\ cancelled
  /\ closing' = TRUE /\ stop' = "wait"
  /\ UNCHANGED <<parallel, ready, cancelled, reader, handlerVars, gaveUp, shut>>

\* Slip: Stop does not wait.
StopWaitsNot ==
  /\ stop = "wait" /\ stop' = "reader"
  /\ UNCHANGED <<parallel, ready, cancelled, reader, handlerVars, closing, gaveUp, shut>>

\* wg.Wait returns.
StopWaited ==
  /\ stop = "wait" /\ inFlight = 0
  /\ stop' = "reader"
  /\ UNCHANGED <<parallel, ready, cancelled, reader, handlerVars, closing, gaveUp, shut>>

StopGivesUp ==
  /\ stop = "wait"
  /\ stop' = "reader" /\ gaveUp' = TRUE
  /\ UNCHANGED <<parallel, ready, cancelled, reader, handlerVars, closing, shut>>

\* walReader.Stop returns when the reader's Start has, or at the deadline; a
\* reader that was never started leaves only the deadline.
StopJoinsReader ==
  /\ stop = "reader" /\ reader = "ended"
  /\ stop' = "sinks"
  /\ UNCHANGED <<parallel, ready, cancelled, reader, handlerVars, closing, gaveUp, shut>>

StopLeavesReader ==
  /\ stop = "reader"
  /\ stop' = "sinks"
  /\ UNCHANGED <<parallel, ready, cancelled, reader, handlerVars, closing, gaveUp, shut>>

ShutdownSink(s) ==
  /\ stop = "sinks" /\ s \notin shut
  /\ shut' = shut \cup {s}
  /\ UNCHANGED <<parallel, ready, cancelled, reader, handlerVars, closing, stop, gaveUp>>

StopReturns ==
  /\ stop = "sinks" /\ shut = Sinks
  /\ stop' = "done"
  /\ UNCHANGED <<parallel, ready, cancelled, reader, handlerVars, closing, gaveUp, shut>>

Stop ==
  \/ StopWaited \/ StopGivesUp \/ StopJoinsReader \/ StopLeavesReader
  \/ StopReturns

\* The service has stopped and its goroutines are gone, or wait on a sink.
Stopped ==
  /\ stop = "done" /\ reader # "running"
  /\ UNCHANGED vars

Next ==
  \/ \E s \in Sinks : \/ InitializeSink(s) \/ SinkAccepts(s)
                      \/ SinkFails(s) \/ ShutdownSink(s)
  \/ StartReader \/ ReaderEnds
  \/ HandlerEnters \/ HandlerRefuses \/ HandlerSkips
  \/ HandlerWorks \/ HandlerReturns
  \/ Cancel \/ StopCalled \/ Stop \/ Stopped

Spec == Init /\ [][Next]_vars

\* Goroutines run and sink calls return: their attempts are bounded by the
\* resilience layer's timeout.  wg.Wait is woken by the Done that reaches
\* zero, hence strong fairness.  A failed Start makes run shut the process
\* down, and OnStop goes on to Stop.  The deadline is asked for only where
\* nothing else ends the wait: a reader that was never started.
Fairness ==
  /\ \A s \in Sinks :
       /\ WF_vars(InitializeSink(s)) /\ WF_vars(ShutdownSink(s))
       /\ WF_vars(SinkAccepts(s) \/ SinkFails(s))
  /\ WF_vars(StartReader) /\ SF_vars(ReaderEnds)
  /\ WF_vars(HandlerRefuses \/ HandlerSkips \/ HandlerWorks \/ HandlerReturns)
  /\ WF_vars(reader = "never" /\ Cancel) /\ WF_vars(StopCalled)
  /\ SF_vars(StopWaited) /\ WF_vars(StopJoinsReader) /\ WF_vars(StopReturns)
  /\ WF_vars(reader = "never" /\ StopLeavesReader)

FairSpec == Spec /\ Fairness

-----------------------------------------------------------------------------
\* handleBatch reports success only for what every sink accepted in full, so
\* the reader confirms nothing a sink missed: pieces, parallel sinks, one
\* failing sink and a shutdown in the middle included.
SuccessMeansEverySink ==
  \A s \in Sinks : (1..pos) \ Excluded \subseteq applied[s]

\* A sink accepts an event only after every earlier admitted event: pieces
\* are in order, a failed piece ends the delivery, a failed batch is replayed.
AcceptedInOrder ==
  \A s \in Sinks : \A e \in applied[s] :
    \A f \in 1..(e - 1) : f \in Excluded \/ f \in applied[s]

\* Once Stop has seen the batch in flight complete, no sink is called after
\* its Shutdown, even when the reader does not stop in time.
NoCallAfterShutdown ==
  (shut # {} /\ ~gaveUp) => h # "work"

\* Stop needs no deadline for a service that started: when sink calls return
\* it gets through its waits for the batch in flight and for the reader,
\* although the reader keeps redelivering what was refused.  A service whose
\* sinks could not be initialized stops as well, at the deadline: the reader
\* Stop waits for was never started.
StopIsGraceful ==
  (stop = "wait" \/ reader = "never") ~> (stop = "done")

\* The service is a handler as the reader's contract wants it: what it
\* reports as handled, every sink has processed.
Contract ==
  INSTANCE AtLeastOnce WITH
    WAL <- [e \in Events |-> IF e \in Excluded THEN "other" ELSE "event"],
    processed <- {e \in Events \ Excluded : \A s \in Sinks : e \in applied[s]},
    confirmed <- pos

\* Every step of the service is a step of the contract or invisible there.
ServiceImplementsContract == Contract!Spec
=============================================================================
