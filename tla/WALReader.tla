----------------------------- MODULE WALReader -----------------------------
(***************************************************************************)
(* internal/adapters/primary/wal/reader.go and the transaction state of    *)
(* decoder.go: one process reads the replication stream, batches decoded   *)
(* events, hands the batches to a delivery goroutine through a bounded     *)
(* queue and confirms positions to PostgreSQL.  Two goroutines:            *)
(*                                                                         *)
(*   main     Start/streamLoop: connects, receives, decodes, flushes,      *)
(*            enqueues, sends standby status, tears the stream down;       *)
(*   worker   the delivery goroutine: takes a unit, runs the handler,      *)
(*            reports a watermark, confirms the unit's ack.                *)
(*                                                                         *)
(* The environment loses connections, crashes and restarts the process,    *)
(* delays or loses standby status messages, fails the handler after any    *)
(* part of a unit reached the sinks, and asks the reader to stop.          *)
(*                                                                         *)
(* Timers (batch linger, keepalive deadline, receive deadline) may fire at *)
(* any time.  A unit's events are the stream positions they come from; the *)
(* rows a backfill chunk emits at a watermark are slices of MaxBatch rows. *)
(***************************************************************************)
EXTENDS Stream, FiniteSets

CONSTANTS
  MaxBatch,     \* CDC_BATCH_MAX_EVENTS
  QueueDepth,   \* deliveryQueueDepth
  MaxSlices     \* bound: slices of rows a watermark may emit

ASSUME ReaderAssumption ==
  /\ MaxBatch \in Nat \ {0}
  /\ QueueDepth \in Nat \ {0}
  /\ MaxSlices \in Nat

VARIABLES
  slot,         \* PostgreSQL: confirmed_flush_lsn
  wire,         \* standby status sent and not yet applied (0: none)
  handled,      \* sinks: positions whose event every sink has processed
  pc,           \* main: where Start/streamLoop is
  ret,          \* main: where enqueue returns to
  startLSN,     \* main: setupReplication's startLSN
  pos,          \* main: last stream position received
  inTxn,        \* decoder.txn.inTxn (outlives the stream, not the process)
  batch,        \* main: the open batch
  pendingAck,   \* main: confirmable once everything before it is handled
  offer,        \* main: units enqueue has yet to hand over
  queue,        \* channel between main and worker
  outstanding,  \* units queued or being delivered
  worker,       \* worker: where the delivery goroutine is
  unit,         \* worker: the unit taken last
  failed,       \* the failed channel holds an error
  clientLSN,    \* Reader.clientLSN
  shutdown,     \* Reader.shutdown is closed
  cancelled,    \* Start's ctx is cancelled
  undelivered,  \* history: <<watermark, slice>> emitted and not yet handled
  reported      \* history: watermarks reported delivered on this stream

loopVars   == <<batch, pendingAck, offer, ret>>
chanVars   == <<queue, outstanding>>
workerVars == <<worker, unit, failed>>
pgVars     == <<slot, wire>>
stopVars   == <<shutdown, cancelled>>
histVars   == <<undelivered, reported>>
vars == <<slot, wire, handled, pc, ret, startLSN, pos, inTxn, batch,
          pendingAck, offer, queue, outstanding, worker, unit, failed,
          clientLSN, shutdown, cancelled, undelivered, reported>>

Later(a, b) == IF a > b THEN a ELSE b

\* type delivery: a batch of live events with the ack riding on it, or one
\* slice of a chunk's rows, the last of which carries the watermark.
Unit == {u \in [events : SUBSET Events, ack : 0..Len(WAL), mark : 0..Len(WAL),
                slice : 0..MaxSlices, final : BOOLEAN] :
           u.final => u.mark \in Positions}

LiveUnit(b, a) ==
  [events |-> b, ack |-> a, mark |-> 0, slice |-> 0, final |-> FALSE]

\* Slip: the watermark rides on the first slice.
ChunkUnitFirst(p, i, n) ==
  [events |-> {}, ack |-> 0, mark |-> p, slice |-> i, final |-> i <= 1]

ChunkUnit(p, i, n) ==
  [events |-> {}, ack |-> 0, mark |-> p, slice |-> i, final |-> i = n]

NoUnit == LiveUnit({}, 0)

\* len(d.events) > 0: the handler runs only for units that hold events.
HasEvents(d) == d.events # {} \/ d.slice > 0

StreamStates == {"top", "acks", "recv", "events", "mark", "enq", "reply"}
TeardownStates == {"drain", "wait"}
States == StreamStates \cup TeardownStates \cup {"down", "setup", "stopped"}

TypeOK ==
  /\ slot \in 0..Len(WAL)
  /\ wire \in 0..Len(WAL)
  /\ handled \in SUBSET Events
  /\ pc \in States
  /\ ret \in {"top", "acks", "events", "mark"}
  /\ startLSN \in 0..Len(WAL)
  /\ pos \in 0..Len(WAL)
  /\ inTxn \in BOOLEAN
  /\ batch \in SUBSET Events
  /\ pendingAck \in 0..Len(WAL)
  /\ offer \in Seq(Unit)
  /\ queue \in Seq(Unit) /\ Len(queue) <= QueueDepth
  /\ outstanding \in Nat
  /\ worker \in {"idle", "handling", "handled", "acked", "exited"}
  /\ unit \in Unit
  /\ failed \in BOOLEAN
  /\ clientLSN \in 0..Len(WAL)
  /\ shutdown \in BOOLEAN /\ cancelled \in BOOLEAN
  /\ undelivered \in SUBSET (Positions \X (1..MaxSlices))
  /\ reported \in SUBSET Positions

Init ==
  /\ slot = 0 /\ wire = 0 /\ handled = {}
  /\ pc = "down" /\ ret = "top" /\ startLSN = 0 /\ pos = 0 /\ inTxn = FALSE
  /\ batch = {} /\ pendingAck = 0 /\ offer = <<>>
  /\ queue = <<>> /\ outstanding = 0
  /\ worker = "exited" /\ unit = NoUnit /\ failed = FALSE
  /\ clientLSN = 0
  /\ shutdown = FALSE /\ cancelled = FALSE
  /\ undelivered = {} /\ reported = {}

-----------------------------------------------------------------------------
(* Connecting: Start's outer loop and setupReplication.                    *)

\* connect, then ensureReplicationSlot reads confirmed_flush_lsn.
Connect ==
  /\ pc = "down" /\ ~shutdown /\ ~cancelled
  /\ startLSN' = slot
  /\ pc' = "setup"
  /\ UNCHANGED <<pgVars, handled, pos, inTxn, loopVars, chanVars, workerVars,
                 clientLSN, stopVars, histVars>>

\* The slot was busy past SlotRetryTimeout, the connection broke, or the ctx
\* was cancelled: Start closes the connection, backs off and tries again.
SetupFails ==
  /\ pc = "setup"
  /\ pc' = "down"
  /\ UNCHANGED <<pgVars, handled, startLSN, pos, inTxn, loopVars, chanVars,
                 workerVars, clientLSN, stopVars, histVars>>

\* START_REPLICATION succeeds, possibly after retries while the previous
\* session still held the slot and moved it: startLSN was read before.  The
\* server never starts below confirmed_flush_lsn.  Status messages of the
\* previous session can no longer be applied.  A fresh streamLoop begins.
StartStream ==
  /\ pc = "setup" /\ ~cancelled
  /\ pos' = Later(startLSN, slot)
  /\ clientLSN' = startLSN
  /\ wire' = 0
  /\ worker' = "idle" /\ unit' = NoUnit /\ failed' = FALSE
  /\ queue' = <<>> /\ outstanding' = 0
  /\ undelivered' = {} /\ reported' = {}
  /\ pc' = "top"
  /\ UNCHANGED <<slot, handled, startLSN, inTxn, loopVars, stopVars>>

\* Start returns once the ctx is cancelled or Stop was called.
Quit ==
  /\ pc = "down" /\ (shutdown \/ cancelled)
  /\ pc' = "stopped"
  /\ UNCHANGED <<pgVars, handled, startLSN, pos, inTxn, loopVars, chanVars,
                 workerVars, clientLSN, stopVars, histVars>>

-----------------------------------------------------------------------------
(* streamLoop, the main goroutine.                                         *)

\* Leaving streamLoop: the deferred teardown starts.  The open batch, the
\* pending ack and units not yet handed over are locals that die with it.
Leave ==
  /\ pc' = "drain"
  /\ batch' = {} /\ pendingAck' = 0 /\ offer' = <<>>
  /\ UNCHANGED <<pgVars, handled, ret, startLSN, pos, inTxn, chanVars,
                 workerVars, clientLSN, stopVars, histVars>>

\* Slip: the select at the top forgets the shutdown channel.
LoopStopsDeaf == pc = "top" /\ (cancelled \/ failed) /\ Leave

\* The select at the top of the loop: shutdown, ctx or a failed delivery.
LoopStops ==
  /\ pc = "top" /\ (shutdown \/ cancelled \/ failed)
  /\ Leave

\* flush: hand batch b over with the pending ack riding on it, then carry on
\* at r.  enqueue counts the unit before it waits for room in the queue.
Flush(b, r) ==
  /\ offer' = <<LiveUnit(b, pendingAck)>>
  /\ batch' = {} /\ pendingAck' = 0
  /\ outstanding' = outstanding + 1
  /\ ret' = r
  /\ pc' = "enq"

\* Past the select; the linger of the open batch has passed or not.
LoopTop ==
  /\ pc = "top" /\ ~shutdown /\ ~cancelled /\ ~failed
  /\ \/ batch # {} /\ Flush(batch, "acks")
     \/ pc' = "acks" /\ UNCHANGED <<loopVars, outstanding>>
  /\ UNCHANGED <<pgVars, handled, startLSN, pos, inTxn, queue, workerVars,
                 clientLSN, stopVars, histVars>>

\* Slip: the pending ack is confirmed while units are outstanding.
ConfirmIdleEarly ==
  /\ pc = "acks"
  /\ IF pendingAck > 0 /\ batch = {}
       THEN clientLSN' = Later(clientLSN, pendingAck) /\ pendingAck' = 0
       ELSE UNCHANGED <<clientLSN, pendingAck>>
  /\ pc' = "recv"
  /\ UNCHANGED <<pgVars, handled, startLSN, pos, inTxn, batch, offer, ret,
                 chanVars, workerVars, stopVars, histVars>>

\* An ack with no batch to ride on is confirmed once nothing is outstanding.
ConfirmIdle ==
  /\ pc = "acks"
  /\ IF pendingAck > 0 /\ batch = {} /\ outstanding = 0
       THEN clientLSN' = Later(clientLSN, pendingAck) /\ pendingAck' = 0
       ELSE UNCHANGED <<clientLSN, pendingAck>>
  /\ pc' = "recv"
  /\ UNCHANGED <<pgVars, handled, startLSN, pos, inTxn, batch, offer, ret,
                 chanVars, workerVars, stopVars, histVars>>

\* Slip: the status carries the position received, not the one confirmed.
SendStatusReceived ==
  /\ pc \in {"recv", "enq", "reply"}
  /\ wire' = pos
  /\ pc' = IF pc = "reply" THEN "top" ELSE pc
  /\ UNCHANGED <<slot, handled, startLSN, pos, inTxn, loopVars, chanVars,
                 workerVars, clientLSN, stopVars, histVars>>

\* keepalive, when its deadline passes in the loop or inside enqueue, or
\* when the server asked for a reply.
SendStatus ==
  /\ pc \in {"recv", "enq", "reply"}
  /\ wire' = clientLSN
  /\ pc' = IF pc = "reply" THEN "top" ELSE pc
  /\ UNCHANGED <<slot, handled, startLSN, pos, inTxn, loopVars, chanVars,
                 workerVars, clientLSN, stopVars, histVars>>

\* Sending or receiving fails, PostgreSQL reports an error, a message does
\* not decode, or the ctx is cancelled while the reader waits.
ConnectionLost ==
  /\ pc \in {"recv", "enq", "reply"}
  /\ Leave

\* ReceiveMessage's deadline passes with nothing to read.
ReceiveTimeout ==
  /\ pc = "recv"
  /\ pc' = "top"
  /\ UNCHANGED <<pgVars, handled, startLSN, pos, inTxn, loopVars, chanVars,
                 workerVars, clientLSN, stopVars, histVars>>

\* Slip: the decoder acknowledges a keepalive inside a transaction.
ReceiveKeepaliveInTxn ==
  /\ pc = "recv"
  /\ \E walEnd \in IF Open(pos) THEN pos..Len(WAL) ELSE {pos} :
        pendingAck' = Later(pendingAck, walEnd)
  /\ pc' \in {"top", "reply"}
  /\ UNCHANGED <<pgVars, handled, startLSN, pos, inTxn, batch, offer, ret,
                 chanVars, workerVars, clientLSN, stopVars, histVars>>

\* Decode on a keepalive.  Outside a transaction the server has sent all it
\* reports; inside one its WAL end may lie beyond events not yet received,
\* and the decoder does not acknowledge it.
ReceiveKeepalive ==
  /\ pc = "recv"
  /\ \E walEnd \in IF Open(pos) THEN pos..Len(WAL) ELSE {pos} :
        pendingAck' = IF inTxn THEN pendingAck ELSE Later(pendingAck, walEnd)
  /\ pc' \in {"top", "reply"}
  /\ UNCHANGED <<pgVars, handled, startLSN, pos, inTxn, batch, offer, ret,
                 chanVars, workerVars, clientLSN, stopVars, histVars>>

\* Decode on BEGIN, COMMIT and messages that carry nothing: COMMIT closes
\* the transaction and its end is a position to confirm.
ReceiveBoundary ==
  /\ pc = "recv" /\ pos < Len(WAL)
  /\ WAL[pos + 1] \in {"begin", "commit", "other"}
  /\ pos' = pos + 1
  /\ inTxn' = CASE WAL[pos + 1] = "begin"  -> TRUE
                [] WAL[pos + 1] = "commit" -> FALSE
                [] OTHER                   -> inTxn
  /\ pendingAck' = IF WAL[pos + 1] = "commit"
                     THEN Later(pendingAck, pos + 1) ELSE pendingAck
  /\ pc' = "top"
  /\ UNCHANGED <<pgVars, handled, startLSN, batch, offer, ret, chanVars,
                 workerVars, clientLSN, stopVars, histVars>>

\* One round of the loop over result.Events: the event joins the batch, and a
\* full batch is flushed before the message's next event is looked at.
ReceiveEvent ==
  /\ \/ pc = "recv" /\ pos < Len(WAL) /\ pos + 1 \in Events
     \/ pc = "events"
  /\ pos' = pos + 1
  /\ LET b    == batch \cup {pos + 1}
         next == IF WAL[pos + 1] = "more" THEN "events" ELSE "top"
     IN IF Cardinality(b) >= MaxBatch
          THEN Flush(b, next)
          ELSE /\ batch' = b
               /\ pc' = next
               /\ UNCHANGED <<pendingAck, offer, ret, outstanding>>
  /\ UNCHANGED <<pgVars, handled, startLSN, inTxn, queue, workerVars,
                 clientLSN, stopVars, histVars>>

\* A watermark message: the open batch goes out before it.
ReceiveWatermark ==
  /\ pc = "recv" /\ pos < Len(WAL) /\ WAL[pos + 1] = "watermark"
  /\ pos' = pos + 1
  /\ \/ batch # {} /\ Flush(batch, "mark")
     \/ batch = {} /\ pc' = "mark" /\ UNCHANGED <<loopVars, outstanding>>
  /\ UNCHANGED <<pgVars, handled, startLSN, inTxn, queue, workerVars,
                 clientLSN, stopVars, histVars>>

\* HandleWatermark returns n slices of rows; they are queued in order and
\* the last (or, with no rows, an empty unit) carries the watermark.
HandleMark ==
  /\ pc = "mark"
  /\ \E n \in 0..MaxSlices :
       /\ offer' = IF n = 0 THEN <<ChunkUnit(pos, 0, 0)>>
                            ELSE [i \in 1..n |-> ChunkUnit(pos, i, n)]
       /\ undelivered' = undelivered \cup ({pos} \X (1..n))
  /\ outstanding' = outstanding + 1
  /\ ret' = "top" /\ pc' = "enq"
  /\ UNCHANGED <<pgVars, handled, startLSN, pos, inTxn, batch, pendingAck,
                 queue, workerVars, clientLSN, stopVars, reported>>

\* Slip: the queue takes a unit more than its capacity.
EnqueueOver ==
  /\ pc = "enq" /\ Len(queue) <= QueueDepth
  /\ queue' = Append(queue, Head(offer))
  /\ offer' = Tail(offer)
  /\ IF Len(offer) = 1
       THEN pc' = ret /\ UNCHANGED outstanding
       ELSE outstanding' = outstanding + 1 /\ UNCHANGED pc
  /\ UNCHANGED <<pgVars, handled, startLSN, pos, inTxn, batch, pendingAck,
                 ret, workerVars, clientLSN, stopVars, histVars>>

\* enqueue: the queue has room.  The next unit, if any, is counted at once.
Enqueue ==
  /\ pc = "enq" /\ Len(queue) < QueueDepth
  /\ queue' = Append(queue, Head(offer))
  /\ offer' = Tail(offer)
  /\ IF Len(offer) = 1
       THEN pc' = ret /\ UNCHANGED outstanding
       ELSE outstanding' = outstanding + 1 /\ UNCHANGED pc
  /\ UNCHANGED <<pgVars, handled, startLSN, pos, inTxn, batch, pendingAck,
                 ret, workerVars, clientLSN, stopVars, histVars>>

\* Slip: enqueue does not listen to the failed channel.
EnqueueFailsDeaf == pc = "enq" /\ cancelled /\ Leave

\* enqueue: the delivery goroutine failed, or the ctx was cancelled.
EnqueueFails ==
  /\ pc = "enq" /\ (failed \/ cancelled)
  /\ Leave

-----------------------------------------------------------------------------
(* The deferred teardown of streamLoop.                                    *)

\* The drain loop receives from the queue like the worker does.
DrainOne ==
  /\ pc = "drain" /\ queue # <<>>
  /\ queue' = Tail(queue)
  /\ UNCHANGED <<pgVars, handled, pc, startLSN, pos, inTxn, loopVars,
                 outstanding, workerVars, clientLSN, stopVars, histVars>>

\* Nothing left to drain: close(queue) and wait for the worker.
CloseQueue ==
  /\ pc = "drain" /\ queue = <<>>
  /\ pc' = "wait"
  /\ UNCHANGED <<pgVars, handled, startLSN, pos, inTxn, loopVars, chanVars,
                 workerVars, clientLSN, stopVars, histVars>>

\* The worker is gone: OnStreamStop, then Start closes the connection and
\* either returns or backs off and reconnects.
EndStream ==
  /\ pc = "wait" /\ worker = "exited"
  /\ pc' = IF shutdown \/ cancelled THEN "stopped" ELSE "down"
  /\ UNCHANGED <<pgVars, handled, startLSN, pos, inTxn, loopVars, chanVars,
                 workerVars, clientLSN, stopVars, histVars>>

-----------------------------------------------------------------------------
(* The delivery goroutine.                                                 *)

Take ==
  /\ worker = "idle" /\ queue # <<>>
  /\ unit' = Head(queue)
  /\ queue' = Tail(queue)
  /\ worker' = IF HasEvents(unit') THEN "handling" ELSE "handled"
  /\ UNCHANGED <<pgVars, handled, pc, startLSN, pos, inTxn, loopVars,
                 outstanding, failed, clientLSN, stopVars, histVars>>

\* The handler returned nil: every sink processed every event of the unit.
HandlerSucceeds ==
  /\ worker = "handling"
  /\ handled' = handled \cup unit.events
  /\ undelivered' = undelivered \ {<<unit.mark, unit.slice>>}
  /\ worker' = "handled"
  /\ UNCHANGED <<pgVars, pc, startLSN, pos, inTxn, loopVars, chanVars, unit,
                 failed, clientLSN, stopVars, reported>>

\* Slips: the worker carries on after an error as if the unit were handled;
\* it skips the unit and takes the next; it uncounts the failed unit.
HandlerFailsIgnored ==
  /\ worker = "handling"
  /\ \E part \in SUBSET unit.events : handled' = handled \cup part
  /\ worker' = "handled"
  /\ UNCHANGED <<pgVars, pc, startLSN, pos, inTxn, loopVars, chanVars, unit,
                 failed, clientLSN, stopVars, histVars>>

HandlerFailsSkips ==
  /\ worker = "handling"
  /\ \E part \in SUBSET unit.events : handled' = handled \cup part
  /\ failed' = TRUE
  /\ worker' = "idle"
  /\ UNCHANGED <<pgVars, pc, startLSN, pos, inTxn, loopVars, chanVars, unit,
                 clientLSN, stopVars, histVars>>

HandlerFailsUncounts ==
  /\ worker = "handling"
  /\ \E part \in SUBSET unit.events : handled' = handled \cup part
  /\ failed' = TRUE
  /\ worker' = "exited"
  /\ outstanding' = outstanding - 1
  /\ UNCHANGED <<pgVars, pc, startLSN, pos, inTxn, loopVars, queue, unit,
                 clientLSN, stopVars, histVars>>

\* The handler returned an error; any part may have reached every sink.  The
\* worker exits without uncounting the unit.
HandlerFails ==
  /\ worker = "handling"
  /\ \E part \in SUBSET unit.events : handled' = handled \cup part
  /\ failed' = TRUE
  /\ worker' = "exited"
  /\ UNCHANGED <<pgVars, pc, startLSN, pos, inTxn, loopVars, chanVars, unit,
                 clientLSN, stopVars, histVars>>

\* WatermarkDelivered and confirm, in that order.
Acknowledge ==
  /\ worker = "handled"
  /\ reported' = reported \cup (IF unit.final THEN {unit.mark} ELSE {})
  /\ clientLSN' = Later(clientLSN, unit.ack)
  /\ worker' = "acked"
  /\ UNCHANGED <<pgVars, handled, pc, startLSN, pos, inTxn, loopVars,
                 chanVars, unit, failed, stopVars, undelivered>>

\* outstanding.Add(-1), then back to the queue.
Uncount ==
  /\ worker = "acked"
  /\ outstanding' = outstanding - 1
  /\ worker' = "idle"
  /\ UNCHANGED <<pgVars, handled, pc, startLSN, pos, inTxn, loopVars, queue,
                 unit, failed, clientLSN, stopVars, histVars>>

\* The queue is closed and empty.
WorkerExits ==
  /\ worker = "idle" /\ pc = "wait" /\ queue = <<>>
  /\ worker' = "exited"
  /\ UNCHANGED <<pgVars, handled, pc, startLSN, pos, inTxn, loopVars,
                 chanVars, unit, failed, clientLSN, stopVars, histVars>>

-----------------------------------------------------------------------------
(* The environment.                                                        *)

\* PostgreSQL applies a status message.  Releases differ on whether a lower
\* position moves confirmed_flush_lsn back.
ServerConfirms ==
  /\ wire > 0
  /\ slot' \in {wire, Later(slot, wire)}
  /\ wire' = 0
  /\ UNCHANGED <<handled, pc, startLSN, pos, inTxn, loopVars, chanVars,
                 workerVars, clientLSN, stopVars, histVars>>

\* Stop closes the shutdown channel.
Stop ==
  /\ ~shutdown
  /\ shutdown' = TRUE
  /\ UNCHANGED <<pgVars, handled, pc, startLSN, pos, inTxn, loopVars,
                 chanVars, workerVars, clientLSN, cancelled, histVars>>

Cancel ==
  /\ ~cancelled
  /\ cancelled' = TRUE
  /\ UNCHANGED <<pgVars, handled, pc, startLSN, pos, inTxn, loopVars,
                 chanVars, workerVars, clientLSN, shutdown, histVars>>

\* The process dies, or exits after a stop, and is started again.  What the
\* kernel still holds of the old connection may yet reach the server.
Restart ==
  /\ pc' = "down" /\ ret' = "top" /\ startLSN' = 0 /\ pos' = 0
  /\ inTxn' = FALSE
  /\ batch' = {} /\ pendingAck' = 0 /\ offer' = <<>>
  /\ queue' = <<>> /\ outstanding' = 0
  /\ worker' = "exited" /\ unit' = NoUnit /\ failed' = FALSE
  /\ clientLSN' = 0
  /\ shutdown' = FALSE /\ cancelled' = FALSE
  /\ undelivered' = {} /\ reported' = {}
  /\ UNCHANGED <<pgVars, handled>>

-----------------------------------------------------------------------------
Main ==
  \/ Connect \/ SetupFails \/ StartStream \/ Quit
  \/ LoopStops \/ LoopTop \/ ConfirmIdle \/ SendStatus \/ ConnectionLost
  \/ ReceiveTimeout \/ ReceiveKeepalive \/ ReceiveBoundary \/ ReceiveEvent
  \/ ReceiveWatermark \/ HandleMark \/ Enqueue \/ EnqueueFails
  \/ DrainOne \/ CloseQueue \/ EndStream

Worker ==
  \/ Take \/ HandlerSucceeds \/ HandlerFails \/ Acknowledge \/ Uncount
  \/ WorkerExits

Environment == ServerConfirms \/ Stop \/ Cancel \/ Restart

Next == Main \/ Worker \/ Environment

Spec == Init /\ [][Next]_vars

\* What the code's scheduling guarantees.  A goroutine that can move does; a
\* cancelled ctx ends the retry loop of setupReplication; data the server has
\* sent is read before the receive deadline again and again; the keepalive
\* deadline and the linger of an open batch keep passing; the server sends
\* keepalives and reads its socket.
Fairness ==
  /\ WF_vars(Connect \/ StartStream \/ Quit \/ LoopStops \/ LoopTop
            \/ ConfirmIdle \/ HandleMark \/ DrainOne \/ CloseQueue
            \/ EndStream)
  /\ WF_vars(Enqueue) /\ WF_vars(EnqueueFails)
  /\ WF_vars(cancelled /\ SetupFails)
  /\ WF_vars(ReceiveTimeout)
  /\ SF_vars(ReceiveBoundary \/ ReceiveEvent \/ ReceiveWatermark)
  /\ SF_vars(LoopTop /\ pc' = "enq") /\ SF_vars(ReceiveKeepalive)
  /\ SF_vars(SendStatus)
  /\ WF_vars(Take \/ HandlerSucceeds \/ Acknowledge \/ Uncount
            \/ WorkerExits)
  /\ WF_vars(ServerConfirms)

FairSpec == Spec /\ Fairness

\* What the environment may do to a gateway that is left running.
Fault ==
  \/ SetupFails \/ ConnectionLost \/ HandlerFails \/ Restart \/ Stop \/ Cancel

-----------------------------------------------------------------------------
\* README "Delivery semantics" 2: a position is confirmed to PostgreSQL only
\* after every sink processed every event up to it, whatever crashes, losses
\* of the connection, handler failures and teardown races came before.
ConfirmedIsHandled == Covers(handled, slot)

\* The same sentence: a position is confirmed only at a transaction boundary,
\* so PostgreSQL never resumes in the middle of a transaction.
ConfirmedAtBoundary == ~Open(slot)

\* While the stream is up, the position the next standby status will carry
\* covers only handled events: neither confirm (delivery goroutine, or main
\* with nothing outstanding) runs ahead of a unit still queued or in hand.
StatusIsSafe == pc \in StreamStates => Covers(handled, clientLSN)

\* While the stream is up the sinks are given the stream without gaps: when
\* the handler runs on a unit, every earlier event has been handled already
\* or is in the same unit.
DeliveredInOrder ==
  pc \in StreamStates /\ worker = "handling" =>
    \A e \in unit.events : Covers(handled \cup unit.events, e)

\* main confirms pendingAck on its own only when the outstanding counter is
\* zero; the counter being zero must mean that nothing is queued or in hand,
\* even after a delivery failed, or a failed unit would be confirmed.
NothingOutstanding ==
  pc \in StreamStates /\ outstanding = 0 =>
    queue = <<>> /\ offer = <<>> /\ worker = "idle"

\* While the stream is up a watermark is reported delivered only after every
\* slice of rows emitted for it was handled.
WatermarkAfterRows ==
  pc \in StreamStates => \A u \in undelivered : u[1] \notin reported

\* The reader implements the at-least-once contract.
Contract == INSTANCE AtLeastOnce WITH processed <- handled, confirmed <- slot
ImplementsContract == Contract!Spec

\* Once faults cease and nobody stopped the reader, every transaction is
\* eventually delivered and confirmed, whatever state the faults left the
\* reader in: enqueue never waits on a dead worker, no ack waits forever.
EventuallyConfirmed ==
  <>[][~Fault]_vars =>
    <>[](shutdown \/ cancelled \/ (slot = Len(WAL) /\ Events \subseteq handled))

\* Stop and a cancelled ctx end the reader, wherever it is blocked.
StopCompletes ==
  (shutdown \/ cancelled) ~> (pc = "stopped" \/ ~(shutdown \/ cancelled))

\* ports.BackfillController: "WatermarkDelivered is called after every event
\* returned by HandleWatermark was successfully processed by all sinks".
WatermarkIsWhole == \A u \in undelivered : u[1] \notin reported
=============================================================================
