-------------------------- MODULE WALReaderProofs ---------------------------
(***************************************************************************)
(* Proofs about WALReader, for every stream, batch size and queue depth:   *)
(* type correctness, the safety of what is confirmed to PostgreSQL, order  *)
(* of delivery, and the refinement of AtLeastOnce.                         *)
(*                                                                         *)
(* No property of the reader is inductive alone.  IInv says where every    *)
(* event before a position is: handled, in the worker's unit, in the queue *)
(* at or before the unit that carries the position, in the unit enqueue    *)
(* still offers, or in the open batch; and that the outstanding counter    *)
(* counts exactly the units on the way.  Once the stream is being torn     *)
(* down the drain loop may drop a unit the worker would have handled       *)
(* before a later one, so all of that is claimed only for StreamStates.    *)
(***************************************************************************)
EXTENDS WALReader, TLAPS

\* A position that may be confirmed.
Safe(n) == ~Open(n) /\ Covers(handled, n)

\* Event p was handled or is in the worker's hands; or it is in one of the
\* first i queued units; or in one of the first i units still offered.
InHand(p) == p \in handled \/ p \in unit.events
InQueue(p, i) == \E j \in 1..i : p \in queue[j].events
InOffer(p, i) == \E j \in 1..i : p \in offer[j].events

\* n is a position of unit u: its ack, or one of its events.
Names(u, n) == n = u.ack \/ n \in u.events

\* Every event up to a position of a unit travels with or before the unit,
\* and every event received so far is on its way.
UnitInOrder ==
  \A p \in Events, n \in 0..Len(WAL) : Names(unit, n) /\ p <= n => InHand(p)
QueueInOrder ==
  \A i \in 1..Len(queue) : \A p \in Events, n \in 0..Len(WAL) :
    Names(queue[i], n) /\ p <= n => InHand(p) \/ InQueue(p, i)
OfferInOrder ==
  \A i \in 1..Len(offer) : \A p \in Events, n \in 0..Len(WAL) :
    Names(offer[i], n) /\ p <= n =>
      InHand(p) \/ InQueue(p, Len(queue)) \/ InOffer(p, i)
BatchInOrder ==
  \A p \in Events : p <= pos =>
    \/ InHand(p) \/ InQueue(p, Len(queue)) \/ InOffer(p, Len(offer))
    \/ p \in batch
InOrder == UnitInOrder /\ QueueInOrder /\ OfferInOrder /\ BatchInOrder

\* Acks on the way are transaction boundaries that were received.
AcksAtBoundary ==
  /\ ~Open(unit.ack)
  /\ \A i \in 1..Len(queue) : ~Open(queue[i].ack)
  /\ \A i \in 1..Len(offer) : ~Open(offer[i].ack)
  /\ ~Open(pendingAck) /\ pendingAck <= pos
  /\ Open(pos) => inTxn

\* outstanding counts what is queued, in hand (a failed unit stays counted)
\* and being enqueued.
Counted ==
  /\ outstanding = Len(queue) + (IF worker = "idle" THEN 0 ELSE 1)
                              + (IF pc = "enq" THEN 1 ELSE 0)
  /\ pc = "enq" <=> offer # <<>>

\* Where the loop stands in the message it is working on.
InMessage ==
  /\ pc = "events" \/ (pc = "enq" /\ ret = "events") =>
        pos \in Positions /\ WAL[pos] = "more"
  /\ pc = "mark" \/ (pc = "enq" /\ ret = "mark") => pos \in Positions
  /\ \A e \in batch : e <= pos

Streaming ==
  Safe(clientLSN) /\ InOrder /\ AcksAtBoundary /\ Counted /\ InMessage

IInv ==
  /\ TypeOK
  /\ Safe(slot) /\ Safe(wire) /\ Safe(startLSN)
  /\ worker \in {"idle", "handled", "acked"} => unit.events \subseteq handled
  /\ worker = "idle" => outstanding >= Len(queue)
  /\ worker \notin {"idle", "exited"} => outstanding >= Len(queue) + 1
  /\ pc \in StreamStates => Streaming
  /\ pc \notin StreamStates => batch = {} /\ pendingAck = 0 /\ offer = <<>>

-----------------------------------------------------------------------------
(* The stream: how Open changes from one position to the next.             *)

\* Before the first message no transaction is open.
LEMMA OpenZero == ~Open(0)
  BY DEF Open

\* BEGIN opens a transaction, COMMIT closes it, and no other message moves
\* the reader in or out of one (decoder.go, decodeWALData).
LEMMA OpenStep ==
  ASSUME NEW n \in 0..(Len(WAL) - 1)
  PROVE  /\ WAL[n + 1] = "commit" => ~Open(n + 1)
         /\ WAL[n + 1] \notin {"begin", "commit"} => (Open(n + 1) <=> Open(n))
<1>0. Len(WAL) \in Nat
  BY WALAssumption
<1>1. ASSUME WAL[n + 1] = "commit"
      PROVE  ~Open(n + 1)
  <2>1. SUFFICES ASSUME NEW b \in 1..(n + 1),
                        \A c \in b..(n + 1) : WAL[c] # "commit"
                 PROVE  FALSE
    BY DEF Open
  <2>2. n + 1 \in b..(n + 1)
    BY <1>0
  <2>3. QED
    BY <1>1, <2>1, <2>2
<1>2. ASSUME WAL[n + 1] \notin {"begin", "commit"}, Open(n + 1)
      PROVE  Open(n)
  <2>1. PICK b \in 1..(n + 1) :
           WAL[b] = "begin" /\ \A c \in b..(n + 1) : WAL[c] # "commit"
    BY <1>2 DEF Open
  <2>2. b \in 1..n /\ \A c \in b..n : c \in b..(n + 1)
    BY <1>0, <1>2, <2>1
  <2>3. QED
    BY <2>1, <2>2 DEF Open
<1>3. ASSUME WAL[n + 1] \notin {"begin", "commit"}, Open(n)
      PROVE  Open(n + 1)
  <2>1. PICK b \in 1..n :
           WAL[b] = "begin" /\ \A c \in b..n : WAL[c] # "commit"
    BY <1>3 DEF Open
  <2>2. b \in 1..(n + 1) /\ \A c \in b..(n + 1) : c \in b..n \/ c = n + 1
    BY <1>0
  <2>3. QED
    BY <1>3, <2>1, <2>2 DEF Open
<1>4. QED
  BY <1>1, <1>2, <1>3

\* An event leaves the transaction state alone.
LEMMA EventKinds ==
  ASSUME NEW p \in Positions
  PROVE  /\ p \in Events <=> WAL[p] \in {"event", "more"}
         /\ WAL[p] = "more" => p + 1 \in Events
  BY WALAssumption DEF Events, Positions

\* What flush and HandleWatermark hand over are units.
LEMMA UnitTypes ==
  /\ \A b \in SUBSET Events, a \in 0..Len(WAL) : LiveUnit(b, a) \in Unit
  /\ NoUnit \in Unit
  /\ \A p \in Positions, i \in 0..MaxSlices, n \in 0..MaxSlices :
        ChunkUnit(p, i, n) \in Unit
<1>1. Len(WAL) \in Nat /\ MaxSlices \in Nat
  BY WALAssumption, ReaderAssumption
<1>2. QED
  BY <1>1 DEF Unit, LiveUnit, NoUnit, ChunkUnit, Positions

\* What the fields of a unit hold.
LEMMA UnitFields ==
  ASSUME NEW u \in Unit
  PROVE  /\ u.events \subseteq Events
         /\ u.ack \in 0..Len(WAL)
         /\ u.final => u.mark \in Positions
  BY DEF Unit

\* A set that covers a position and grows still covers it.
LEMMA CoversGrows ==
  ASSUME NEW S, NEW T, NEW n, S \subseteq T, Covers(S, n)
  PROVE  Covers(T, n)
  BY DEF Covers

-----------------------------------------------------------------------------
(* Every step preserves the type invariant: the Boolean variables and the  *)
(* others apart, for the provers that can deal with each.                  *)

Flags ==
  /\ inTxn \in BOOLEAN /\ failed \in BOOLEAN
  /\ shutdown \in BOOLEAN /\ cancelled \in BOOLEAN

Shapes ==
  /\ slot \in 0..Len(WAL)
  /\ wire \in 0..Len(WAL)
  /\ handled \in SUBSET Events
  /\ pc \in States
  /\ ret \in {"top", "acks", "events", "mark"}
  /\ startLSN \in 0..Len(WAL)
  /\ pos \in 0..Len(WAL)
  /\ batch \in SUBSET Events
  /\ pendingAck \in 0..Len(WAL)
  /\ offer \in Seq(Unit)
  /\ queue \in Seq(Unit) /\ Len(queue) <= QueueDepth
  /\ outstanding \in Nat
  /\ worker \in {"idle", "handling", "handled", "acked", "exited"}
  /\ unit \in Unit
  /\ clientLSN \in 0..Len(WAL)
  /\ undelivered \in SUBSET (Positions \X (1..MaxSlices))
  /\ reported \in SUBSET Positions

\* The initial state satisfies the inductive invariant.
LEMMA InitIInv == Init => IInv
<1> SUFFICES ASSUME Init PROVE IInv
  OBVIOUS
<1> USE DEF Init
<1>1. Len(WAL) \in Nat
  BY WALAssumption
<1>2. Flags
  BY Zenon DEF Flags
<1>3. Shapes
  BY <1>1, UnitTypes, ReaderAssumption DEF Shapes, States
<1>4. Safe(0)
  BY OpenZero, <1>1 DEF Safe, Covers, Events, Positions
<1>5. TypeOK
  BY <1>2, <1>3 DEF TypeOK, Flags, Shapes
<1>6. QED
  BY <1>4, <1>5 DEF IInv, StreamStates

\* The decoder's, the worker's and the stop flags stay Boolean.
LEMMA FlagsStep == TypeOK /\ [Next]_vars => Flags'
<1> SUFFICES ASSUME TypeOK, [Next]_vars PROVE Flags'
  OBVIOUS
<1> USE DEF TypeOK, Flags, stopVars, workerVars
<1>1. CASE ReceiveBoundary
  BY <1>1, Zenon DEF ReceiveBoundary
<1>2. CASE Restart
  BY <1>2, Zenon DEF Restart
<1>3. CASE HandlerFails
  BY <1>3, Zenon DEF HandlerFails
<1>4. CASE StartStream
  BY <1>4, Zenon DEF StartStream
<1>5. CASE ReceiveEvent
  BY <1>5, Zenon DEF ReceiveEvent
<1>6. CASE Stop \/ Cancel
  BY <1>6, Zenon DEF Stop, Cancel
<1>7. CASE Worker /\ ~HandlerFails
  BY <1>7, Zenon DEF Worker, Take, HandlerSucceeds, Acknowledge, Uncount,
                     WorkerExits
<1>8. CASE Main /\ ~ReceiveBoundary /\ ~ReceiveEvent /\ ~StartStream
  BY <1>8, Zenon
  DEF Main, Leave, Flush, Connect, SetupFails, Quit, LoopStops, LoopTop,
      ConfirmIdle, SendStatus, ConnectionLost, ReceiveTimeout,
      ReceiveKeepalive, ReceiveWatermark, HandleMark, Enqueue, EnqueueFails,
      DrainOne, CloseQueue, EndStream
<1>9. QED
  BY <1>1, <1>2, <1>3, <1>4, <1>5, <1>6, <1>7, <1>8
  DEF Next, Environment, ServerConfirms, vars

\* Positions, sets, control states and units keep their types.
LEMMA ShapesStep == IInv /\ [Next]_vars => Shapes'
<1> SUFFICES ASSUME IInv, [Next]_vars PROVE Shapes'
  OBVIOUS
<1>0. Len(WAL) \in Nat /\ QueueDepth \in Nat /\ MaxSlices \in Nat
  BY WALAssumption, ReaderAssumption
<1> USE <1>0 DEF Shapes, IInv, TypeOK, States, StreamStates, TeardownStates,
                 Later, vars, loopVars, chanVars, workerVars, pgVars,
                 stopVars, histVars
<1>1. CASE Connect
  BY <1>1, UnitTypes DEF Connect
<1>2. CASE SetupFails
  BY <1>2, UnitTypes DEF SetupFails
<1>3. CASE StartStream
  BY <1>3, UnitTypes DEF StartStream
<1>4. CASE Quit
  BY <1>4, UnitTypes DEF Quit
<1>5. CASE LoopStops
  BY <1>5, UnitTypes DEF LoopStops, Leave
<1>6. CASE LoopTop
  <2>1. LiveUnit(batch, pendingAck) \in Unit
    BY UnitTypes
  <2>2. <<LiveUnit(batch, pendingAck)>> \in Seq(Unit)
    BY <2>1
  <2>3. offer' \in Seq(Unit)
    BY ZenonT(30), <1>6, <2>2 DEF LoopTop, Flush
  <2>4. ret' \in {"top", "acks", "events", "mark"} /\ pc' \in States
    BY <1>6 DEF LoopTop, Flush
  <2>5. /\ batch' \in SUBSET Events /\ pendingAck' \in 0..Len(WAL)
        /\ outstanding' \in Nat
    BY SMTT(30), <1>6 DEF LoopTop, Flush
  <2>6. QED
    BY SMTT(30), <1>6, <2>3, <2>4, <2>5 DEF LoopTop
<1>7. CASE ConfirmIdle
  BY SMTT(30), <1>7, UnitTypes DEF ConfirmIdle
<1>8. CASE SendStatus
  BY <1>8, UnitTypes DEF SendStatus
<1>9. CASE ConnectionLost
  BY <1>9, UnitTypes DEF ConnectionLost, Leave
<1>10. CASE ReceiveTimeout
  BY <1>10, UnitTypes DEF ReceiveTimeout
<1>11. CASE ReceiveKeepalive
  BY SMTT(30), <1>11, UnitTypes DEF ReceiveKeepalive
<1>12. CASE ReceiveBoundary
  <2>1. pos' \in 0..Len(WAL) /\ pendingAck' \in 0..Len(WAL)
    BY SMTT(30), <1>12 DEF ReceiveBoundary
  <2>2. QED
    BY SMTT(30), <1>12, <2>1 DEF ReceiveBoundary
<1>13. CASE ReceiveEvent
  <2>1. pos + 1 \in Events /\ pos + 1 \in 0..Len(WAL)
    BY <1>13, EventKinds DEF ReceiveEvent, Streaming, InMessage, Events, Positions
  <2>2. LiveUnit(batch \cup {pos + 1}, pendingAck) \in Unit
    BY <2>1, UnitTypes
  <2>3. <<LiveUnit(batch \cup {pos + 1}, pendingAck)>> \in Seq(Unit)
    BY <2>2
  <2>4. offer' \in Seq(Unit)
    BY ZenonT(30), <1>13, <2>3 DEF ReceiveEvent, Flush
  <2>5. ret' \in {"top", "acks", "events", "mark"} /\ pc' \in States
    BY <1>13 DEF ReceiveEvent, Flush
  <2>6. pendingAck' \in 0..Len(WAL) /\ outstanding' \in Nat
    BY SMTT(30), <1>13 DEF ReceiveEvent, Flush
  <2>7. batch' \in SUBSET Events
    BY <1>13, <2>1 DEF ReceiveEvent, Flush
  <2>8. QED
    BY ZenonT(30), <1>13, <2>1, <2>4, <2>5, <2>6, <2>7 DEF ReceiveEvent
<1>14. CASE ReceiveWatermark
  <2>1. LiveUnit(batch, pendingAck) \in Unit
    BY UnitTypes
  <2>2. <<LiveUnit(batch, pendingAck)>> \in Seq(Unit)
    BY <2>1
  <2>3. offer' \in Seq(Unit)
    BY ZenonT(30), <1>14, <2>2 DEF ReceiveWatermark, Flush
  <2>4. ret' \in {"top", "acks", "events", "mark"} /\ pc' \in States
    BY SMTT(30), <1>14 DEF ReceiveWatermark, Flush
  <2>5. /\ batch' \in SUBSET Events /\ pendingAck' \in 0..Len(WAL)
        /\ outstanding' \in Nat
    BY SMTT(30), <1>14 DEF ReceiveWatermark, Flush
  <2>6. QED
    BY SMTT(30), <1>14, <2>3, <2>4, <2>5 DEF ReceiveWatermark
<1>15. CASE HandleMark
  <2>1. pos \in Positions
    BY <1>15 DEF HandleMark, Streaming, InMessage
  <2>2. PICK n \in 0..MaxSlices :
          /\ offer' = IF n = 0 THEN <<ChunkUnit(pos, 0, 0)>>
                               ELSE [i \in 1..n |-> ChunkUnit(pos, i, n)]
          /\ undelivered' = undelivered \cup ({pos} \X (1..n))
    BY <1>15 DEF HandleMark
  <2>3. offer' \in Seq(Unit)
    <3>1. CASE n = 0
      BY <2>1, <2>2, <3>1, UnitTypes
    <3>2. CASE n # 0
      <4>1. \A i \in 1..n : ChunkUnit(pos, i, n) \in Unit
        BY <2>1, UnitTypes
      <4>2. QED
        BY <2>2, <3>2, <4>1
    <3>3. QED
      BY <3>1, <3>2
  <2>4. undelivered' \in SUBSET (Positions \X (1..MaxSlices))
    BY <2>1, <2>2
  <2>5. QED
    BY <1>15, <2>3, <2>4 DEF HandleMark
<1>16. CASE Enqueue
  <2>1. offer \in Seq(Unit) /\ offer # <<>> /\ queue \in Seq(Unit)
    BY <1>16 DEF Enqueue, Streaming, Counted
  <2>2. Head(offer) \in Unit /\ Tail(offer) \in Seq(Unit)
    BY <2>1
  <2>3. /\ Append(queue, Head(offer)) \in Seq(Unit)
        /\ Len(Append(queue, Head(offer))) = Len(queue) + 1
    BY <2>1, <2>2
  <2>4. offer' \in Seq(Unit)
    BY <1>16, <2>2 DEF Enqueue
  <2>5. queue' \in Seq(Unit) /\ Len(queue') <= QueueDepth
    BY <1>16, <2>3 DEF Enqueue
  <2>6. outstanding' \in Nat /\ pc' \in States
    BY SMTT(30), <1>16 DEF Enqueue
  <2>7. /\ UNCHANGED <<slot, wire, handled, ret, startLSN, pos, inTxn, batch,
                       pendingAck, worker, unit, failed, clientLSN>>
        /\ UNCHANGED <<shutdown, cancelled, undelivered, reported>>
    BY <1>16 DEF Enqueue
  <2>8. QED
    BY ZenonT(40), <2>4, <2>5, <2>6, <2>7
<1>17. CASE EnqueueFails
  BY <1>17, UnitTypes DEF EnqueueFails, Leave
<1>18. CASE DrainOne
  BY SMTT(30), <1>18, UnitTypes DEF DrainOne
<1>19. CASE CloseQueue
  BY <1>19, UnitTypes DEF CloseQueue
<1>20. CASE EndStream
  BY <1>20, UnitTypes DEF EndStream
<1>21. CASE Take
  <2>1. queue \in Seq(Unit) /\ queue # <<>>
    BY <1>21 DEF Take
  <2>2. /\ Head(queue) \in Unit /\ Tail(queue) \in Seq(Unit)
        /\ Len(Tail(queue)) = Len(queue) - 1
    BY <2>1
  <2>3. queue' \in Seq(Unit) /\ Len(queue') <= QueueDepth /\ unit' \in Unit
    BY <1>21, <2>2 DEF Take
  <2>4. QED
    BY SMTT(30), <1>21, <2>3 DEF Take
<1>22. CASE HandlerSucceeds
  BY <1>22, UnitFields DEF HandlerSucceeds
<1>23. CASE HandlerFails
  BY SMTT(30), <1>23, UnitFields DEF HandlerFails
<1>24. CASE Acknowledge
  BY <1>24, UnitFields DEF Acknowledge
<1>25. CASE Uncount
  BY SMTT(30), <1>25, UnitTypes DEF Uncount
<1>26. CASE WorkerExits
  BY <1>26, UnitTypes DEF WorkerExits
<1>27. CASE ServerConfirms
  BY <1>27, UnitTypes DEF ServerConfirms
<1>28. CASE Stop
  BY SMTT(30), <1>28, UnitTypes DEF Stop
<1>29. CASE Cancel
  BY SMTT(30), <1>29, UnitTypes DEF Cancel
<1>30. CASE Restart
  BY <1>30, UnitTypes DEF Restart
<1>31. CASE UNCHANGED vars
  BY <1>31
<1>32. QED
  BY ZenonT(30), <1>1, <1>2, <1>3, <1>4, <1>5, <1>6, <1>7, <1>8, <1>9, <1>10,
     <1>11, <1>12, <1>13, <1>14, <1>15, <1>16, <1>17, <1>18, <1>19, <1>20,
     <1>21, <1>22, <1>23, <1>24, <1>25, <1>26, <1>27, <1>28, <1>29, <1>30,
     <1>31
  DEF Next, Main, Worker, Environment

\* Both together.
LEMMA TypeStep == IInv /\ [Next]_vars => TypeOK'
  BY ZenonT(30), FlagsStep, ShapesStep DEF IInv, TypeOK, Flags, Shapes

-----------------------------------------------------------------------------
(* What was handled stays handled, and what may be confirmed stays so.     *)

\* No step forgets a handled event.
LEMMA HandledStep == IInv /\ [Next]_vars => handled \subseteq handled'
  BY ZenonT(30) DEF Next, Main, Worker, Environment, vars, Leave, Flush, Connect,
     SetupFails, StartStream, Quit, LoopStops, LoopTop, ConfirmIdle,
     SendStatus, ConnectionLost, ReceiveTimeout, ReceiveKeepalive,
     ReceiveBoundary, ReceiveEvent, ReceiveWatermark, HandleMark, Enqueue,
     EnqueueFails, DrainOne, CloseQueue, EndStream, Take, HandlerSucceeds,
     HandlerFails, Acknowledge, Uncount, WorkerExits, ServerConfirms, Stop,
     Cancel, Restart

\* Positions on their way to PostgreSQL: status messages are sent only while
\* the stream is up, a start position is a confirmed one.
LEMMA SafeStep ==
  IInv /\ [Next]_vars => (Safe(slot) /\ Safe(wire) /\ Safe(startLSN))'
<1> SUFFICES ASSUME IInv, [Next]_vars
             PROVE  (Safe(slot) /\ Safe(wire) /\ Safe(startLSN))'
  OBVIOUS
<1>1. \A n : Safe(n) => ~Open(n) /\ Covers(handled', n)
  BY HandledStep DEF Safe, Covers
<1>2. Safe(0)
  BY SMTT(30), OpenZero, WALAssumption DEF Safe, Covers, Events, Positions
<1>3. slot' \in {slot, wire}
  BY ZenonT(30) DEF Next, Main, Worker, Environment, vars, pgVars, Later, Leave, Flush,
     Connect, SetupFails, StartStream, Quit, LoopStops, LoopTop, ConfirmIdle,
     SendStatus, ConnectionLost, ReceiveTimeout, ReceiveKeepalive,
     ReceiveBoundary, ReceiveEvent, ReceiveWatermark, HandleMark, Enqueue,
     EnqueueFails, DrainOne, CloseQueue, EndStream, Take, HandlerSucceeds,
     HandlerFails, Acknowledge, Uncount, WorkerExits, ServerConfirms, Stop,
     Cancel, Restart
<1>4. wire' \in {wire, 0} \/ (pc \in StreamStates /\ wire' = clientLSN)
  BY ZenonT(30) DEF Next, Main, Worker, Environment, vars, pgVars, StreamStates, Leave,
     Flush, Connect, SetupFails, StartStream, Quit, LoopStops, LoopTop,
     ConfirmIdle, SendStatus, ConnectionLost, ReceiveTimeout,
     ReceiveKeepalive, ReceiveBoundary, ReceiveEvent, ReceiveWatermark,
     HandleMark, Enqueue, EnqueueFails, DrainOne, CloseQueue, EndStream, Take,
     HandlerSucceeds, HandlerFails, Acknowledge, Uncount, WorkerExits,
     ServerConfirms, Stop, Cancel, Restart
<1>5. startLSN' \in {startLSN, slot, 0}
  BY ZenonT(30) DEF Next, Main, Worker, Environment, vars, Leave, Flush, Connect,
     SetupFails, StartStream, Quit, LoopStops, LoopTop, ConfirmIdle,
     SendStatus, ConnectionLost, ReceiveTimeout, ReceiveKeepalive,
     ReceiveBoundary, ReceiveEvent, ReceiveWatermark, HandleMark, Enqueue,
     EnqueueFails, DrainOne, CloseQueue, EndStream, Take, HandlerSucceeds,
     HandlerFails, Acknowledge, Uncount, WorkerExits, ServerConfirms, Stop,
     Cancel, Restart
<1>6. Safe(slot) /\ Safe(wire) /\ Safe(startLSN)
  BY DEF IInv
<1>7. pc \in StreamStates => Safe(clientLSN)
  BY DEF IInv, Streaming
<1>8. QED
  BY <1>1, <1>2, <1>3, <1>4, <1>5, <1>6, <1>7 DEF Safe

-----------------------------------------------------------------------------
(* The worker's unit, and the counter seen from the worker.                *)

\* The part of the invariant about the delivery goroutine.
Hands ==
  /\ worker \in {"idle", "handled", "acked"} => unit.events \subseteq handled
  /\ worker = "idle" => outstanding >= Len(queue)
  /\ worker \notin {"idle", "exited"} => outstanding >= Len(queue) + 1

\* A unit the worker has passed on is handled, and the counter never drops
\* below what is queued and in hand, teardown included.
LEMMA HandsStep == IInv /\ [Next]_vars => Hands'
<1> SUFFICES ASSUME IInv, [Next]_vars PROVE Hands'
  OBVIOUS
<1>0. /\ TypeOK /\ Hands /\ Len(queue) \in Nat
  BY DEF IInv, Hands, TypeOK
<1> USE <1>0 DEF Hands, loopVars, chanVars, workerVars
<1>1. CASE StartStream
  BY <1>1 DEF StartStream, NoUnit, LiveUnit
<1>2. CASE Restart
  BY SMTT(30), <1>2 DEF Restart, NoUnit, LiveUnit
<1>3. CASE LoopTop \/ ReceiveWatermark \/ ReceiveEvent \/ HandleMark
  BY SMTT(30), <1>3 DEF LoopTop, ReceiveWatermark, ReceiveEvent, HandleMark, Flush,
              TypeOK
<1>4. CASE Enqueue
  <2>1. queue' = Append(queue, Head(offer)) /\ queue \in Seq(Unit)
    BY <1>4 DEF Enqueue, TypeOK
  <2>2. Len(queue') = Len(queue) + 1
    BY <2>1
  <2>3. Counted /\ outstanding' \in {outstanding, outstanding + 1}
    BY <1>4 DEF Enqueue, IInv, Streaming, StreamStates
  <2>4. UNCHANGED workerVars /\ UNCHANGED handled /\ pc = "enq"
    BY <1>4 DEF Enqueue
  <2>5. QED
    BY <2>2, <2>3, <2>4 DEF Counted, TypeOK
<1>5. CASE DrainOne
  <2>1. queue' = Tail(queue) /\ queue \in Seq(Unit) /\ queue # <<>>
    BY <1>5 DEF DrainOne, TypeOK
  <2>2. Len(queue') = Len(queue) - 1
    BY <2>1
  <2>3. QED
    BY <1>5, <2>2 DEF DrainOne, TypeOK
<1>6. CASE Take
  <2>1. queue' = Tail(queue) /\ queue \in Seq(Unit) /\ queue # <<>>
    BY <1>6 DEF Take, TypeOK
  <2>2. Len(queue') = Len(queue) - 1
    BY <2>1
  <2>3. worker' = "handled" => unit'.events = {}
    BY <1>6 DEF Take, HasEvents
  <2>4. QED
    BY <1>6, <2>2, <2>3 DEF Take, TypeOK
<1>7. CASE HandlerSucceeds \/ HandlerFails \/ Acknowledge
  BY <1>7 DEF HandlerSucceeds, HandlerFails, Acknowledge
<1>8. CASE Uncount \/ WorkerExits
  BY SMTT(30), <1>8 DEF Uncount, WorkerExits, TypeOK
<1>9. CASE \/ UNCHANGED vars \/ Connect \/ SetupFails \/ Quit \/ LoopStops
           \/ ConfirmIdle \/ SendStatus \/ ConnectionLost \/ ReceiveTimeout
           \/ ReceiveKeepalive \/ ReceiveBoundary \/ EnqueueFails
           \/ CloseQueue \/ EndStream \/ ServerConfirms \/ Stop \/ Cancel
  BY ZenonT(30), <1>9 DEF vars, Connect, SetupFails, Quit, LoopStops, Leave, ConfirmIdle,
     SendStatus, ConnectionLost, ReceiveTimeout, ReceiveKeepalive,
     ReceiveBoundary, EnqueueFails, CloseQueue, EndStream, ServerConfirms,
     Stop, Cancel
<1>10. QED
  BY <1>1, <1>2, <1>3, <1>4, <1>5, <1>6, <1>7, <1>8, <1>9
  DEF Next, Main, Worker, Environment

\* Outside the stream the loop's locals are gone.
Locals == pc \notin StreamStates => batch = {} /\ pendingAck = 0 /\ offer = <<>>

\* Only Leave and Restart end a stream, and both drop the locals.
LEMMA LocalsStep == IInv /\ [Next]_vars => Locals'
<1> SUFFICES ASSUME IInv, [Next]_vars PROVE Locals'
  OBVIOUS
<1>0. Locals /\ ret \in {"top", "acks", "events", "mark"}
  BY DEF IInv, Locals, TypeOK
<1> USE <1>0 DEF Locals, loopVars, StreamStates
<1>1. CASE LoopStops \/ ConnectionLost \/ EnqueueFails \/ Restart
  BY <1>1 DEF LoopStops, ConnectionLost, EnqueueFails, Restart, Leave
<1>2. CASE \/ StartStream \/ LoopTop \/ ConfirmIdle \/ SendStatus
           \/ ReceiveTimeout \/ ReceiveKeepalive \/ ReceiveBoundary
           \/ ReceiveEvent \/ ReceiveWatermark \/ HandleMark \/ Enqueue
  BY ZenonT(30), <1>2 DEF StartStream, LoopTop, ConfirmIdle, SendStatus, ReceiveTimeout,
     ReceiveKeepalive, ReceiveBoundary, ReceiveEvent, ReceiveWatermark,
     HandleMark, Enqueue, Flush
<1>3. CASE \/ UNCHANGED vars \/ Connect \/ SetupFails \/ Quit \/ DrainOne
           \/ CloseQueue \/ EndStream \/ Worker \/ ServerConfirms \/ Stop
           \/ Cancel
  BY ZenonT(30), <1>3 DEF vars, Connect, SetupFails, Quit, DrainOne, CloseQueue,
     EndStream, Worker, Take, HandlerSucceeds, HandlerFails, Acknowledge,
     Uncount, WorkerExits, ServerConfirms, Stop, Cancel
<1>4. QED
  BY <1>1, <1>2, <1>3 DEF Next, Main, Environment

-----------------------------------------------------------------------------
(* The main goroutine keeps the invariant of a running stream: one lemma   *)
(* for each kind of step.                                                  *)

\* Steps that move none of what the invariant speaks about.
LEMMA QuietStep ==
  ASSUME TypeOK, pc \in StreamStates, Streaming,
         UNCHANGED <<handled, unit, queue, offer, batch, pos, pendingAck,
                     inTxn, outstanding, worker, clientLSN, ret>>,
         pc' = pc \/ (pc \in {"recv", "reply"} /\ pc' = "top")
  PROVE  Streaming'
<1>1. Safe(clientLSN)'
  BY SMTT(30) DEF Streaming, Safe
<1>2. InOrder'
  BY ZenonT(30) DEF Streaming, InOrder, UnitInOrder, QueueInOrder, OfferInOrder,
         BatchInOrder, Names, InHand, InQueue, InOffer
<1>3. AcksAtBoundary'
  BY DEF Streaming, AcksAtBoundary
<1>4. Counted'
  BY ZenonT(30) DEF Streaming, Counted
<1>5. InMessage'
  BY DEF Streaming, InMessage
<1>6. QED
  BY <1>1, <1>2, <1>3, <1>4, <1>5 DEF Streaming

\* More is handled, everything else stays where it is.
LEMMA OrderGrows ==
  ASSUME InOrder, handled \subseteq handled',
         UNCHANGED <<unit, queue, offer, batch, pos>>
  PROVE  InOrder'
  BY DEF InOrder, UnitInOrder, QueueInOrder, OfferInOrder, BatchInOrder,
         Names, InHand, InQueue, InOffer

\* A new stream starts at a confirmed position with nothing on the way.
LEMMA StartStreamStep == IInv /\ StartStream => Streaming'
<1> SUFFICES ASSUME IInv, StartStream PROVE Streaming'
  OBVIOUS
<1>0. /\ Len(WAL) \in Nat /\ offer = <<>> /\ batch = {} /\ pendingAck = 0
      /\ slot \in 0..Len(WAL) /\ startLSN \in 0..Len(WAL)
      /\ Safe(slot) /\ Safe(startLSN)
  BY WALAssumption DEF IInv, StartStream, StreamStates, TypeOK
<1>1. /\ offer' = <<>> /\ batch' = {} /\ pendingAck' = 0 /\ queue' = <<>>
      /\ unit' = NoUnit /\ handled' = handled /\ clientLSN' = startLSN
      /\ outstanding' = 0 /\ worker' = "idle" /\ pc' = "top"
      /\ pos' \in {slot, startLSN} /\ pos' \in 0..Len(WAL)
  BY <1>0 DEF StartStream, loopVars, Later
<1>2. Safe(clientLSN)'
  BY <1>0, <1>1 DEF Safe
<1>3. /\ ~Open(pos') /\ \A p \in Events : p <= pos' => p \in handled'
  BY <1>0, <1>1 DEF Safe, Covers
<1>4. InOrder'
  BY <1>0, <1>1, <1>3
  DEF InOrder, UnitInOrder, QueueInOrder, OfferInOrder, BatchInOrder, Names,
      InHand, NoUnit, LiveUnit, Events, Positions
<1>5. AcksAtBoundary'
  BY <1>0, <1>1, <1>3, OpenZero DEF AcksAtBoundary, NoUnit, LiveUnit
<1>6. Counted'
  BY <1>1 DEF Counted
<1>7. InMessage'
  BY <1>1 DEF InMessage
<1>8. QED
  BY <1>2, <1>4, <1>5, <1>6, <1>7 DEF Streaming

\* The types of the main loop's counters.
LEMMA LoopTypes ==
  ASSUME TypeOK
  PROVE  /\ Len(queue) \in Nat /\ pos \in Nat
         /\ pendingAck \in 0..Len(WAL)
<1>1. queue \in Seq(Unit) /\ pos \in 0..Len(WAL) /\ pendingAck \in 0..Len(WAL)
  BY DEF TypeOK
<1>2. QED
  BY <1>1

\* flush moves the open batch, the pending ack on it, to the end of the line.
\* r is the message's position reached, b the batch: flush runs with nothing
\* else offered.
LEMMA FlushStep ==
  ASSUME TypeOK, TypeOK', pc \in StreamStates, pc # "enq", Streaming,
         NEW b \in SUBSET Events, NEW r, Flush(b, r),
         UNCHANGED <<handled, unit, queue, worker, clientLSN, inTxn>>,
         \A e \in b : e <= pos',
         \A p \in Events :
           p <= pos' => InHand(p) \/ InQueue(p, Len(queue)) \/ p \in b,
         pendingAck <= pos', Open(pos') => inTxn,
         r = "events" => pos' \in Positions /\ WAL[pos'] = "more",
         r = "mark" => pos' \in Positions
  PROVE  Streaming'
<1>0. /\ Len(WAL) \in Nat /\ offer = <<>> /\ Len(queue) \in Nat
      /\ queue' = queue /\ pos' \in 0..Len(WAL)
      /\ pendingAck \in 0..Len(WAL)
  <2>1. offer = <<>>
    BY DEF Streaming, Counted
  <2>2. Len(WAL) \in Nat
    BY WALAssumption
  <2>3. Len(queue) \in Nat /\ pendingAck \in 0..Len(WAL)
    BY LoopTypes
  <2>4. pos' \in 0..Len(WAL)
    BY DEF TypeOK
  <2>5. QED
    BY <2>1, <2>2, <2>3, <2>4
<1>1. /\ offer' = <<LiveUnit(b, pendingAck)>> /\ batch' = {}
      /\ pendingAck' = 0 /\ outstanding' = outstanding + 1 /\ ret' = r
      /\ pc' = "enq"
  BY DEF Flush
<1>2. /\ Len(offer') = 1 /\ offer'[1].events = b
      /\ offer'[1].ack = pendingAck /\ offer' # <<>>
  BY <1>1 DEF LiveUnit
<1>3. Safe(clientLSN)'
  BY DEF Streaming, Safe
<1>4. UnitInOrder' /\ QueueInOrder'
  BY DEF Streaming, InOrder, UnitInOrder, QueueInOrder, Names, InHand, InQueue
<1>5. \A p \in Events :
        p <= pos' => InHand(p)' \/ InQueue(p, Len(queue))' \/ InOffer(p, 1)'
  BY <1>0, <1>2 DEF InHand, InQueue, InOffer
<1>6. \A n \in 0..Len(WAL) : Names(offer[1], n)' => n <= pos'
  BY <1>0, <1>2 DEF Names
<1>7. OfferInOrder'
  <2>1. SUFFICES ASSUME NEW p \in Events, NEW n \in 0..Len(WAL),
                        Names(offer[1], n)', p <= n
                 PROVE  InHand(p)' \/ InQueue(p, Len(queue))' \/ InOffer(p, 1)'
    BY <1>2 DEF OfferInOrder
  <2>2. p \in Int /\ n \in Int /\ pos' \in Int /\ n <= pos'
    BY <1>0, <1>6, <2>1 DEF Events, Positions
  <2>3. QED
    BY <1>5, <2>1, <2>2
<1>8. BatchInOrder'
  BY <1>2, <1>5 DEF BatchInOrder
<1>9. AcksAtBoundary'
  BY SMTT(30), <1>0, <1>1, <1>2, OpenZero DEF Streaming, AcksAtBoundary
<1>10. Counted'
  BY <1>0, <1>1, <1>2 DEF Streaming, Counted, TypeOK
<1>11. InMessage'
  BY <1>1 DEF InMessage
<1>12. QED
  BY SMTT(30), <1>3, <1>4, <1>7, <1>8, <1>9, <1>10, <1>11 DEF Streaming, InOrder

\* Past the select at the top of the loop, with or without a flush.
LEMMA LoopTopStep == IInv /\ TypeOK' /\ LoopTop => Streaming'
<1> SUFFICES ASSUME IInv, TypeOK', LoopTop PROVE Streaming'
  OBVIOUS
<1>0. /\ TypeOK /\ Streaming /\ pc \in StreamStates /\ pc = "top"
      /\ offer = <<>>
      /\ UNCHANGED <<handled, unit, queue, worker, clientLSN, inTxn, pos>>
  BY DEF IInv, LoopTop, StreamStates, Streaming, Counted, workerVars
<1>1. CASE Flush(batch, "acks")
  <2>1. \A p \in Events : p <= pos =>
          InHand(p) \/ InQueue(p, Len(queue)) \/ p \in batch
    BY <1>0 DEF Streaming, InOrder, BatchInOrder, InOffer
  <2>2. /\ \A e \in batch : e <= pos
        /\ pendingAck <= pos /\ (Open(pos) => inTxn)
    BY <1>0 DEF Streaming, InMessage, AcksAtBoundary
  <2>3. batch \in SUBSET Events /\ pc # "enq"
    BY <1>0 DEF TypeOK
  <2>4. QED
    BY <1>0, <1>1, <2>1, <2>2, <2>3, FlushStep
<1>2. CASE pc' = "acks" /\ UNCHANGED <<loopVars, outstanding>>
  <2>1. /\ UNCHANGED <<offer, batch, pendingAck, outstanding, ret>>
        /\ pc' = "acks"
    BY <1>2 DEF loopVars
  <2>2. Safe(clientLSN)'
    BY <1>0 DEF Streaming, Safe
  <2>3. InOrder'
    BY <1>0, <2>1, OrderGrows DEF Streaming
  <2>4. AcksAtBoundary'
    BY <1>0, <2>1 DEF Streaming, AcksAtBoundary
  <2>5. Counted' /\ InMessage'
    BY <1>0, <2>1 DEF Streaming, Counted, InMessage
  <2>6. QED
    BY <2>2, <2>3, <2>4, <2>5 DEF Streaming
<1>3. QED
  BY <1>1, <1>2 DEF LoopTop

\* An idle confirm: nothing outstanding means that every event received was
\* handled, so pendingAck, which was received, may be confirmed.
LEMMA ConfirmIdleStep == IInv /\ ConfirmIdle => Streaming'
<1> SUFFICES ASSUME IInv, ConfirmIdle PROVE Streaming'
  OBVIOUS
<1>0. /\ TypeOK /\ Streaming /\ pc = "acks" /\ pc' = "recv" /\ offer = <<>>
      /\ UNCHANGED <<handled, unit, queue, offer, batch, pos, worker, inTxn,
                     outstanding, ret>>
  BY DEF IInv, ConfirmIdle, StreamStates, Streaming, Counted, chanVars,
         workerVars
<1>1. ASSUME pendingAck > 0, batch = {}, outstanding = 0
      PROVE  Safe(pendingAck)
  <2>1. worker = "idle" /\ Len(queue) = 0
    BY <1>0, <1>1 DEF Streaming, Counted, TypeOK
  <2>2. unit.events \subseteq handled
    BY <2>1 DEF IInv
  <2>3. \A p \in Events : p <= pos => p \in handled
    BY <1>0, <1>1, <2>1, <2>2
    DEF Streaming, InOrder, BatchInOrder, InHand, InQueue, InOffer
  <2>4. pendingAck <= pos /\ pendingAck \in Int /\ pos \in Int
    BY <1>0 DEF Streaming, AcksAtBoundary, TypeOK
  <2>5. \A p \in Events : p \in Int
    BY DEF Events, Positions
  <2>6. QED
    BY <1>0, <2>3, <2>4, <2>5
    DEF Safe, Covers, Streaming, AcksAtBoundary
<1>2. Safe(clientLSN)'
  <2>1. \/ clientLSN' = clientLSN
        \/ /\ pendingAck > 0 /\ batch = {} /\ outstanding = 0
           /\ clientLSN' \in {clientLSN, pendingAck}
    BY DEF ConfirmIdle, Later
  <2>2. Safe(clientLSN) /\ handled' = handled
    BY <1>0 DEF Streaming
  <2>3. QED
    BY <1>1, <2>1, <2>2 DEF Safe
<1>3. InOrder'
  BY <1>0, OrderGrows DEF Streaming
<1>4. AcksAtBoundary'
  <2>1. pendingAck' \in {pendingAck, 0}
    BY DEF ConfirmIdle
  <2>2. pos \in Nat
    BY <1>0 DEF TypeOK
  <2>3. QED
    BY <1>0, <2>1, <2>2, OpenZero DEF Streaming, AcksAtBoundary
<1>5. Counted' /\ InMessage'
  BY <1>0 DEF Streaming, Counted, InMessage
<1>6. QED
  BY <1>2, <1>3, <1>4, <1>5 DEF Streaming

\* A keepalive is acknowledged only outside a transaction, where the server's
\* WAL end is what has been received.
LEMMA KeepaliveStep == IInv /\ ReceiveKeepalive => Streaming'
<1> SUFFICES ASSUME IInv, ReceiveKeepalive PROVE Streaming'
  OBVIOUS
<1>0. /\ TypeOK /\ Streaming /\ pc = "recv" /\ pc' \in {"top", "reply"}
      /\ UNCHANGED <<handled, unit, queue, offer, batch, pos, worker, inTxn,
                     outstanding, ret, clientLSN>>
  BY DEF IInv, ReceiveKeepalive, StreamStates, chanVars, workerVars
<1>1. pendingAck' = pendingAck \/ (~Open(pos) /\ pendingAck' = pos)
  <2>1. PICK walEnd \in IF Open(pos) THEN pos..Len(WAL) ELSE {pos} :
          pendingAck' = IF inTxn THEN pendingAck ELSE Later(pendingAck, walEnd)
    BY DEF ReceiveKeepalive
  <2>2. CASE inTxn
    BY <2>1, <2>2
  <2>3. CASE ~inTxn
    BY <1>0, <2>1, <2>3 DEF Streaming, AcksAtBoundary, Later
  <2>4. QED
    BY <2>2, <2>3
<1>2. Safe(clientLSN)'
  BY <1>0 DEF Streaming, Safe
<1>3. InOrder'
  BY <1>0, OrderGrows DEF Streaming
<1>4. AcksAtBoundary'
  BY <1>0, <1>1 DEF Streaming, AcksAtBoundary, TypeOK
<1>5. Counted' /\ InMessage'
  BY ZenonT(30), <1>0 DEF Streaming, Counted, InMessage
<1>6. QED
  BY <1>2, <1>3, <1>4, <1>5 DEF Streaming

\* A boundary message: COMMIT leaves the transaction at a position that may
\* be acknowledged once all before it is handled.
LEMMA BoundaryStep == IInv /\ ReceiveBoundary => Streaming'
<1> SUFFICES ASSUME IInv, ReceiveBoundary PROVE Streaming'
  OBVIOUS
<1>0. /\ TypeOK /\ Streaming /\ pc = "recv" /\ pc' = "top"
      /\ UNCHANGED <<handled, unit, queue, offer, batch, worker,
                     outstanding, ret, clientLSN>>
      /\ pos \in 0..(Len(WAL) - 1) /\ pos' = pos + 1 /\ Len(WAL) \in Nat
      /\ WAL[pos + 1] \in {"begin", "commit", "other"}
  BY SMTT(30), WALAssumption
  DEF IInv, ReceiveBoundary, StreamStates, chanVars, workerVars, TypeOK
<1>1. pos + 1 \notin Events
  BY <1>0 DEF Events
<1>2. Safe(clientLSN)'
  BY <1>0 DEF Streaming, Safe
<1>3. InOrder'
  <2>1. UnitInOrder' /\ QueueInOrder' /\ OfferInOrder'
    BY <1>0 DEF Streaming, InOrder, UnitInOrder, QueueInOrder, OfferInOrder,
                Names, InHand, InQueue, InOffer
  <2>2. \A p \in Events : p <= pos + 1 => p <= pos
    BY <1>0, <1>1 DEF Events, Positions
  <2>3. BatchInOrder'
    BY <1>0, <2>2
    DEF Streaming, InOrder, BatchInOrder, InHand, InQueue, InOffer
  <2>4. QED
    BY <2>1, <2>3 DEF InOrder
<1>4. AcksAtBoundary'
  <2>1. CASE WAL[pos + 1] = "commit"
    <3>1. ~Open(pos') /\ pendingAck' = pos'
      BY SMTT(30), <1>0, <2>1, OpenStep
      DEF ReceiveBoundary, Later, Streaming, AcksAtBoundary, TypeOK
    <3>2. QED
      BY <1>0, <3>1 DEF Streaming, AcksAtBoundary
  <2>2. CASE WAL[pos + 1] = "begin"
    <3>1. inTxn' /\ pendingAck' = pendingAck
      BY <2>2, Zenon DEF ReceiveBoundary
    <3>2. QED
      BY <1>0, <3>1 DEF Streaming, AcksAtBoundary, TypeOK
  <2>3. CASE WAL[pos + 1] = "other"
    <3>1. inTxn' = inTxn /\ pendingAck' = pendingAck
      BY <2>3 DEF ReceiveBoundary
    <3>2. Open(pos') <=> Open(pos)
      BY <1>0, <2>3, OpenStep
    <3>3. QED
      BY <1>0, <3>1, <3>2 DEF Streaming, AcksAtBoundary, TypeOK
  <2>4. QED
    BY SMTT(30), <1>0, <2>1, <2>2, <2>3
<1>5. Counted'
  BY <1>0 DEF Streaming, Counted
<1>6. InMessage'
  BY <1>0 DEF Streaming, InMessage, TypeOK, Events, Positions
<1>7. QED
  BY <1>2, <1>3, <1>4, <1>5, <1>6 DEF Streaming

\* An event joins the batch, and a full batch is flushed.
LEMMA EventStep == IInv /\ TypeOK' /\ ReceiveEvent => Streaming'
<1> SUFFICES ASSUME IInv, TypeOK', ReceiveEvent PROVE Streaming'
  OBVIOUS
<1> DEFINE b == batch \cup {pos + 1}
           r == IF WAL[pos + 1] = "more" THEN "events" ELSE "top"
<1>a. /\ pc \in {"recv", "events"} /\ pos' = pos + 1
      /\ UNCHANGED <<handled, unit, queue, worker, clientLSN, inTxn>>
  BY DEF ReceiveEvent, workerVars
<1>b. TypeOK /\ Streaming /\ pc \in StreamStates /\ pc # "enq"
  BY <1>a DEF IInv, StreamStates
<1>c. offer = <<>>
  BY <1>b DEF Streaming, Counted
<1>d. Len(WAL) \in Nat /\ pos \in Nat
  BY <1>b, WALAssumption DEF TypeOK
<1>0. /\ TypeOK /\ Streaming /\ pc \in StreamStates /\ pc # "enq"
      /\ offer = <<>> /\ Len(WAL) \in Nat /\ pos \in Nat
      /\ UNCHANGED <<handled, unit, queue, worker, clientLSN, inTxn>>
      /\ pos' = pos + 1
  BY SMTT(30), <1>a, <1>b, <1>c, <1>d
<1>1. pos + 1 \in Events /\ pos + 1 \in Positions /\ pos \in 0..(Len(WAL) - 1)
  BY <1>0, EventKinds
  DEF ReceiveEvent, Streaming, InMessage, Events, Positions
<1>2. WAL[pos + 1] \in {"event", "more"}
  BY SMTT(30), <1>1, EventKinds
<1>3. (Open(pos') => inTxn) /\ pendingAck <= pos'
  <2>1. Open(pos') <=> Open(pos)
    BY <1>0, <1>1, <1>2, OpenStep
  <2>2. (Open(pos) => inTxn) /\ pendingAck <= pos
    BY <1>0 DEF Streaming, AcksAtBoundary
  <2>3. pendingAck \in Int
    BY <1>0 DEF TypeOK
  <2>4. pendingAck <= pos'
    BY <1>0, <2>2, <2>3
  <2>5. QED
    BY <2>1, <2>2, <2>4
<1>4. b \in SUBSET Events /\ \A e \in b : e <= pos'
  <2>1. batch \in SUBSET Events /\ \A e \in batch : e <= pos
    BY <1>0 DEF Streaming, InMessage, TypeOK
  <2>2. \A e \in Events : e \in Int
    BY DEF Events, Positions
  <2>3. QED
    BY <1>0, <1>1, <2>1, <2>2
<1>5. \A p \in Events : p <= pos' =>
        InHand(p) \/ InQueue(p, Len(queue)) \/ p \in b
  <2>1. \A p \in Events : p <= pos + 1 => p <= pos \/ p = pos + 1
    BY <1>0 DEF Events, Positions
  <2>2. QED
    BY <1>0, <2>1 DEF Streaming, InOrder, BatchInOrder, InOffer
<1>6. r = "events" => pos' \in Positions /\ WAL[pos'] = "more"
  BY <1>0, <1>1
<1>7. CASE Flush(b, r)
  <2>1. r # "mark"
    OBVIOUS
  <2>2. QED
    BY <1>0, <1>3, <1>4, <1>5, <1>6, <1>7, <2>1, FlushStep
<1>8. CASE /\ batch' = b /\ pc' = r
           /\ UNCHANGED <<pendingAck, offer, ret, outstanding>>
  <2>1. Safe(clientLSN)'
    BY Zenon, <1>0 DEF Streaming, Safe
  <2>2. UnitInOrder' /\ QueueInOrder' /\ OfferInOrder'
    BY ZenonT(40), <1>0, <1>8 DEF Streaming, InOrder, UnitInOrder, QueueInOrder,
                      OfferInOrder, Names, InHand, InQueue, InOffer
  <2>3. BatchInOrder'
    BY ZenonT(40), <1>0, <1>5, <1>8 DEF BatchInOrder, InHand, InQueue
  <2>4. AcksAtBoundary'
    BY Zenon, <1>0, <1>3, <1>8 DEF Streaming, AcksAtBoundary
  <2>5. Counted'
    BY <1>0, <1>8 DEF Streaming, Counted
  <2>6. InMessage'
    BY <1>0, <1>4, <1>6, <1>8 DEF InMessage
  <2>7. QED
    BY <2>1, <2>2, <2>3, <2>4, <2>5, <2>6 DEF Streaming, InOrder
<1>9. QED
  BY <1>7, <1>8 DEF ReceiveEvent

\* A watermark message flushes the open batch before it.
LEMMA WatermarkStep == IInv /\ TypeOK' /\ ReceiveWatermark => Streaming'
<1> SUFFICES ASSUME IInv, TypeOK', ReceiveWatermark PROVE Streaming'
  OBVIOUS
<1>0. /\ TypeOK /\ Streaming /\ pc \in StreamStates /\ pc # "enq"
      /\ offer = <<>> /\ Len(WAL) \in Nat /\ pos \in 0..(Len(WAL) - 1)
      /\ UNCHANGED <<handled, unit, queue, worker, clientLSN, inTxn>>
      /\ pos' = pos + 1 /\ WAL[pos + 1] = "watermark"
  <2>1. /\ pc = "recv" /\ pos < Len(WAL) /\ WAL[pos + 1] = "watermark"
        /\ pos' = pos + 1
        /\ UNCHANGED <<handled, unit, queue, worker, clientLSN, inTxn>>
    BY DEF ReceiveWatermark, workerVars
  <2>2. TypeOK /\ Streaming /\ pc \in StreamStates /\ pc # "enq"
    BY <2>1 DEF IInv, StreamStates
  <2>3. offer = <<>>
    BY <2>2 DEF Streaming, Counted
  <2>4. Len(WAL) \in Nat /\ pos \in Nat
    BY <2>2, WALAssumption DEF TypeOK
  <2>5. pos \in 0..(Len(WAL) - 1)
    BY <2>1, <2>4
  <2>6. QED
    BY <2>1, <2>2, <2>3, <2>4, <2>5
<1>1. pos + 1 \notin Events /\ pos' \in Positions
  BY <1>0 DEF Events, Positions
<1>2. (Open(pos') => inTxn) /\ pendingAck <= pos'
  <2>1. Open(pos') <=> Open(pos)
    BY <1>0, OpenStep
  <2>2. (Open(pos) => inTxn) /\ pendingAck <= pos
    BY <1>0 DEF Streaming, AcksAtBoundary
  <2>3. pendingAck \in Int /\ pos \in Int
    BY <1>0 DEF TypeOK
  <2>4. pendingAck <= pos'
    BY <1>0, <2>2, <2>3
  <2>5. QED
    BY <2>1, <2>2, <2>4
<1>3. \A e \in batch : e <= pos'
  BY <1>0 DEF Streaming, InMessage, TypeOK, Events, Positions
<1>4. \A p \in Events : p <= pos' =>
        InHand(p) \/ InQueue(p, Len(queue)) \/ p \in batch
  <2>1. \A p \in Events : p <= pos + 1 => p <= pos
    BY <1>0, <1>1 DEF Events, Positions
  <2>2. QED
    BY <1>0, <2>1 DEF Streaming, InOrder, BatchInOrder, InOffer
<1>5. CASE Flush(batch, "mark")
  <2>1. batch \in SUBSET Events
    BY <1>0 DEF TypeOK
  <2>2. QED
    BY <1>0, <1>1, <1>2, <1>3, <1>4, <1>5, <2>1, FlushStep
<1>6. CASE pc' = "mark" /\ UNCHANGED <<loopVars, outstanding>>
  <2>0. UNCHANGED <<offer, batch, pendingAck, ret, outstanding>> /\ pc' = "mark"
    BY <1>6 DEF loopVars
  <2>1. Safe(clientLSN)'
    BY SMTT(30), <1>0 DEF Streaming, Safe
  <2>2. UnitInOrder' /\ QueueInOrder' /\ OfferInOrder'
    BY SMTT(30), <1>0, <2>0 DEF Streaming, InOrder, UnitInOrder, QueueInOrder,
                      OfferInOrder, Names, InHand, InQueue, InOffer
  <2>3. BatchInOrder'
    BY <1>0, <1>4, <2>0 DEF BatchInOrder, InHand, InQueue
  <2>4. AcksAtBoundary'
    BY <1>0, <1>2, <2>0 DEF Streaming, AcksAtBoundary
  <2>5. Counted'
    BY <1>0, <2>0 DEF Streaming, Counted
  <2>6. InMessage'
    BY <1>0, <1>1, <1>3, <2>0 DEF InMessage
  <2>7. QED
    BY <2>1, <2>2, <2>3, <2>4, <2>5, <2>6 DEF Streaming, InOrder
<1>7. QED
  BY SMTT(30), <1>5, <1>6 DEF ReceiveWatermark

\* A slice of a chunk acknowledges no position and carries no stream event.
LEMMA ChunkUnitFields ==
  ASSUME NEW p, NEW i, NEW n
  PROVE  ChunkUnit(p, i, n).ack = 0 /\ ChunkUnit(p, i, n).events = {}
BY DEF ChunkUnit

\* Slices of a chunk join the line without acks and without stream events.
LEMMA HandleMarkStep == IInv /\ TypeOK' /\ HandleMark => Streaming'
<1> SUFFICES ASSUME IInv, TypeOK', HandleMark PROVE Streaming'
  OBVIOUS
<1>0. /\ TypeOK /\ Streaming /\ pc = "mark" /\ offer = <<>> /\ pc' = "enq"
      /\ ret' = "top" /\ outstanding' = outstanding + 1
      /\ UNCHANGED <<handled, unit, queue, batch, pos, pendingAck, worker,
                     clientLSN, inTxn>>
  BY DEF IInv, HandleMark, StreamStates, Streaming, Counted, workerVars
<1>1. /\ offer' # <<>> /\ offer' \in Seq(Unit)
      /\ \A i \in 1..Len(offer') : offer'[i].ack = 0 /\ offer'[i].events = {}
  <2>1. PICK n \in 0..MaxSlices :
          offer' = IF n = 0 THEN <<ChunkUnit(pos, 0, 0)>>
                            ELSE [i \in 1..n |-> ChunkUnit(pos, i, n)]
    BY DEF HandleMark
  <2>2. n \in Nat
    BY SMTT(30), ReaderAssumption
  <2>3. CASE n = 0
    <3>1. offer' = <<ChunkUnit(pos, 0, 0)>>
      BY Zenon, <2>1, <2>3
    <3>2. offer' # <<>> /\ Len(offer') = 1 /\ offer'[1] = ChunkUnit(pos, 0, 0)
      BY <3>1
    <3>3. \A i \in 1..Len(offer') : i = 1
      BY <3>2
    <3>4. \A i \in 1..Len(offer') : offer'[i].ack = 0 /\ offer'[i].events = {}
      BY <3>2, <3>3, ChunkUnitFields
    <3>5. offer' \in Seq(Unit)
      BY DEF TypeOK
    <3>6. QED
      BY Zenon, <3>2, <3>4, <3>5
  <2>4. CASE n # 0
    <3>1. offer' = [i \in 1..n |-> ChunkUnit(pos, i, n)] /\ Len(offer') = n
      BY <2>1, <2>2, <2>4
    <3>2. offer' # <<>>
      BY <2>2, <2>4, <3>1
    <3>3. \A i \in 1..n : offer'[i] = ChunkUnit(pos, i, n)
      BY Zenon, <3>1
    <3>4. \A i \in 1..n : offer'[i].ack = 0 /\ offer'[i].events = {}
      BY <3>3, ChunkUnitFields
    <3>5. offer' \in Seq(Unit)
      BY DEF TypeOK
    <3>6. QED
      BY Zenon, <3>1, <3>2, <3>4, <3>5
  <2>5. QED
    BY <2>3, <2>4
<1>2. Safe(clientLSN)'
  BY <1>0 DEF Streaming, Safe
<1>3. UnitInOrder' /\ QueueInOrder'
  BY <1>0 DEF Streaming, InOrder, UnitInOrder, QueueInOrder, Names, InHand,
              InQueue
<1>4. OfferInOrder'
  <2>1. \A p \in Events : p > 0 /\ p \in Int
    BY WALAssumption DEF Events, Positions
  <2>2. QED
    BY <1>1, <2>1 DEF OfferInOrder, Names
<1>5. BatchInOrder'
  BY SMTT(30), <1>0 DEF Streaming, InOrder, BatchInOrder, InHand, InQueue, InOffer
<1>6. AcksAtBoundary'
  BY <1>0, <1>1, OpenZero DEF Streaming, AcksAtBoundary
<1>7. Counted'
  BY <1>0, <1>1 DEF Streaming, Counted, TypeOK
<1>8. InMessage'
  BY <1>0 DEF Streaming, InMessage
<1>9. QED
  BY SMTT(30), <1>2, <1>3, <1>4, <1>5, <1>6, <1>7, <1>8 DEF Streaming, InOrder

-----------------------------------------------------------------------------
(* The queue and the worker.                                               *)

\* enqueue moves the first offered unit to the end of the queue.
LEMMA EnqueueStep == IInv /\ TypeOK' /\ Enqueue => Streaming'
<1> SUFFICES ASSUME IInv, TypeOK', Enqueue PROVE Streaming'
  OBVIOUS
<1>a. /\ TypeOK /\ Streaming /\ pc = "enq" /\ pc \in StreamStates
      /\ UNCHANGED <<handled, unit, batch, pos, pendingAck, worker, clientLSN,
                     inTxn, ret>>
      /\ queue' = Append(queue, Head(offer)) /\ offer' = Tail(offer)
  BY DEF IInv, Enqueue, StreamStates, workerVars
<1>b. offer # <<>> /\ offer \in Seq(Unit) /\ queue \in Seq(Unit)
  BY <1>a DEF Streaming, Counted, TypeOK
<1>c. outstanding = Len(queue) + (IF worker = "idle" THEN 0 ELSE 1) + 1
  BY <1>a DEF Streaming, Counted
<1>0. /\ Len(queue) \in Nat /\ Len(offer) \in Nat \ {0}
      /\ Len(queue') = Len(queue) + 1 /\ Len(offer') = Len(offer) - 1
      /\ \A i \in 1..Len(queue) : queue'[i] = queue[i]
      /\ queue'[Len(queue) + 1] = offer[1]
      /\ \A i \in 1..(Len(offer) - 1) : offer'[i] = offer[i + 1]
  BY <1>a, <1>b
<1>1. Safe(clientLSN)'
  BY <1>a DEF Streaming, Safe
<1>2. \A p : InHand(p)' <=> InHand(p)
  BY <1>a DEF InHand
<1>3. \A p, i : i \in 0..Len(queue) => (InQueue(p, i)' <=> InQueue(p, i))
  BY <1>0 DEF InQueue
<1>4. \A p : InQueue(p, Len(queue))' <=>
             InQueue(p, Len(queue)) \/ p \in offer[1].events
  <2>1. SUFFICES ASSUME NEW p
                 PROVE  (\E j \in 1..(Len(queue) + 1) : p \in queue'[j].events)
                        <=> \/ \E j \in 1..Len(queue) : p \in queue[j].events
                            \/ p \in offer[1].events
    BY <1>0 DEF InQueue
  <2>2. \A j \in 1..(Len(queue) + 1) : j \in 1..Len(queue) \/ j = Len(queue) + 1
    BY <1>0
  <2>3. /\ Len(queue) + 1 \in 1..(Len(queue) + 1)
        /\ \A j \in 1..Len(queue) : j \in 1..(Len(queue) + 1)
    BY <1>0
  <2>4. QED
    BY <1>0, <2>2, <2>3, Zenon
<1>5. \A p : \A i \in 1..Len(offer) :
        InOffer(p, i) <=> p \in offer[1].events \/ InOffer(p, i - 1)'
  <2>1. SUFFICES ASSUME NEW p, NEW i \in 1..Len(offer)
                 PROVE  InOffer(p, i) <=>
                          p \in offer[1].events \/ InOffer(p, i - 1)'
    OBVIOUS
  <2>2. ASSUME InOffer(p, i)
        PROVE  p \in offer[1].events \/ InOffer(p, i - 1)'
    <3>1. PICK j \in 1..i : p \in offer[j].events
      BY <2>2 DEF InOffer
    <3>2. CASE j = 1
      BY <3>1, <3>2
    <3>3. CASE j # 1
      <4>1. j - 1 \in 1..(i - 1) /\ j - 1 \in 1..(Len(offer) - 1)
        BY <1>0, <3>3
      <4>2. offer'[j - 1] = offer[j]
        BY <1>0, <4>1
      <4>3. QED
        BY <3>1, <4>1, <4>2 DEF InOffer
    <3>4. QED
      BY <3>2, <3>3
  <2>3. ASSUME p \in offer[1].events
        PROVE  InOffer(p, i)
    BY <1>0, <2>3 DEF InOffer
  <2>4. ASSUME InOffer(p, i - 1)'
        PROVE  InOffer(p, i)
    <3>1. PICK j \in 1..(i - 1) : p \in offer'[j].events
      BY <2>4 DEF InOffer
    <3>2. j + 1 \in 1..i /\ offer'[j] = offer[j + 1]
      BY <1>0
    <3>3. QED
      BY <3>1, <3>2 DEF InOffer
  <2>5. QED
    BY <2>2, <2>3, <2>4
<1>6. UnitInOrder'
  BY <1>a, <1>2 DEF Streaming, InOrder, UnitInOrder, Names
<1>7. QueueInOrder'
  <2>1. SUFFICES ASSUME NEW i \in 1..(Len(queue) + 1), NEW p \in Events,
                        NEW n \in 0..Len(WAL), Names(queue[i], n)', p <= n
                 PROVE  InHand(p)' \/ InQueue(p, i)'
    BY <1>0 DEF QueueInOrder
  <2>2. CASE i \in 1..Len(queue)
    <3>1. Names(queue[i], n)
      BY <1>0, <2>1, <2>2 DEF Names
    <3>2. InHand(p) \/ InQueue(p, i)
      BY <1>a, <2>1, <2>2, <3>1 DEF Streaming, InOrder, QueueInOrder
    <3>3. i \in 0..Len(queue)
      BY <1>0, <2>2
    <3>4. InQueue(p, i)' <=> InQueue(p, i)
      BY SMTT(30), <1>3, <3>3
    <3>5. QED
      BY SMTT(30), <1>2, <3>2, <3>4
  <2>3. CASE i = Len(queue) + 1
    <3>1. Names(offer[1], n) /\ 1 \in 1..Len(offer)
      BY <1>0, <2>1, <2>3 DEF Names
    <3>2. InHand(p) \/ InQueue(p, Len(queue)) \/ InOffer(p, 1)
      BY <1>a, <2>1, <3>1 DEF Streaming, InOrder, OfferInOrder
    <3>3. InOffer(p, 1) => p \in offer[1].events
      BY SMTT(30) DEF InOffer
    <3>4. QED
      BY <1>0, <1>2, <1>4, <2>3, <3>2, <3>3
  <2>4. QED
    BY <1>0, <2>2, <2>3
<1>8. OfferInOrder'
  <2>1. SUFFICES ASSUME NEW i \in 1..(Len(offer) - 1), NEW p \in Events,
                        NEW n \in 0..Len(WAL), Names(offer[i], n)', p <= n
                 PROVE  \/ InHand(p)' \/ InQueue(p, Len(queue))'
                        \/ InOffer(p, i)'
    BY <1>0 DEF OfferInOrder
  <2>2. Names(offer[i + 1], n) /\ i + 1 \in 1..Len(offer)
    BY SMTT(30), <1>0, <2>1 DEF Names
  <2>3. InHand(p) \/ InQueue(p, Len(queue)) \/ InOffer(p, i + 1)
    BY <1>a, <2>1, <2>2 DEF Streaming, InOrder, OfferInOrder
  <2>4. InOffer(p, i + 1) <=> p \in offer[1].events \/ InOffer(p, (i + 1) - 1)'
    BY <1>5, <2>2
  <2>5. (i + 1) - 1 = i
    BY SMTT(30), <1>0
  <2>6. QED
    BY ZenonT(40), <1>2, <1>4, <2>3, <2>4, <2>5
<1>9. BatchInOrder'
  <2>1. \A p : InOffer(p, Len(offer)) <=>
               p \in offer[1].events \/ InOffer(p, Len(offer))'
    BY SMTT(30), <1>0, <1>5
  <2>2. QED
    BY <1>a, <1>2, <1>4, <2>1 DEF Streaming, InOrder, BatchInOrder
<1>10. AcksAtBoundary'
  <2>1. \A i \in 1..Len(queue') : ~Open(queue'[i].ack)
    <3>1. SUFFICES ASSUME NEW i \in 1..(Len(queue) + 1)
                   PROVE  ~Open(queue'[i].ack)
      BY SMTT(30), <1>0
    <3>2. CASE i \in 1..Len(queue)
      BY SMTT(30), <1>0, <1>a, <3>2 DEF Streaming, AcksAtBoundary
    <3>3. CASE i = Len(queue) + 1
      BY SMTT(30), <1>0, <1>a, <3>3 DEF Streaming, AcksAtBoundary
    <3>4. QED
      BY <1>0, <3>2, <3>3
  <2>2. \A i \in 1..Len(offer') : ~Open(offer'[i].ack)
    BY <1>0, <1>a DEF Streaming, AcksAtBoundary
  <2>3. QED
    BY <1>a, <2>1, <2>2 DEF Streaming, AcksAtBoundary
<1>11. Counted'
  <2>1. CASE Len(offer) = 1
    <3>1. offer' = <<>> /\ pc' = ret /\ outstanding' = outstanding
      BY SMTT(30), <1>a, <1>b, <2>1 DEF Enqueue
    <3>2. pc' # "enq"
      BY <1>a, <3>1 DEF TypeOK
    <3>3. QED
      BY <1>0, <1>a, <1>c, <3>1, <3>2 DEF Counted
  <2>2. CASE Len(offer) # 1
    <3>1. offer' # <<>> /\ pc' = pc /\ outstanding' = outstanding + 1
      BY SMTT(30), <1>0, <1>a, <1>b, <2>2 DEF Enqueue
    <3>2. QED
      BY SMTT(30), <1>0, <1>a, <1>c, <3>1 DEF Counted
  <2>3. QED
    BY <2>1, <2>2
<1>12. InMessage'
  <2>1. pc' \in {pc, ret}
    BY DEF Enqueue
  <2>2. QED
    BY <1>a, <2>1 DEF Streaming, InMessage
<1>13. QED
  BY ZenonT(40), <1>1, <1>6, <1>7, <1>8, <1>9, <1>10, <1>11, <1>12 DEF Streaming, InOrder

\* The worker takes the head of the queue; its previous unit was handled.
LEMMA TakeStep == IInv /\ Take /\ pc \in StreamStates => Streaming'
<1> SUFFICES ASSUME IInv, Take, pc \in StreamStates PROVE Streaming'
  BY SMTT(30)
<1>a. /\ TypeOK /\ Streaming /\ worker = "idle"
      /\ UNCHANGED <<handled, offer, batch, pos, pendingAck, clientLSN, inTxn,
                     ret, pc, outstanding>>
      /\ unit' = Head(queue) /\ queue' = Tail(queue) /\ worker' # "idle"
      /\ queue # <<>>
  BY SMTT(30) DEF IInv, Take, loopVars
<1>b. queue \in Seq(Unit) /\ unit.events \subseteq handled
  BY <1>a DEF IInv, TypeOK
<1>0. /\ Len(queue) \in Nat \ {0} /\ Len(queue') = Len(queue) - 1
      /\ unit' = queue[1]
      /\ \A i \in 1..(Len(queue) - 1) : queue'[i] = queue[i + 1]
  BY <1>a, <1>b
<1>1. Safe(clientLSN)'
  BY <1>a DEF Streaming, Safe
<1>2. \A p : InHand(p) => InHand(p)'
  BY <1>a, <1>b DEF InHand
<1>3. \A p : \A i \in 1..Len(queue) :
        InQueue(p, i) => InHand(p)' \/ InQueue(p, i - 1)'
  <2>1. SUFFICES ASSUME NEW p, NEW i \in 1..Len(queue), InQueue(p, i)
                 PROVE  InHand(p)' \/ InQueue(p, i - 1)'
    OBVIOUS
  <2>2. PICK j \in 1..i : p \in queue[j].events
    BY <2>1 DEF InQueue
  <2>3. CASE j = 1
    BY <1>0, <2>2, <2>3 DEF InHand
  <2>4. CASE j # 1
    <3>1. j - 1 \in 1..(i - 1) /\ j - 1 \in 1..(Len(queue) - 1)
      BY <1>0, <2>4
    <3>2. queue'[j - 1] = queue[j]
      BY <1>0, <3>1
    <3>3. QED
      BY <2>2, <3>1, <3>2 DEF InQueue
  <2>5. QED
    BY <2>3, <2>4
<1>4. \A p : InQueue(p, Len(queue)) => InHand(p)' \/ InQueue(p, Len(queue))'
  BY <1>0, <1>3
<1>5. \A p, i : InOffer(p, i)' <=> InOffer(p, i)
  BY <1>a DEF InOffer
<1>6. UnitInOrder'
  <2>1. SUFFICES ASSUME NEW p \in Events, NEW n \in 0..Len(WAL),
                        Names(queue[1], n), p <= n
                 PROVE  InHand(p)'
    BY <1>0 DEF UnitInOrder, Names
  <2>2. InHand(p) \/ InQueue(p, 1)
    BY <1>0, <1>a, <2>1 DEF Streaming, InOrder, QueueInOrder
  <2>3. ASSUME InQueue(p, 1)
        PROVE  p \in queue[1].events
    BY <2>3 DEF InQueue
  <2>4. QED
    BY <1>0, <1>2, <2>2, <2>3 DEF InHand
<1>7. QueueInOrder'
  <2>1. SUFFICES ASSUME NEW i \in 1..(Len(queue) - 1), NEW p \in Events,
                        NEW n \in 0..Len(WAL), Names(queue[i], n)', p <= n
                 PROVE  InHand(p)' \/ InQueue(p, i)'
    BY <1>0 DEF QueueInOrder
  <2>2. Names(queue[i + 1], n) /\ i + 1 \in 1..Len(queue)
    BY <1>0, <2>1 DEF Names
  <2>3. InHand(p) \/ InQueue(p, i + 1)
    BY <1>a, <2>1, <2>2 DEF Streaming, InOrder, QueueInOrder
  <2>4. InQueue(p, i + 1) => InHand(p)' \/ InQueue(p, (i + 1) - 1)'
    BY <1>3, <2>2
  <2>5. (i + 1) - 1 = i
    BY SMTT(30), <1>0
  <2>6. QED
    BY ZenonT(40), <1>2, <2>3, <2>4, <2>5
<1>8. OfferInOrder' /\ BatchInOrder'
  BY SMTT(30), <1>a, <1>2, <1>4, <1>5
  DEF Streaming, InOrder, OfferInOrder, BatchInOrder, Names
<1>9. AcksAtBoundary'
  <2>1. ~Open(unit'.ack) /\ \A i \in 1..Len(queue') : ~Open(queue'[i].ack)
    BY <1>0, <1>a DEF Streaming, AcksAtBoundary
  <2>2. QED
    BY SMTT(30), <1>a, <2>1 DEF Streaming, AcksAtBoundary
<1>10. Counted'
  <2>1. Counted
    BY <1>a DEF Streaming
  <2>2. CASE pc = "enq"
    <3>1. outstanding = Len(queue) + 1
      BY <1>0, <1>a, <2>1, <2>2 DEF Counted
    <3>2. QED
      BY <1>0, <1>a, <2>1, <2>2, <3>1 DEF Counted
  <2>3. CASE pc # "enq"
    <3>1. outstanding = Len(queue)
      BY <1>0, <1>a, <2>1, <2>3 DEF Counted
    <3>2. QED
      BY <1>0, <1>a, <2>1, <2>3, <3>1 DEF Counted
  <2>4. QED
    BY <2>2, <2>3
<1>11. InMessage'
  BY <1>a DEF Streaming, InMessage
<1>12. QED
  BY <1>1, <1>6, <1>7, <1>8, <1>9, <1>10, <1>11 DEF Streaming, InOrder

\* The rest of the worker's round: a handled unit's ack covers only handled
\* events, and a failed unit stays counted.
LEMMA DeliverStep ==
  ASSUME IInv, pc \in StreamStates,
         HandlerSucceeds \/ HandlerFails \/ Acknowledge \/ Uncount
  PROVE  Streaming'
<1>0. /\ TypeOK /\ Streaming /\ handled \subseteq handled'
      /\ UNCHANGED <<unit, queue, offer, batch, pos, pendingAck, inTxn, ret, pc>>
  BY ZenonT(40) DEF IInv, HandlerSucceeds, HandlerFails, Acknowledge, Uncount, loopVars,
         chanVars
<1>1. Safe(clientLSN)'
  <2>1. clientLSN' = clientLSN \/ (Acknowledge /\ clientLSN' = unit.ack)
    BY ZenonT(30) DEF HandlerSucceeds, HandlerFails, Acknowledge, Uncount, Later
  <2>2. ASSUME Acknowledge
        PROVE  Safe(unit.ack)
    <3>1. unit.events \subseteq handled
      BY SMTT(30), <2>2 DEF IInv, Acknowledge
    <3>2. unit.ack \in 0..Len(WAL)
      BY <1>0, UnitFields DEF TypeOK
    <3>3. QED
      BY ZenonT(40), <1>0, <3>1, <3>2
      DEF Streaming, InOrder, UnitInOrder, AcksAtBoundary, Names, InHand,
          Safe, Covers
  <2>3. Safe(clientLSN)
    BY <1>0 DEF Streaming
  <2>4. QED
    BY SMTT(30), <1>0, <2>1, <2>2, <2>3 DEF Safe, Covers
<1>2. InOrder'
  BY SMTT(30), <1>0, OrderGrows DEF Streaming
<1>3. AcksAtBoundary' /\ InMessage'
  BY <1>0 DEF Streaming, AcksAtBoundary, InMessage
<1>4. Counted'
  <2>1. \/ outstanding' = outstanding /\ worker # "idle" /\ worker' # "idle"
        \/ outstanding' = outstanding - 1 /\ worker # "idle" /\ worker' = "idle"
    BY DEF HandlerSucceeds, HandlerFails, Acknowledge, Uncount, chanVars
  <2>2. Counted /\ Len(queue) \in Nat
    BY <1>0 DEF Streaming, TypeOK
  <2>3. CASE pc = "enq"
    BY <1>0, <2>1, <2>2, <2>3 DEF Counted
  <2>4. CASE pc # "enq"
    BY <1>0, <2>1, <2>2, <2>4 DEF Counted
  <2>5. QED
    BY ZenonT(40), <2>3, <2>4
<1>5. QED
  BY ZenonT(40), <1>1, <1>2, <1>3, <1>4 DEF Streaming

\* Every step of a running stream keeps its invariant.
LEMMA StreamStep ==
  IInv /\ [Next]_vars /\ TypeOK' /\ pc' \in StreamStates => Streaming'
<1> SUFFICES ASSUME IInv, [Next]_vars, TypeOK', pc' \in StreamStates
             PROVE  Streaming'
  OBVIOUS
<1>1. CASE StartStream
  BY <1>1, StartStreamStep
<1>2. CASE LoopTop \/ ReceiveEvent \/ ReceiveWatermark \/ HandleMark \/ Enqueue
  BY <1>2, LoopTopStep, EventStep, WatermarkStep, HandleMarkStep, EnqueueStep
<1>3. CASE ConfirmIdle \/ ReceiveKeepalive \/ ReceiveBoundary
  BY <1>3, ConfirmIdleStep, KeepaliveStep, BoundaryStep
<1>4. CASE Worker
  <2>1. pc \in StreamStates /\ ~WorkerExits
    BY ZenonT(40), <1>4 DEF Worker, Take, HandlerSucceeds, HandlerFails, Acknowledge,
                Uncount, WorkerExits, StreamStates
  <2>2. QED
    BY ZenonT(40), <1>4, <2>1, TakeStep, DeliverStep DEF Worker
<1>5. CASE SendStatus \/ ReceiveTimeout
  <2>1. /\ pc \in StreamStates
        /\ UNCHANGED <<handled, unit, queue, offer, batch, pos, pendingAck,
                       inTxn, outstanding, worker, clientLSN, ret>>
        /\ pc' = pc \/ (pc \in {"recv", "reply"} /\ pc' = "top")
    BY SMTT(30), <1>5 DEF SendStatus, ReceiveTimeout, StreamStates, loopVars, chanVars,
                workerVars
  <2>2. TypeOK /\ Streaming
    BY <2>1 DEF IInv
  <2>3. QED
    BY SMTT(30), <2>1, <2>2, QuietStep
<1>6. CASE ServerConfirms \/ Stop \/ Cancel \/ UNCHANGED vars
  <2>1. UNCHANGED <<handled, unit, queue, offer, batch, pos, pendingAck, inTxn,
                    outstanding, worker, clientLSN, ret, pc>>
    BY SMTT(30), <1>6 DEF ServerConfirms, Stop, Cancel, vars, loopVars, chanVars,
                workerVars
  <2>2. TypeOK /\ Streaming /\ pc \in StreamStates
    BY SMTT(30), <2>1 DEF IInv
  <2>3. QED
    BY SMTT(30), <2>1, <2>2, QuietStep
<1>7. ASSUME \/ Connect \/ SetupFails \/ Quit \/ LoopStops \/ ConnectionLost
             \/ EnqueueFails \/ DrainOne \/ CloseQueue \/ EndStream \/ Restart
      PROVE  FALSE
  BY SMTT(30), <1>7 DEF Connect, SetupFails, Quit, LoopStops, ConnectionLost,
     EnqueueFails, DrainOne, CloseQueue, EndStream, Restart, Leave,
     StreamStates
<1>8. QED
  BY <1>1, <1>2, <1>3, <1>4, <1>5, <1>6, <1>7 DEF Next, Main, Environment

-----------------------------------------------------------------------------
(* The invariant, and what follows from it.                                *)

\* IInv is inductive.
LEMMA NextIInv == IInv /\ [Next]_vars => IInv'
<1> SUFFICES ASSUME IInv, [Next]_vars PROVE IInv'
  OBVIOUS
<1>1. TypeOK'
  BY TypeStep
<1>2. (Safe(slot) /\ Safe(wire) /\ Safe(startLSN))'
  BY SafeStep
<1>3. Hands' /\ Locals'
  BY HandsStep, LocalsStep
<1>4. pc' \in StreamStates => Streaming'
  BY <1>1, StreamStep
<1>5. QED
  BY ZenonT(30), <1>1, <1>2, <1>3, <1>4 DEF IInv, Hands, Locals

\* IInv holds in every reachable state.
THEOREM Invariance == Spec => []IInv
  BY InitIInv, NextIInv, PTL DEF Spec

\* Type correctness of the reader, its queue and its counter: in particular
\* outstanding never goes negative, teardown included.
THEOREM TypeCorrect == Spec => []TypeOK
<1>1. IInv => TypeOK
  BY DEF IInv
<1>2. QED
  BY <1>1, Invariance, PTL

\* At-least-once: PostgreSQL is never told to discard an event that some sink
\* has not processed (reader.go confirm, sendStandbyStatus).
THEOREM ConfirmedHandled == Spec => []ConfirmedIsHandled
<1>1. IInv => ConfirmedIsHandled
  BY ZenonT(30) DEF IInv, Safe, ConfirmedIsHandled
<1>2. QED
  BY <1>1, Invariance, PTL

\* A confirmed position is a transaction boundary (decoder.go: only COMMIT,
\* and keepalives outside a transaction, yield a position).
THEOREM ConfirmedBoundary == Spec => []ConfirmedAtBoundary
<1>1. IInv => ConfirmedAtBoundary
  BY Zenon DEF IInv, Safe, ConfirmedAtBoundary
<1>2. QED
  BY <1>1, Invariance, PTL

\* The next standby status of a running stream carries a safe position.
THEOREM StatusSafe == Spec => []StatusIsSafe
<1>1. IInv => StatusIsSafe
  BY DEF IInv, Streaming, Safe, StatusIsSafe
<1>2. QED
  BY <1>1, Invariance, PTL

\* Sinks see a running stream in order and without gaps.
THEOREM InOrderDelivery == Spec => []DeliveredInOrder
<1>1. IInv => DeliveredInOrder
  <2>1. SUFFICES ASSUME IInv, pc \in StreamStates, NEW e \in unit.events
                 PROVE  Covers(handled \cup unit.events, e)
    BY SMTT(30) DEF DeliveredInOrder
  <2>2. e \in 0..Len(WAL)
    BY <2>1, UnitFields DEF IInv, TypeOK, Events, Positions
  <2>3. QED
    BY <2>1, <2>2
    DEF IInv, Streaming, InOrder, UnitInOrder, Names, InHand, Covers
<1>2. QED
  BY <1>1, Invariance, PTL

\* The outstanding counter at zero means nothing is on the way.
THEOREM CounterSound == Spec => []NothingOutstanding
<1>1. IInv => NothingOutstanding
  <2>1. SUFFICES ASSUME IInv, pc \in StreamStates, outstanding = 0
                 PROVE  queue = <<>> /\ offer = <<>> /\ worker = "idle"
    BY DEF NothingOutstanding
  <2>2. Counted /\ queue \in Seq(Unit) /\ Len(queue) \in Nat
    BY <2>1 DEF IInv, Streaming, TypeOK
  <2>3. worker = "idle" /\ pc # "enq" /\ Len(queue) = 0
    <3>1. CASE worker = "idle"
      BY <2>1, <2>2, <3>1 DEF Counted
    <3>2. CASE worker # "idle"
      BY <2>1, <2>2, <3>2 DEF Counted
    <3>3. QED
      BY <3>1, <3>2
  <2>4. QED
    BY <2>2, <2>3 DEF Counted
<1>2. QED
  BY <1>1, Invariance, PTL

-----------------------------------------------------------------------------
(* Watermarks: the slices of a chunk's rows travel before, or with, the    *)
(* unit that carries its watermark.                                        *)

\* The unit u carries the slice x; it is in the worker's hands, or in one of
\* the first i units of a sequence.
Carries(u, x) == u.mark = x[1] /\ u.slice = x[2]
Handed(w, u, x) == w \in {"handling", "exited"} /\ Carries(u, x)
Within(q, i, x) == \E j \in 1..i : Carries(q[j], x)

\* Behind a final unit there is no slice of its chunk left.
UnitLast(U, w, u) ==
  u.final /\ w # "idle" => \A x \in U : x[1] = u.mark => Handed(w, u, x)
QueueLast(U, w, u, q) ==
  \A i \in 1..Len(q) : q[i].final =>
    \A x \in U : x[1] = q[i].mark => Handed(w, u, x) \/ Within(q, i, x)
OfferLast(U, w, u, q, o) ==
  \A i \in 1..Len(o) : o[i].final =>
    \A x \in U : x[1] = o[i].mark =>
      Handed(w, u, x) \/ Within(q, Len(q), x) \/ Within(o, i, x)

\* The marks below which everything lies; the one the loop is at is new.
Limit(c, r, p) == IF c = "mark" \/ (c = "enq" /\ r = "mark") THEN p ELSE p + 1
Below(b, U, R, u, q, o) ==
  /\ \A x \in U : x[1] < b
  /\ \A m \in R : m < b
  /\ u.final => u.mark < b
  /\ \A i \in 1..Len(q) : q[i].final => q[i].mark < b
  /\ \A i \in 1..Len(o) : o[i].final => o[i].mark < b

MarksIn(b, U, R, w, u, q, o) ==
  /\ UnitLast(U, w, u) /\ QueueLast(U, w, u, q) /\ OfferLast(U, w, u, q, o)
  /\ Below(b, U, R, u, q, o)
  /\ \A x \in U : x[1] \notin R
Marks == MarksIn(Limit(pc, ret, pos), undelivered, reported, worker, unit, queue, offer)
MInv == pc \in StreamStates => Marks

\* Everything stays below a limit that does not go down.
LEMMA BelowGrows ==
  ASSUME NEW b \in Nat, NEW a \in Nat, b <= a, NEW U \in SUBSET (Positions \X (1..MaxSlices)),
         NEW R \in SUBSET Positions, NEW u \in Unit, NEW q \in Seq(Unit), NEW o \in Seq(Unit),
         Below(b, U, R, u, q, o)
  PROVE  Below(a, U, R, u, q, o)
<1>1. Len(WAL) \in Nat /\ Positions \subseteq Nat
  BY WALAssumption DEF Positions
<1>2. \A m \in Positions : m < b => m < a
  BY <1>1
<1>3. \A x \in U : x[1] \in Positions
  OBVIOUS
<1>4. /\ u.final => u.mark \in Positions
      /\ \A i \in 1..Len(q) : q[i].final => q[i].mark \in Positions
      /\ \A i \in 1..Len(o) : o[i].final => o[i].mark \in Positions
  <2>1. (\A i \in 1..Len(q) : q[i] \in Unit) /\ \A i \in 1..Len(o) : o[i] \in Unit
    OBVIOUS
  <2> QED
    BY Zenon, <2>1, UnitFields
<1> QED
  BY Zenon, <1>2, <1>3, <1>4 DEF Below

\* A limit is a number.
LEMMA LimitIs ==
  ASSUME NEW c, NEW r, NEW p \in Nat
  PROVE  Limit(c, r, p) \in Nat
BY DEF Limit

\* The types the lemmas below need.
LEMMA MarkTypes ==
  ASSUME TypeOK
  PROVE  /\ undelivered \in SUBSET (Positions \X (1..MaxSlices)) /\ reported \in SUBSET Positions
         /\ unit \in Unit /\ queue \in Seq(Unit) /\ offer \in Seq(Unit) /\ pos \in Nat
         /\ Limit(pc, ret, pos) \in Nat
<1>1. pos \in Nat
  BY WALAssumption DEF TypeOK
<1> QED
  BY Zenon, <1>1, LimitIs DEF TypeOK

\* A live unit carries no watermark.
LEMMA LiveLast ==
  ASSUME NEW b, NEW U, NEW R, NEW w, NEW u, NEW q, NEW o, NEW e, NEW a,
         MarksIn(b, U, R, w, u, q, o)
  PROVE  MarksIn(b, U, R, w, u, q, <<LiveUnit(e, a)>>)
<1> DEFINE v == <<LiveUnit(e, a)>>
<1>1. Len(v) = 1 /\ v[1] = LiveUnit(e, a)
  OBVIOUS
<1>2. \A i \in 1..Len(v) : ~v[i].final
  BY <1>1 DEF LiveUnit
<1> HIDE DEF v
<1> QED
  BY Zenon, <1>2 DEF v, MarksIn, OfferLast, Below

\* Steps that leave the units on the way alone, and may offer a live one.
LEMMA MarksKept ==
  ASSUME TypeOK, pc \in StreamStates, Marks, TypeOK',
         UNCHANGED <<undelivered, reported, worker, unit, queue>>,
         offer' = offer \/ \E e, a : offer' = <<LiveUnit(e, a)>>,
         Limit(pc, ret, pos) <= Limit(pc', ret', pos')
  PROVE  Marks'
<1> DEFINE b == Limit(pc, ret, pos)
           c == Limit(pc', ret', pos')
<1>1. b \in Nat /\ c \in Nat
  <2>1. pos \in Nat /\ pos' \in Nat
    BY WALAssumption DEF TypeOK
  <2> QED
    BY Zenon, <2>1, LimitIs
<1>2. MarksIn(b, undelivered, reported, worker, unit, queue, offer')
  BY Zenon, LiveLast DEF Marks
<1>3. offer' \in Seq(Unit)
  BY Zenon DEF TypeOK
<1> HIDE DEF b, c
<1>4. MarksIn(c, undelivered, reported, worker, unit, queue, offer')
  <2>1. Below(b, undelivered, reported, unit, queue, offer')
    BY Zenon, <1>2 DEF MarksIn
  <2>2. Below(c, undelivered, reported, unit, queue, offer')
    BY <1>1, <1>3, <2>1, MarkTypes, BelowGrows DEF b, c
  <2> QED
    BY Zenon, <1>2, <2>2 DEF MarksIn
<1> QED
  BY Zenon, <1>4 DEF Marks, c

\* HandleWatermark's slices come in order, the last with the watermark.
LEMMA MarksMarked ==
  ASSUME TypeOK, TypeOK', Marks, HandleMark
  PROVE  Marks'
<1>1. PICK n \in 0..MaxSlices :
        /\ offer' = IF n = 0 THEN <<ChunkUnit(pos, 0, 0)>>
                             ELSE [i \in 1..n |-> ChunkUnit(pos, i, n)]
        /\ undelivered' = undelivered \cup ({pos} \X (1..n))
  BY Zenon DEF HandleMark
<1>2. /\ pc = "mark" /\ pc' = "enq" /\ ret' = "top" /\ pos' = pos /\ reported' = reported
      /\ worker' = worker /\ unit' = unit /\ queue' = queue
  BY Zenon DEF HandleMark, workerVars
<1>3. pos \in Nat /\ MaxSlices \in Nat /\ n \in Nat
  BY MarkTypes, ReaderAssumption
<1> DEFINE N == Len(offer')
           o == offer'
           U == undelivered'
<1>4. /\ N \in Nat /\ (n # 0 => N = n)
      /\ \A i \in 1..N : o[i].mark = pos /\ (n # 0 => o[i].slice = i) /\ (o[i].final => i = N)
  <2>1. CASE n = 0
    <3>1. Len(o) = 1 /\ o[1] = ChunkUnit(pos, 0, 0)
      BY <1>1, <2>1
    <3> QED
      BY <2>1, <3>1 DEF ChunkUnit
  <2>2. CASE n # 0
    <3>1. o = [i \in 1..n |-> ChunkUnit(pos, i, n)]
      BY <1>1, <2>2
    <3>2. Len(o) = n /\ \A i \in 1..n : o[i] = ChunkUnit(pos, i, n)
      BY <1>3, <2>2, <3>1
    <3>3. \A i : LET c == ChunkUnit(pos, i, n) IN c.mark = pos /\ c.slice = i /\ (c.final <=> i = n)
      BY Zenon DEF ChunkUnit
    <3> QED
      BY Zenon, <1>3, <2>2, <3>2, <3>3
  <2> QED
    BY Zenon, <2>1, <2>2
<1>5. Limit(pc, ret, pos) = pos /\ Limit(pc', ret', pos') = pos + 1
  BY <1>2 DEF Limit
<1>6. MarksIn(pos, undelivered, reported, worker, unit, queue, offer)
  BY Zenon, <1>5 DEF Marks
<1>7. \A x \in U : x \in undelivered \/ (n # 0 /\ x[1] = pos /\ x[2] \in 1..n)
  BY <1>1, <1>3
<1>8. /\ ~(pos < pos) /\ pos < pos + 1 /\ \A m \in Positions : m < pos => m < pos + 1 /\ m # pos
  BY <1>3, WALAssumption DEF Positions
<1>0. N = Len(o)
  BY Zenon
<1> HIDE DEF N, o, U
<1>9. ASSUME NEW x \in U, x[1] = pos PROVE Within(o, N, x)
  <2>1. n # 0 /\ x[2] \in 1..n
    BY Zenon, <1>6, <1>7, <1>8, <1>9 DEF MarksIn, Below
  <2> QED
    BY Zenon, <1>4, <1>9, <2>1 DEF Within, Carries
<1>10. OfferLast(U, worker, unit, queue, o)
  BY Zenon, <1>0, <1>4, <1>9 DEF OfferLast
<1>11. /\ UnitLast(U, worker, unit) /\ QueueLast(U, worker, unit, queue)
       /\ \A x \in U : x[1] \notin reported
  BY ZenonT(40), <1>6, <1>7, <1>8 DEF MarksIn, Below, UnitLast, QueueLast
<1>12. Below(pos + 1, U, reported, unit, queue, o)
  <2>1. Below(pos + 1, undelivered, reported, unit, queue, offer)
    <3>1. pos + 1 \in Nat /\ pos <= pos + 1
      BY <1>3
    <3>2. Below(pos, undelivered, reported, unit, queue, offer)
      BY Zenon, <1>6 DEF MarksIn
    <3> QED
      BY <1>3, <3>1, <3>2, MarkTypes, BelowGrows
  <2> QED
    BY Zenon, <1>0, <1>4, <1>7, <1>8, <2>1 DEF Below
<1> QED
  BY Zenon, <1>2, <1>5, <1>10, <1>11, <1>12 DEF Marks, MarksIn, U, o

\* enqueue moves the first offered unit to the end of the queue.
LEMMA MarksEnqueued ==
  ASSUME TypeOK, TypeOK', Marks, pc = "enq" => offer # <<>>, Enqueue
  PROVE  Marks'
<1> DEFINE q == queue
           o == offer
           p == queue'
           v == offer'
           N == Len(q) + 1
<1>1. /\ pc = "enq" /\ p = Append(q, Head(o)) /\ v = Tail(o) /\ pos' = pos /\ ret' = ret
      /\ pc' \in {"enq", ret} /\ worker' = worker /\ unit' = unit
      /\ undelivered' = undelivered /\ reported' = reported
  BY Zenon DEF Enqueue, workerVars, histVars
<1>2. q \in Seq(Unit) /\ o \in Seq(Unit) /\ o # <<>>
  BY Zenon, <1>1, MarkTypes
<1>3. /\ Len(p) = N /\ p[N] = o[1] /\ \A i \in 1..Len(q) : p[i] = q[i]
      /\ Len(q) \in Nat
      /\ \A i \in 1..N : i \in 1..Len(q) \/ i = N
  <2> HIDE DEF q, o, p, v
  <2> QED
    BY <1>1, <1>2
<1>4. /\ Len(o) \in Nat \ {0} /\ Len(v) = Len(o) - 1
      /\ \A i \in 1..Len(v) : v[i] = o[i + 1]
  <2> HIDE DEF q, o, p, v
  <2> QED
    BY <1>1, <1>2
<1> DEFINE U == undelivered
<1> HIDE DEF q, o, p, v, N
<1>5. MarksIn(Limit(pc, ret, pos), U, reported, worker, unit, q, o)
  BY Zenon DEF Marks, q, o
<1>6. \A x : \A i \in 1..Len(q) : Within(q, i, x) => Within(p, i, x) /\ Within(p, N, x)
  <2>1. \A i \in 1..Len(q) : \A j \in 1..i : j \in 1..Len(q) /\ j \in 1..N
    BY <1>3 DEF N
  <2> QED
    BY Zenon, <1>3, <2>1 DEF Within
<1>7. \A x : Within(q, Len(q), x) \/ Carries(o[1], x) => Within(p, N, x)
  <2>1. N \in 1..N /\ \A j \in 1..Len(q) : j \in 1..N
    BY <1>3 DEF N
  <2> QED
    BY Zenon, <1>3, <2>1 DEF Within
<1>8. QueueLast(U, worker, unit, p)
  <2> SUFFICES ASSUME NEW i \in 1..N, p[i].final, NEW x \in U, x[1] = p[i].mark
               PROVE  Handed(worker, unit, x) \/ Within(p, i, x)
    BY Zenon, <1>3 DEF QueueLast
  <2>1. CASE i \in 1..Len(q)
    BY Zenon, <1>3, <1>5, <1>6, <2>1 DEF MarksIn, QueueLast
  <2>2. CASE i = N
    <3>1. 1 \in 1..Len(o) /\ \A j \in 1..1 : j = 1
      BY <1>4
    <3>2. Handed(worker, unit, x) \/ Within(q, Len(q), x) \/ Within(o, 1, x)
      BY Zenon, <1>3, <1>5, <2>2, <3>1 DEF MarksIn, OfferLast
    <3> QED
      BY Zenon, <1>7, <2>2, <3>1, <3>2 DEF Within
  <2> QED
    BY Zenon, <1>3, <2>1, <2>2
<1>9. OfferLast(U, worker, unit, p, v)
  <2> SUFFICES ASSUME NEW i \in 1..Len(v), v[i].final, NEW x \in U, x[1] = v[i].mark
               PROVE  Handed(worker, unit, x) \/ Within(p, N, x) \/ Within(v, i, x)
    BY Zenon, <1>3 DEF OfferLast
  <2>1. i + 1 \in 1..Len(o) /\ v[i] = o[i + 1]
    BY <1>4
  <2>2. Handed(worker, unit, x) \/ Within(q, Len(q), x) \/ Within(o, i + 1, x)
    BY Zenon, <1>5, <2>1 DEF MarksIn, OfferLast
  <2>3. ASSUME NEW j \in 1..(i + 1), Carries(o[j], x), j # 1 PROVE Within(v, i, x)
    <3>1. j - 1 \in 1..i /\ j - 1 \in 1..Len(v) /\ (j - 1) + 1 = j
      BY <1>4, <2>3
    <3>2. v[j - 1] = o[j]
      BY Zenon, <1>4, <3>1
    <3> QED
      BY Zenon, <2>3, <3>1, <3>2 DEF Within
  <2> QED
    BY Zenon, <1>7, <2>2, <2>3 DEF Within
<1>10. Below(Limit(pc, ret, pos), U, reported, unit, p, v)
  <2>1. 1 \in 1..Len(o) /\ \A i \in 1..Len(v) : i + 1 \in 1..Len(o)
    BY <1>4
  <2> QED
    BY Zenon, <1>3, <1>4, <1>5, <2>1 DEF MarksIn, Below
<1>11. MarksIn(Limit(pc, ret, pos), U, reported, worker, unit, p, v)
  BY Zenon, <1>5, <1>8, <1>9, <1>10 DEF MarksIn
<1>12. Limit(pc, ret, pos) = Limit(pc', ret', pos')
  BY Zenon, <1>1 DEF Limit, TypeOK
<1> QED
  BY Zenon, <1>1, <1>11, <1>12 DEF Marks, p, v

\* The worker takes the first unit of the queue; a slice of rows is not empty.
LEMMA MarksTaken ==
  ASSUME TypeOK, Marks, Take
  PROVE  Marks'
<1> DEFINE q == queue
           v == queue'
           u == unit'
           U == undelivered
           N == Len(q)
<1>1. /\ worker = "idle" /\ q # <<>> /\ u = Head(q) /\ v = Tail(q)
      /\ worker' = (IF HasEvents(u) THEN "handling" ELSE "handled")
      /\ pc' = pc /\ ret' = ret /\ pos' = pos /\ offer' = offer
      /\ undelivered' = U /\ reported' = reported
  BY Zenon DEF Take, loopVars, histVars
<1>2. q \in Seq(Unit) /\ U \in SUBSET (Positions \X (1..MaxSlices))
  BY Zenon, MarkTypes
<1>3. /\ N \in Nat \ {0} /\ u = q[1] /\ u \in Unit /\ Len(v) = N - 1
      /\ \A i \in 1..Len(v) : v[i] = q[i + 1]
  <2> HIDE DEF q, v, u
  <2> QED
    BY <1>1, <1>2
<1> HIDE DEF q, v, u, U, N
<1>4. MarksIn(Limit(pc, ret, pos), U, reported, "idle", unit, q, offer)
  BY Zenon, <1>1 DEF Marks, q, U
<1>5. ASSUME NEW x \in U PROVE ~Handed("idle", unit, x)
  BY Zenon DEF Handed
<1>6. ASSUME NEW x \in U, Carries(u, x) PROVE Handed(worker', u, x)
  <2>1. x[2] \in 1..MaxSlices /\ MaxSlices \in Nat
    BY <1>2, ReaderAssumption
  <2>2. u.slice > 0
    BY <1>6, <2>1 DEF Carries
  <2> QED
    BY Zenon, <1>1, <1>6, <2>2 DEF Handed, HasEvents
<1>7. ASSUME NEW x \in U, NEW i \in 1..N, Within(q, i, x), ~Carries(u, x)
      PROVE  i # 1 /\ Within(v, i - 1, x)
  <2>1. PICK j \in 1..i : Carries(q[j], x)
    BY Zenon, <1>7 DEF Within
  <2>2. j # 1
    BY Zenon, <1>3, <1>7, <2>1
  <2>3. i # 1 /\ j - 1 \in 1..(i - 1) /\ j - 1 \in 1..Len(v) /\ (j - 1) + 1 = j
    BY <1>3, <2>2
  <2>4. v[j - 1] = q[j]
    BY Zenon, <1>3, <2>3
  <2> QED
    BY Zenon, <2>1, <2>3, <2>4 DEF Within
<1>8. UnitLast(U, worker', u)
  <2> SUFFICES ASSUME u.final, NEW x \in U, x[1] = u.mark PROVE Carries(u, x)
    BY Zenon, <1>6 DEF UnitLast
  <2>1. 1 \in 1..N /\ \A j \in 1..1 : j = 1
    BY <1>3
  <2>2. Within(q, 1, x)
    BY Zenon, <1>3, <1>4, <1>5, <2>1 DEF MarksIn, QueueLast, N
  <2> QED
    BY Zenon, <1>3, <2>1, <2>2 DEF Within
<1>9. QueueLast(U, worker', u, v)
  <2> SUFFICES ASSUME NEW i \in 1..Len(v), v[i].final, NEW x \in U, x[1] = v[i].mark,
                      ~Carries(u, x)
               PROVE  Within(v, i, x)
    BY Zenon, <1>6 DEF QueueLast
  <2>1. i + 1 \in 1..N /\ v[i] = q[i + 1] /\ (i + 1) - 1 = i
    BY <1>3
  <2>2. Within(q, i + 1, x)
    BY Zenon, <1>4, <1>5, <2>1 DEF MarksIn, QueueLast, N
  <2> QED
    BY Zenon, <1>7, <2>1, <2>2
<1>10. OfferLast(U, worker', u, v, offer)
  <2> SUFFICES ASSUME NEW i \in 1..Len(offer), offer[i].final, NEW x \in U,
                      x[1] = offer[i].mark, ~Carries(u, x)
               PROVE  Within(v, Len(v), x) \/ Within(offer, i, x)
    BY Zenon, <1>6 DEF OfferLast
  <2>1. N \in 1..N /\ Len(v) = N - 1
    BY <1>3
  <2>2. Within(q, N, x) \/ Within(offer, i, x)
    BY Zenon, <1>4, <1>5 DEF MarksIn, OfferLast, N
  <2> QED
    BY Zenon, <1>7, <2>1, <2>2
<1>11. Below(Limit(pc, ret, pos), U, reported, u, v, offer)
  <2>1. 1 \in 1..N /\ \A i \in 1..Len(v) : i + 1 \in 1..N
    BY <1>3
  <2> QED
    BY Zenon, <1>3, <1>4, <2>1 DEF MarksIn, Below, N
<1> QED
  BY Zenon, <1>1, <1>4, <1>8, <1>9, <1>10, <1>11 DEF Marks, MarksIn, u, v, U

\* The handler is done with the slice it had.
LEMMA MarksHandled ==
  ASSUME TypeOK, Marks, HandlerSucceeds
  PROVE  Marks'
<1> DEFINE U == undelivered'
<1>1. /\ worker = "handling" /\ worker' = "handled" /\ unit' = unit /\ queue' = queue
      /\ U = undelivered \ {<<unit.mark, unit.slice>>}
      /\ pc' = pc /\ ret' = ret /\ pos' = pos /\ offer' = offer /\ reported' = reported
  BY Zenon DEF HandlerSucceeds, loopVars, chanVars
<1>2. \A x \in U : x \in undelivered /\ ~Carries(unit, x)
  <2>1. undelivered \in SUBSET (Positions \X (1..MaxSlices))
    BY Zenon, MarkTypes
  <2> SUFFICES ASSUME NEW x \in U, Carries(unit, x) PROVE FALSE
    BY Zenon, <1>1
  <2>2. x = <<x[1], x[2]>>
    BY <1>1, <2>1
  <2> QED
    BY Zenon, <1>1, <2>2 DEF Carries
<1>3. MarksIn(Limit(pc, ret, pos), undelivered, reported, "handling", unit, queue, offer)
  BY Zenon, <1>1 DEF Marks
<1>4. \A x \in U : ~Handed("handling", unit, x)
  BY Zenon, <1>2 DEF Handed
<1> HIDE DEF U
<1>5. "handling" # "idle"
  OBVIOUS
<1>6. MarksIn(Limit(pc, ret, pos), U, reported, "handled", unit, queue, offer)
  BY ZenonT(40), <1>2, <1>3, <1>4, <1>5
     DEF MarksIn, UnitLast, QueueLast, OfferLast, Below
<1> QED
  BY Zenon, <1>1, <1>6 DEF Marks, U

\* A failed unit stays in the worker's hands.
LEMMA MarksFailed ==
  ASSUME Marks, HandlerFails
  PROVE  Marks'
<1>1. /\ worker = "handling" /\ worker' = "exited" /\ unit' = unit /\ queue' = queue
      /\ undelivered' = undelivered
      /\ pc' = pc /\ ret' = ret /\ pos' = pos /\ offer' = offer /\ reported' = reported
  BY Zenon DEF HandlerFails, loopVars, chanVars, histVars
<1>2. MarksIn(Limit(pc, ret, pos), undelivered, reported, "handling", unit, queue, offer)
  BY Zenon, <1>1 DEF Marks
<1>3. \A x : Handed("handling", unit, x) => Handed("exited", unit, x)
  BY Zenon DEF Handed
<1>4. "handling" # "idle"
  OBVIOUS
<1>5. MarksIn(Limit(pc, ret, pos), undelivered, reported, "exited", unit, queue, offer)
  BY ZenonT(40), <1>2, <1>3, <1>4 DEF MarksIn, UnitLast, QueueLast, OfferLast
<1> QED
  BY Zenon, <1>1, <1>5 DEF Marks

\* WatermarkDelivered is called when no slice of the chunk is left.
LEMMA MarksAcknowledged ==
  ASSUME Marks, Acknowledge
  PROVE  Marks'
<1>1. /\ worker = "handled" /\ worker' = "acked" /\ unit' = unit /\ queue' = queue
      /\ undelivered' = undelivered
      /\ reported' = reported \cup (IF unit.final THEN {unit.mark} ELSE {})
      /\ pc' = pc /\ ret' = ret /\ pos' = pos /\ offer' = offer
  BY Zenon DEF Acknowledge, loopVars, chanVars
<1>2. MarksIn(Limit(pc, ret, pos), undelivered, reported, "handled", unit, queue, offer)
  BY Zenon, <1>1 DEF Marks
<1>3. \A x : ~Handed("handled", unit, x)
  BY Zenon DEF Handed
<1>4. "handled" # "idle"
  OBVIOUS
<1>5. \A m \in reported' : m \in reported \/ (unit.final /\ m = unit.mark)
  BY Zenon, <1>1
<1>6. \A x \in undelivered : x[1] \notin reported'
  BY Zenon, <1>2, <1>3, <1>4, <1>5 DEF MarksIn, UnitLast
<1>7. Below(Limit(pc, ret, pos), undelivered, reported', unit, queue, offer)
  BY Zenon, <1>2, <1>5 DEF MarksIn, Below
<1>8. MarksIn(Limit(pc, ret, pos), undelivered, reported', "acked", unit, queue, offer)
  BY ZenonT(40), <1>2, <1>3, <1>4, <1>6, <1>7 DEF MarksIn, UnitLast, QueueLast, OfferLast
<1> QED
  BY Zenon, <1>1, <1>8 DEF Marks

\* The unit is forgotten.
LEMMA MarksUncounted ==
  ASSUME Marks, Uncount
  PROVE  Marks'
<1>1. /\ worker = "acked" /\ worker' = "idle" /\ unit' = unit /\ queue' = queue
      /\ undelivered' = undelivered /\ reported' = reported
      /\ pc' = pc /\ ret' = ret /\ pos' = pos /\ offer' = offer
  BY Zenon DEF Uncount, loopVars, histVars
<1>2. MarksIn(Limit(pc, ret, pos), undelivered, reported, "acked", unit, queue, offer)
  BY Zenon, <1>1 DEF Marks
<1>3. \A x : ~Handed("acked", unit, x)
  BY Zenon DEF Handed
<1>4. MarksIn(Limit(pc, ret, pos), undelivered, reported, "idle", unit, queue, offer)
  BY ZenonT(40), <1>2, <1>3 DEF MarksIn, UnitLast, QueueLast, OfferLast
<1> QED
  BY Zenon, <1>1, <1>4 DEF Marks

\* A new stream knows of no chunk.
LEMMA MarksStarted ==
  ASSUME offer = <<>>, StartStream
  PROVE  Marks'
<1>1. /\ queue' = <<>> /\ unit' = NoUnit /\ undelivered' = {} /\ reported' = {}
      /\ worker' = "idle" /\ offer' = <<>>
  BY Zenon DEF StartStream, loopVars
<1>2. ~NoUnit.final /\ \A i \in 1..Len(<<>>) : FALSE
  BY DEF NoUnit, LiveUnit
<1> QED
  BY Zenon, <1>1, <1>2 DEF Marks, MarksIn, UnitLast, QueueLast, OfferLast, Below

\* Every step keeps the slices before their watermark.
LEMMA MarksStep ==
  ASSUME IInv, MInv, [Next]_vars
  PROVE  MInv'
<1> SUFFICES ASSUME pc' \in StreamStates PROVE Marks'
  BY Zenon DEF MInv
<1>0. TypeOK /\ TypeOK' /\ pos \in Nat
  BY TypeStep, MarkTypes DEF IInv
<1>1. pc \in StreamStates => Marks /\ (pc = "enq" => offer # <<>>)
  BY Zenon DEF MInv, IInv, Streaming, Counted
<1>2. pc \notin StreamStates => offer = <<>>
  BY Zenon DEF IInv
<1>3. CASE StartStream
  <2>1. pc \notin StreamStates
    BY ZenonT(40), <1>3 DEF StartStream, StreamStates
  <2> QED
    BY Zenon, <1>2, <1>3, <2>1, MarksStarted
<1>4. ~(Connect \/ SetupFails \/ Quit \/ LoopStops \/ ConnectionLost \/ EnqueueFails
        \/ DrainOne \/ CloseQueue \/ EndStream \/ WorkerExits \/ Restart)
  BY ZenonT(40) DEF StreamStates, Connect, SetupFails, Quit, LoopStops, ConnectionLost, EnqueueFails,
     Leave, DrainOne, CloseQueue, EndStream, WorkerExits, Restart
<1>5. CASE ~StartStream
  <2>1. pc \in StreamStates
    <3>1. CASE Next
      <4>1. CASE Main
        BY Zenon, <1>4, <1>5, <4>1 DEF Main, StreamStates, LoopTop, ConfirmIdle, SendStatus,
           ReceiveTimeout, ReceiveKeepalive, ReceiveBoundary, ReceiveEvent, ReceiveWatermark,
           HandleMark, Enqueue
      <4>2. CASE Worker \/ Environment
        BY Zenon, <1>4, <4>2 DEF Worker, Environment, Take, HandlerSucceeds, HandlerFails,
           Acknowledge, Uncount, ServerConfirms, Stop, Cancel
      <4> QED
        BY Zenon, <3>1, <4>1, <4>2 DEF Next
    <3>2. CASE UNCHANGED vars
      BY Zenon, <3>2 DEF vars
    <3> QED
      BY Zenon, <3>1, <3>2
  <2>2. Marks /\ (pc = "enq" => offer # <<>>)
    BY Zenon, <1>1, <2>1
  <2>3. ASSUME UNCHANGED <<undelivered, reported, worker, unit, queue>>,
               offer' = offer \/ \E e, a : offer' = <<LiveUnit(e, a)>>,
               Limit(pc, ret, pos) <= Limit(pc', ret', pos')
        PROVE  Marks'
    BY Zenon, <1>0, <2>1, <2>2, <2>3, MarksKept
  <2>4. CASE LoopTop
    <3>1. UNCHANGED <<undelivered, reported, worker, unit, queue, pos>> /\ pc = "top"
      BY Zenon, <2>4 DEF LoopTop, workerVars, histVars
    <3>2. \/ pc' = "acks" /\ offer' = offer
          \/ pc' = "enq" /\ ret' = "acks" /\ offer' = <<LiveUnit(batch, pendingAck)>>
      BY Zenon, <2>4 DEF LoopTop, Flush, loopVars
    <3>3. Limit(pc, ret, pos) <= Limit(pc', ret', pos')
      BY <1>0, <3>1, <3>2 DEF Limit
    <3> QED
      BY Zenon, <2>3, <3>1, <3>2, <3>3
  <2>5. CASE ConfirmIdle \/ ReceiveTimeout \/ ReceiveKeepalive
    <3>1. UNCHANGED <<undelivered, reported, worker, unit, queue, offer, pos>>
      BY Zenon, <2>5 DEF ConfirmIdle, ReceiveTimeout, ReceiveKeepalive, workerVars, histVars,
         chanVars, loopVars
    <3>2. pc \in {"acks", "recv"} /\ pc' \in {"recv", "top", "reply"}
      BY Zenon, <2>5 DEF ConfirmIdle, ReceiveTimeout, ReceiveKeepalive
    <3>3. Limit(pc, ret, pos) <= Limit(pc', ret', pos')
      BY <1>0, <3>1, <3>2 DEF Limit
    <3> QED
      BY Zenon, <2>3, <3>1, <3>3
  <2>6. CASE SendStatus
    <3>1. UNCHANGED <<undelivered, reported, worker, unit, queue, offer, pos, ret>>
      BY Zenon, <2>6 DEF SendStatus, workerVars, histVars, chanVars, loopVars
    <3>2. pc' = pc \/ (pc = "reply" /\ pc' = "top")
      BY Zenon, <2>6 DEF SendStatus
    <3>3. Limit(pc, ret, pos) <= Limit(pc', ret', pos')
      BY <1>0, <3>1, <3>2 DEF Limit
    <3> QED
      BY Zenon, <2>3, <3>1, <3>3
  <2>7. CASE ReceiveBoundary
    <3>1. /\ UNCHANGED <<undelivered, reported, worker, unit, queue, offer>>
          /\ pos' = pos + 1 /\ pc' = "top"
      BY Zenon, <2>7 DEF ReceiveBoundary, workerVars, histVars, chanVars
    <3>2. Limit(pc, ret, pos) <= Limit(pc', ret', pos')
      BY <1>0, <3>1 DEF Limit
    <3> QED
      BY Zenon, <2>3, <3>1, <3>2
  <2>8. CASE ReceiveEvent
    <3>1. /\ UNCHANGED <<undelivered, reported, worker, unit, queue>>
          /\ pos' = pos + 1
      BY Zenon, <2>8 DEF ReceiveEvent, workerVars, histVars
    <3>2. \/ pc' \in {"top", "events"} /\ offer' = offer
          \/ /\ pc' = "enq" /\ ret' \in {"top", "events"}
             /\ offer' = <<LiveUnit(batch \cup {pos + 1}, pendingAck)>>
      BY Zenon, <2>8 DEF ReceiveEvent, Flush
    <3>3. Limit(pc, ret, pos) <= Limit(pc', ret', pos')
      BY <1>0, <3>1, <3>2 DEF Limit
    <3> QED
      BY Zenon, <2>3, <3>1, <3>2, <3>3
  <2>9. CASE ReceiveWatermark
    <3>1. /\ UNCHANGED <<undelivered, reported, worker, unit, queue>>
          /\ pos' = pos + 1 /\ pc = "recv"
      BY Zenon, <2>9 DEF ReceiveWatermark, workerVars, histVars
    <3>2. \/ offer' = offer
          \/ offer' = <<LiveUnit(batch, pendingAck)>>
      BY Zenon, <2>9 DEF ReceiveWatermark, Flush, loopVars
    <3>3. Limit(pc, ret, pos) <= Limit(pc', ret', pos')
      BY <1>0, <3>1 DEF Limit
    <3> QED
      BY Zenon, <2>3, <3>1, <3>2, <3>3
  <2>10. CASE ServerConfirms \/ Stop \/ Cancel \/ UNCHANGED vars
    <3>1. UNCHANGED <<undelivered, reported, worker, unit, queue, offer, pos, ret, pc>>
      BY Zenon, <2>10 DEF ServerConfirms, Stop, Cancel, workerVars, histVars, chanVars,
         loopVars, vars
    <3> QED
      BY Zenon, <2>2, <3>1 DEF Marks
  <2> QED
    BY Zenon, <1>0, <1>4, <1>5, <2>2, <2>4, <2>5, <2>6, <2>7, <2>8, <2>9, <2>10, MarksMarked,
       MarksEnqueued, MarksTaken, MarksHandled, MarksFailed, MarksAcknowledged, MarksUncounted
       DEF Next, Main, Worker, Environment
<1> QED
  BY Zenon, <1>3, <1>5

\* A watermark is reported only behind the rows of its chunk, while the stream
\* is up: WatermarkDelivered never completes a chunk whose rows are queued.
THEOREM WatermarkLast == Spec => []WatermarkAfterRows
<1>1. Init => MInv
  BY DEF Init, MInv, StreamStates
<1>2. IInv /\ MInv /\ [Next]_vars => MInv'
  BY Zenon, MarksStep
<1>3. MInv => WatermarkAfterRows
  BY Zenon DEF MInv, Marks, MarksIn, WatermarkAfterRows
<1> QED
  BY <1>1, <1>2, <1>3, Invariance, PTL DEF Spec

-----------------------------------------------------------------------------
(* The reader implements AtLeastOnce.                                      *)

\* Only ServerConfirms moves the slot, and to the position in the status.
LEMMA SlotOrHandled ==
  Next => \/ slot' = slot
          \/ handled' = handled /\ slot' = wire
<1> SUFFICES ASSUME Next
             PROVE  slot' = slot \/ (handled' = handled /\ slot' = wire)
  OBVIOUS
<1> USE DEF pgVars
<1>1. CASE ServerConfirms
  BY SMTT(30), <1>1 DEF ServerConfirms, Later
<1>2. CASE Main
  BY ZenonT(30), <1>2 DEF Main, Leave, Connect, SetupFails, StartStream, Quit, LoopStops,
     LoopTop, ConfirmIdle, SendStatus, ConnectionLost, ReceiveTimeout,
     ReceiveKeepalive, ReceiveBoundary, ReceiveEvent, ReceiveWatermark,
     HandleMark, Enqueue, EnqueueFails, DrainOne, CloseQueue, EndStream
<1>3. CASE Worker
  BY ZenonT(40), <1>3 DEF Worker, Take, HandlerSucceeds, HandlerFails, Acknowledge,
     Uncount, WorkerExits
<1>4. CASE Stop \/ Cancel \/ Restart
  BY <1>4 DEF Stop, Cancel, Restart
<1>5. QED
  BY <1>1, <1>2, <1>3, <1>4 DEF Next, Environment

\* A step of the reader handles events, confirms a safe position, or is
\* invisible to the contract.
LEMMA ContractStep ==
  IInv /\ IInv' /\ [Next]_vars => [Contract!Next]_<<handled, slot>>
<1> SUFFICES ASSUME IInv, IInv', [Next]_vars
             PROVE  [Contract!Next]_<<handled, slot>>
  BY SMTT(30)
<1>1. /\ handled \subseteq handled' /\ handled' \subseteq Contract!Events
      /\ slot' \in 0..Len(WAL) /\ Safe(wire)
  BY ZenonT(30), HandledStep
  DEF IInv, TypeOK, Events, Contract!Events, Positions, Contract!Positions
<1>2. CASE UNCHANGED vars
  BY <1>2 DEF vars
<1>3. CASE Next /\ slot' = slot
  <2>1. handled' = handled \cup handled' /\ handled' \in SUBSET Contract!Events
    BY <1>1
  <2>2. Contract!Handle
    BY <1>3, <2>1 DEF Contract!Handle
  <2>3. QED
    BY <2>2 DEF Contract!Next
<1>4. CASE Next /\ handled' = handled /\ slot' = wire
  <2>1. ~Contract!Open(slot') /\ Contract!Covers(handled, slot')
    BY <1>1, <1>4
    DEF Safe, Open, Contract!Open, Covers, Contract!Covers, Events,
        Contract!Events, Positions, Contract!Positions
  <2>2. Contract!Confirm
    BY <1>1, <1>4, <2>1 DEF Contract!Confirm
  <2>3. QED
    BY <2>2 DEF Contract!Next
<1>5. QED
  BY <1>2, <1>3, <1>4, SlotOrHandled

\* For every stream and every size of batch and queue the reader promises no
\* less than AtLeastOnce.
THEOREM Refinement == Spec => ImplementsContract
<1>1. Init => Contract!Init
  BY DEF Init, Contract!Init
<1>2. QED
  BY <1>1, ContractStep, Invariance, PTL
  DEF Spec, ImplementsContract, Contract!Spec
=============================================================================
