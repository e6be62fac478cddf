-------------------------- MODULE CDCServiceProofs --------------------------
(***************************************************************************)
(* The safety properties of CDCService for any number of sinks, any        *)
(* limits, any stream and any batch size, that the service implements the  *)
(* delivery contract, and that the process around it (Gateway) leaves all  *)
(* of that alone.                                                          *)
(***************************************************************************)
EXTENDS Gateway, FiniteSetTheorems, TLAPS

\* What a sink has taken of the batch in the handler.
Progress ==
  h = "work" => \A s \in Sinks :
    /\ left[s] \subseteq Batch
    /\ Batch \ left[s] \subseteq applied[s]
    /\ result[s] = "ok" => left[s] = {}

\* The handler's position in the stream and in the WaitGroup.
Handler ==
  /\ h = "idle" => inFlight = 0
  /\ h # "idle" => inFlight = 1

\* Where Stop is and what it has closed.
Stopping ==
  /\ stop # "no" => closing
  /\ shut # {} => stop \in {"sinks", "done"}
  /\ (stop \in {"reader", "sinks", "done"} /\ ~gaveUp) => h # "work"

IInv ==
  /\ TypeOK /\ Progress /\ Handler /\ Stopping
  /\ SuccessMeansEverySink /\ AcceptedInOrder

-----------------------------------------------------------------------------
\* deliver cuts in stream order: nothing left lies before the end of a piece.
LEMMA PieceIsPrefix ==
  ASSUME TypeOK, NEW s \in Sinks, NEW e \in Piece(s), NEW f \in left[s], f <= e
  PROVE  f \in Piece(s)
<1> DEFINE Upto(x) == {y \in left[s] : y <= x}
<1>1. left[s] \subseteq Events /\ IsFiniteSet(left[s])
  <2>1. IsFiniteSet(Events)
    BY FS_Interval, ServiceAssumption DEF Events
  <2> QED
    BY <2>1, FS_Subset DEF TypeOK
<1>2. CASE Limit[s] = 0
  BY <1>2 DEF Piece
<1>3. CASE Limit[s] # 0
  <2>1. e \in left[s] /\ Cardinality(Upto(e)) <= Limit[s]
    BY <1>3 DEF Piece
  <2>2. Upto(f) \subseteq Upto(e)
    BY <1>1, <2>1 DEF Events
  <2>3. IsFiniteSet(Upto(e))
    BY <1>1, FS_Subset
  <2>4. /\ IsFiniteSet(Upto(f))
        /\ Cardinality(Upto(f)) <= Cardinality(Upto(e))
    BY <2>2, <2>3, FS_Subset
  <2>5. Cardinality(Upto(f)) \in Nat /\ Cardinality(Upto(e)) \in Nat
    BY <2>3, <2>4, FS_CardinalityType
  <2>6. Limit[s] \in Nat
    BY ServiceAssumption
  <2>7. Cardinality(Upto(f)) <= Limit[s]
    BY <2>1, <2>4, <2>5, <2>6
  <2> QED
    BY <2>7 DEF Piece
<1> QED
  BY <1>2, <1>3

\* The service starts with no batch in the handler and nothing applied.
LEMMA InitHolds == Init => IInv
<1> SUFFICES ASSUME Init PROVE IInv
  OBVIOUS
<1>1. TypeOK
  <2>1. /\ left \in [Sinks -> SUBSET Events] /\ applied \in [Sinks -> SUBSET Events]
        /\ result \in [Sinks -> {"none", "ok", "failed"}]
    BY DEF Init
  <2>2. pos \in 0..NumEvents /\ hi \in 0..NumEvents /\ inFlight \in 0..1
    BY ServiceAssumption DEF ServiceAssumption, Init
  <2> QED
    BY Zenon, <2>1, <2>2 DEF Init, TypeOK
<1>2. Progress /\ Handler /\ Stopping
  BY DEF Init, Progress, Handler, Stopping
<1>3. SuccessMeansEverySink /\ AcceptedInOrder
  BY DEF Init, SuccessMeansEverySink, AcceptedInOrder
<1> QED
  BY <1>1, <1>2, <1>3 DEF IInv

-----------------------------------------------------------------------------
(* Steps that leave the handler's data alone.                              *)

Quiet ==
  \/ \E s \in Sinks : InitializeSink(s) \/ ShutdownSink(s)
  \/ StartReader \/ ReaderEnds \/ Cancel \/ StopCalled \/ Stop \/ Stopped

\* Start, Stop and the reader's end touch no batch.
LEMMA QuietStep == IInv /\ Quiet => IInv'
<1> SUFFICES ASSUME IInv, Quiet PROVE IInv'
  OBVIOUS
<1> USE DEF IInv, handlerVars, stopVars
<1>1. UNCHANGED handlerVars
  BY Zenon DEF Quiet, InitializeSink, ShutdownSink, StartReader, ReaderEnds,
     Cancel, StopCalled, Stop, StopWaited, StopGivesUp, StopJoinsReader,
     StopLeavesReader, StopReturns, Stopped, vars
<1>2. Batch' = Batch
  BY <1>1 DEF Batch, Admit
<1>3. Progress' /\ Handler'
  BY <1>1, <1>2 DEF Progress, Handler
<1>4. SuccessMeansEverySink' /\ AcceptedInOrder'
  BY <1>1 DEF SuccessMeansEverySink, AcceptedInOrder
<1>5. TypeOK' /\ Stopping'
  <2>1. ASSUME NEW s \in Sinks, InitializeSink(s) PROVE TypeOK' /\ Stopping'
    BY <2>1, <1>1 DEF InitializeSink, TypeOK, Stopping
  <2>2. ASSUME NEW s \in Sinks, ShutdownSink(s) PROVE TypeOK' /\ Stopping'
    BY <2>2, <1>1 DEF ShutdownSink, TypeOK, Stopping
  <2>3. ASSUME StartReader \/ ReaderEnds \/ Cancel PROVE TypeOK' /\ Stopping'
    BY ZenonT(40), <2>3, <1>1 DEF StartReader, ReaderEnds, Cancel, TypeOK, Stopping
  <2>4. ASSUME StopCalled PROVE TypeOK' /\ Stopping'
    BY <2>4, <1>1 DEF StopCalled, TypeOK, Stopping
  <2>5. ASSUME StopWaited PROVE TypeOK' /\ Stopping'
    BY <2>5, <1>1 DEF StopWaited, TypeOK, Stopping, Handler
  <2>6. ASSUME StopGivesUp PROVE TypeOK' /\ Stopping'
    BY <2>6, <1>1 DEF StopGivesUp, TypeOK, Stopping
  <2>7. ASSUME StopJoinsReader \/ StopLeavesReader \/ StopReturns
        PROVE  TypeOK' /\ Stopping'
    BY <2>7, <1>1 DEF StopJoinsReader, StopLeavesReader, StopReturns, TypeOK,
       Stopping
  <2>8. ASSUME Stopped PROVE TypeOK' /\ Stopping'
    BY <2>8 DEF Stopped, vars, TypeOK, Stopping
  <2> QED
    BY <2>1, <2>2, <2>3, <2>4, <2>5, <2>6, <2>7, <2>8 DEF Quiet, Stop
<1> QED
  BY <1>3, <1>4, <1>5

-----------------------------------------------------------------------------
(* handleBatch.                                                            *)

\* The reader hands a batch over and the handler joins the WaitGroup.
LEMMA EnterStep == IInv /\ HandlerEnters => IInv'
<1> SUFFICES ASSUME IInv, HandlerEnters PROVE IInv'
  OBVIOUS
<1> USE DEF IInv, HandlerEnters, stopVars
<1>1. TypeOK'
  BY DEF TypeOK, Events
<1>2. Progress' /\ Handler' /\ Stopping'
  BY DEF Progress, Handler, Stopping
<1>3. SuccessMeansEverySink' /\ AcceptedInOrder'
  BY DEF SuccessMeansEverySink, AcceptedInOrder
<1> QED
  BY <1>1, <1>2, <1>3

\* The handler filters the batch and gives every sink all of it to deliver.
LEMMA WorkStep == IInv /\ HandlerWorks => IInv'
<1> SUFFICES ASSUME IInv, HandlerWorks PROVE IInv'
  OBVIOUS
<1> USE DEF IInv, HandlerWorks, stopVars
<1>1. Batch \subseteq Events /\ Batch' = Batch
  BY ServiceAssumption DEF TypeOK, Events, Batch, Admit
<1>2. TypeOK'
  BY <1>1 DEF TypeOK
<1>3. Progress' /\ Handler'
  BY <1>1 DEF Progress, Handler
<1>4. Stopping'
  BY DEF Stopping, TypeOK
<1>5. SuccessMeansEverySink' /\ AcceptedInOrder'
  BY DEF SuccessMeansEverySink, AcceptedInOrder
<1> QED
  BY <1>2, <1>3, <1>4, <1>5

\* The handler returns; when it reports success, every sink has the batch.
LEMMA LeaveStep ==
  ASSUME IInv, NEW to \in {pos, hi}, Leaves(to), inFlight' = 0,
         UNCHANGED <<parallel, ready, cancelled, reader, applied, stopVars>>,
         to = hi => \A s \in Sinks : (1..hi) \ Excluded \subseteq applied[s]
  PROVE  IInv'
<1> USE DEF IInv, Leaves, stopVars
<1>1. TypeOK'
  BY DEF TypeOK
<1>2. Progress' /\ Handler' /\ Stopping'
  BY DEF Progress, Handler, Stopping
<1>3. SuccessMeansEverySink'
  BY DEF SuccessMeansEverySink
<1>4. AcceptedInOrder'
  BY DEF AcceptedInOrder
<1> QED
  BY <1>1, <1>2, <1>3, <1>4

\* A batch refused because the service is closing stays unhandled.
LEMMA RefuseStep == IInv /\ HandlerRefuses => IInv'
<1> SUFFICES ASSUME IInv, HandlerRefuses PROVE IInv'
  OBVIOUS
<1>1. pos = hi => \A s \in Sinks : (1..hi) \ Excluded \subseteq applied[s]
  BY DEF IInv, SuccessMeansEverySink
<1> QED
  BY <1>1, LeaveStep DEF HandlerRefuses

\* The events up to the end of the batch: those before it, the excluded ones
\* and the batch.
LEMMA UpToHi ==
  ASSUME TypeOK, NEW e \in (1..hi) \ Excluded
  PROVE  e \in (1..pos) \ Excluded \/ e \in Batch
BY DEF TypeOK, Batch, Admit

\* A batch with nothing to deliver is handled without a sink.
LEMMA SkipStep == IInv /\ HandlerSkips => IInv'
<1> SUFFICES ASSUME IInv, HandlerSkips PROVE IInv'
  OBVIOUS
<1>1. \A s \in Sinks : (1..hi) \ Excluded \subseteq applied[s]
  BY UpToHi DEF IInv, SuccessMeansEverySink, HandlerSkips
<1> QED
  BY <1>1, LeaveStep DEF HandlerSkips

\* The handler reports success only when every sink's result is ok.
LEMMA ReturnStep == IInv /\ HandlerReturns => IInv'
<1> SUFFICES ASSUME IInv, HandlerReturns PROVE IInv'
  OBVIOUS
<1> DEFINE to == IF \A s \in Sinks : result[s] = "ok" THEN hi ELSE pos
<1>1. to = hi => \A s \in Sinks : (1..hi) \ Excluded \subseteq applied[s]
  <2>1. CASE \A s \in Sinks : result[s] = "ok"
    <3>1. \A s \in Sinks : Batch \subseteq applied[s]
      BY <2>1 DEF IInv, Progress, HandlerReturns
    <3> QED
      BY <3>1, UpToHi DEF IInv, SuccessMeansEverySink
  <2>2. CASE ~ \A s \in Sinks : result[s] = "ok"
    BY <2>2 DEF IInv, SuccessMeansEverySink
  <2> QED
    BY <2>1, <2>2
<1>2. /\ to \in {pos, hi} /\ Leaves(to) /\ inFlight' = 0
      /\ UNCHANGED <<parallel, ready, cancelled, reader, applied, stopVars>>
  BY DEF HandlerReturns
<1> QED
  BY <1>1, <1>2, LeaveStep

\* A sink accepts the next piece, which is a prefix of what it was left.
LEMMA AcceptStep ==
  ASSUME IInv, NEW s \in Sinks, SinkAccepts(s)
  PROVE  IInv'
<1> USE DEF IInv, stopVars
<1>1. /\ h = "work" /\ left[s] \subseteq Batch /\ Piece(s) \subseteq left[s]
      /\ Batch \ left[s] \subseteq applied[s] /\ left[s] \subseteq Events
  BY DEF SinkAccepts, Turn, Progress, Piece, TypeOK
<1>2. Batch' = Batch
  BY DEF SinkAccepts, Batch, Admit
<1>3. TypeOK'
  BY <1>1 DEF SinkAccepts, TypeOK
<1>4. Progress'
  BY <1>1, <1>2 DEF SinkAccepts, Progress, TypeOK
<1>5. Handler' /\ Stopping'
  BY <1>1 DEF SinkAccepts, Handler, Stopping
<1>6. SuccessMeansEverySink'
  BY DEF SinkAccepts, SuccessMeansEverySink, TypeOK
<1>7. AcceptedInOrder'
  <2> SUFFICES ASSUME NEW e \in Piece(s), NEW f \in 1..(e - 1),
                      f \notin Excluded
               PROVE  f \in applied[s] \/ f \in Piece(s)
    BY DEF SinkAccepts, AcceptedInOrder, TypeOK
  <2>1. e \in Nat /\ e <= hi /\ f \in Nat /\ f <= e
    BY <1>1 DEF Batch, Admit, TypeOK, Events
  <2>2. f \in (1..hi) \ Excluded
    BY <2>1 DEF TypeOK
  <2>3. CASE f \in (1..pos) \ Excluded
    BY <2>3 DEF SuccessMeansEverySink
  <2>4. CASE f \in left[s]
    BY <2>1, <2>4, PieceIsPrefix
  <2> QED
    BY <1>1, <2>2, <2>3, <2>4, UpToHi
<1> QED
  BY <1>3, <1>4, <1>5, <1>6, <1>7

\* A sink that fails keeps what it accepted and fails the batch.
LEMMA FailStep ==
  ASSUME IInv, NEW s \in Sinks, SinkFails(s)
  PROVE  IInv'
<1> USE DEF IInv, SinkFails, Turn, stopVars
<1>1. TypeOK'
  BY DEF TypeOK
<1>2. Batch' = Batch
  BY DEF Batch, Admit
<1>3. Progress'
  BY <1>2 DEF Progress, TypeOK
<1>4. Handler' /\ Stopping'
  BY DEF Handler, Stopping
<1>5. SuccessMeansEverySink' /\ AcceptedInOrder'
  BY DEF SuccessMeansEverySink, AcceptedInOrder
<1> QED
  BY <1>1, <1>3, <1>4, <1>5

-----------------------------------------------------------------------------
\* Every step keeps the inductive invariant.
LEMMA NextHolds == IInv /\ [Next]_vars => IInv'
<1> SUFFICES ASSUME IInv, [Next]_vars PROVE IInv'
  OBVIOUS
<1>1. CASE UNCHANGED vars
  BY <1>1 DEF IInv, vars, handlerVars, stopVars, TypeOK, Progress, Batch,
     Admit, Handler, Stopping, SuccessMeansEverySink, AcceptedInOrder
<1>2. CASE Quiet
  BY <1>2, QuietStep
<1>3. CASE \E s \in Sinks : SinkAccepts(s) \/ SinkFails(s)
  BY <1>3, AcceptStep, FailStep
<1>4. CASE \/ HandlerEnters \/ HandlerRefuses \/ HandlerSkips
           \/ HandlerWorks \/ HandlerReturns
  BY <1>4, EnterStep, RefuseStep, SkipStep, WorkStep, ReturnStep
<1> QED
  BY <1>1, <1>2, <1>3, <1>4 DEF Next, Quiet

\* The inductive invariant holds.
LEMMA Invariance == Spec => []IInv
BY InitHolds, NextHolds, PTL DEF Spec

\* handleBatch reports as handled only what every sink accepted.
THEOREM Success == Spec => []SuccessMeansEverySink
<1>1. IInv => SuccessMeansEverySink
  BY DEF IInv
<1> QED
  BY <1>1, Invariance, PTL

\* Every sink accepts the admitted events in stream order, whatever its
\* limit and however often batches fail.
THEOREM InOrder == Spec => []AcceptedInOrder
<1>1. IInv => AcceptedInOrder
  BY DEF IInv
<1> QED
  BY <1>1, Invariance, PTL

\* No sink is called after its Shutdown unless Stop gave up waiting.
THEOREM ShutdownIsLast == Spec => []NoCallAfterShutdown
<1>1. IInv => NoCallAfterShutdown
  BY DEF IInv, Stopping, NoCallAfterShutdown
<1> QED
  BY <1>1, Invariance, PTL

-----------------------------------------------------------------------------
(* The service implements the delivery contract.                           *)

Processed == {e \in Events \ Excluded : \A s \in Sinks : e \in applied[s]}
Messages == [e \in Events |-> IF e \in Excluded THEN "other" ELSE "event"]

\* The contract's stream is the service's: its events are the admitted ones,
\* and no position is inside a transaction.
LEMMA ContractStream ==
  /\ Len(Messages) = NumEvents
  /\ Contract!Events = Events \ Excluded
  /\ \A n \in 0..NumEvents : ~Contract!Open(n)
<1>1. NumEvents \in Nat
  BY ServiceAssumption DEF ServiceAssumption
<1>2. Len(Messages) = NumEvents
  BY <1>1 DEF Messages, Events
<1>3. Contract!Events = Events \ Excluded
  BY <1>1, <1>2 DEF Contract!Events, Contract!Positions, Messages, Events
<1>4. ASSUME NEW n \in 0..NumEvents PROVE ~Contract!Open(n)
  <2>1. \A b \in 1..n : b \in Events
    BY <1>1 DEF Events
  <2> QED
    BY Zenon, <2>1 DEF Contract!Open
<1> QED
  BY <1>2, <1>3, <1>4

\* What was processed stays so, and the position moves only over events
\* every sink has processed.
LEMMA ContractStep ==
  IInv /\ IInv' /\ [Next]_vars => [Contract!Next]_<<Processed, pos>>
<1> SUFFICES ASSUME IInv, IInv', [Next]_vars
             PROVE  [Contract!Next]_<<Processed, pos>>
  OBVIOUS
<1>1. \/ pos' = pos /\ \A s \in Sinks : applied[s] \subseteq applied'[s]
      \/ applied' = applied
  <2>1. CASE \E s \in Sinks : SinkAccepts(s)
    BY SMTT(30), <2>1 DEF SinkAccepts, IInv, TypeOK
  <2>2. CASE ~ \E s \in Sinks : SinkAccepts(s)
    BY <2>2 DEF Next, vars, handlerVars, InitializeSink, SinkFails,
       ShutdownSink, StartReader, ReaderEnds, HandlerEnters, HandlerRefuses,
       HandlerSkips, HandlerWorks, HandlerReturns, Cancel, StopCalled, Stop,
       StopWaited, StopGivesUp, StopJoinsReader, StopLeavesReader,
       StopReturns, Stopped
  <2> QED
    BY <2>1, <2>2
<1>2. CASE pos' = pos /\ \A s \in Sinks : applied[s] \subseteq applied'[s]
  <2>1. Processed \subseteq Processed' /\ Processed' \subseteq Events \ Excluded
    BY <1>2 DEF Processed
  <2>2. /\ Processed' = Processed \cup Processed'
        /\ Processed' \in SUBSET Contract!Events
    BY <2>1, ContractStream
  <2>3. Contract!Handle
    BY Zenon, <1>2, <2>2 DEF Contract!Handle, Processed
  <2> QED
    BY <2>3 DEF Contract!Next
<1>3. CASE applied' = applied
  <2>1. Processed' = Processed
    BY <1>3 DEF Processed
  <2>2. pos' \in 0..NumEvents /\ \A e \in Events \ Excluded :
                                   e <= pos' => e \in Processed
    BY <1>3 DEF IInv, TypeOK, SuccessMeansEverySink, Processed, Events
  <2>3. Contract!Covers(Processed, pos')
    BY <2>2, ContractStream DEF Contract!Covers
  <2>4. Contract!Confirm
    BY Zenon, <2>1, <2>2, <2>3, ContractStream DEF Contract!Confirm, Messages, Processed
  <2> QED
    BY <2>4 DEF Contract!Next
<1> QED
  BY <1>1, <1>2, <1>3

\* The service, when it has a sink, is a correct handler for the WAL reader:
\* every behaviour of it is one of the delivery contract.  (Without sinks
\* nothing is left to process and the contract's Init is not met.)
THEOREM ServiceRefinement ==
  ASSUME Sinks # {} PROVE Spec => ServiceImplementsContract
<1>1. Init => Contract!Init
  BY DEF Init, Contract!Init
<1>2. IInv /\ IInv' /\ [Next]_vars =>
        [Contract!Next]_<<{e \in Events \ Excluded :
                             \A s \in Sinks : e \in applied[s]}, pos>>
  BY ContractStep DEF Processed
<1> QED
  BY <1>1, <1>2, Invariance, PTL
  DEF Spec, ServiceImplementsContract, Contract!Spec
-----------------------------------------------------------------------------
(* The process around the service.                                         *)

\* The monitor and the HTTP server read the service's state and change none
\* of it: the process takes the service's steps, or steps the service does
\* not see.  What is proved of the service holds in the process.
THEOREM ServiceInGateway == GatewaySpec => Spec
<1>1. GatewayInit => Init
  BY DEF GatewayInit
<1>2. [GatewayNext]_gatewayVars => [Next]_vars
  BY Zenon DEF GatewayNext, gatewayVars, Health, DestinationChanges, StreamChanges,
     MonitorProbes, MonitorSets, MonitorEnds, ServerStops
<1> QED
  BY <1>1, <1>2, PTL DEF GatewaySpec, Spec

\* A step of the monitor, the HTTP server or the environment keeps their types.
LEMMA HealthTypes ==
  ASSUME GatewayTypeOK, TypeOK', [GatewayNext]_gatewayVars
  PROVE  GatewayTypeOK'
<1>1. CASE UNCHANGED healthVars
  BY Zenon, <1>1 DEF GatewayTypeOK, healthVars
<1>2. CASE DestinationChanges \/ StreamChanges
  BY Zenon, <1>2 DEF GatewayTypeOK, DestinationChanges, StreamChanges
<1>3. CASE MonitorProbes
  <2>1. seen' \in BOOLEAN
    BY Zenon, <1>3 DEF MonitorProbes, Probes
  <2> QED
    BY Zenon, <1>3, <2>1 DEF GatewayTypeOK, MonitorProbes
<1>4. CASE MonitorSets
  BY Zenon, <1>4 DEF GatewayTypeOK, MonitorSets
<1>5. CASE MonitorEnds \/ ServerStops
  BY Zenon, <1>5 DEF GatewayTypeOK, MonitorEnds, ServerStops
<1> QED
  BY Zenon, <1>1, <1>2, <1>3, <1>4, <1>5 DEF GatewayNext, Health, gatewayVars

\* Types in the whole process: at most one batch is in the handler, positions
\* stay inside the stream, what the sinks have are events of it.
THEOREM GatewayTyped == GatewaySpec => []GatewayTypeOK
<1>1. GatewayInit /\ IInv => GatewayTypeOK
  BY Zenon DEF GatewayInit, GatewayTypeOK, IInv
<1>2. GatewayTypeOK /\ IInv' /\ [GatewayNext]_gatewayVars => GatewayTypeOK'
  BY Zenon, HealthTypes DEF IInv
<1> QED
  BY <1>1, <1>2, ServiceInGateway, Invariance, PTL DEF GatewaySpec

=============================================================================
