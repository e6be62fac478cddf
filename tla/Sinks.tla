-------------------------------- MODULE Sinks --------------------------------
(***************************************************************************)
(* One sink's Process under at-least-once delivery                         *)
(* (adapters/secondary).  The pipeline in front of it is seen through the  *)
(* calls it makes: batches that start behind what the sink accepted, again *)
(* after an error, and from the confirmed position after a replay or a     *)
(* restart.  Batches are cut by size and by time, so a replay may cut the  *)
(* stream differently.  An event that fails alone with a permanent error   *)
(* is parked by the dead-letter queue.                                     *)
(*                                                                         *)
(* A call that returned an error has no effect afterwards, except the      *)
(* Meilisearch tasks it enqueued.  Event ids are positions: two events     *)
(* never share one.                                                        *)
(***************************************************************************)
EXTENDS Documents, FiniteSets

CONSTANTS
  Sources,        \* pairs of a sink and the stream of events it is given
  InitialDocs,    \* documents mirrored before the stream
  Recuts,         \* sinks for which a replay may cut the stream differently
  PublishWindow,  \* NATS: messages awaiting an ack at once
  MaxFaults       \* bound: errors, replays and restarts

Mirrors    == {"meili", "json"}
Pipelined  == {"json", "stream", "outbox"}
Publishers == {"stream", "outbox", "nats", "webhook"}

ASSUME SinksAssumption ==
  /\ \A s \in Sources : s[1] \in Mirrors \cup Publishers /\ Len(s[2]) \in Nat
  /\ Recuts \subseteq Mirrors \cup Publishers
  /\ PublishWindow \in Nat \ {0} /\ MaxFaults \in Nat

VARIABLES
  sink, stream,  \* which sink, and its events (fixed)
  cuts,          \* where this session's batches end
  done,          \* the sink accepted events 1..done in this session
  confirmed,     \* the slot's position
  reached,       \* history: end of the longest batch ever started
  parked,        \* events in the dead-letter queue
  pc,            \* where Process is
  to,            \* the batch is done + 1 .. to
  result,        \* of the last call, or replayed: no call since the replay
  work,          \* Meilisearch: uids of the tasks of this call
  pending,       \* Meilisearch: the batch whose wait was interrupted
  tasks,         \* the server's tasks, by uid
  docs,          \* the documents the mirror holds
  sent,          \* NATS: messages of the batch in acknowledged windows
  log,           \* what was published, by position, in order
  seen, expired, \* JetStream's duplicate window; history: it passed once
  rows,          \* outbox rows still in the table
  faults

driverVars == <<sink, stream, cuts, done, confirmed, reached, parked>>
meiliVars  == <<work, pending, tasks>>
pubVars    == <<sent, log, seen, expired, rows>>
vars == <<driverVars, pc, to, result, meiliVars, docs, pubVars, faults>>

NoBatch == <<>>

TypeOK ==
  /\ done \in 0..Len(stream) /\ confirmed \in 0..reached
  /\ reached \in 0..Len(stream) /\ to \in 0..Len(stream)
  /\ parked \subseteq 1..reached
  /\ pc \in {"idle", "enqueue", "await", "exec", "delete", "window", "post"}
  /\ pc # "idle" => to \in done + 1 .. reached
  /\ cuts \subseteq 0..Len(stream)
  /\ result \in {"ok", "error", "permanent", "replayed"}
  /\ \A i \in 1..Len(work) : work[i] \in 1..Len(tasks)
  /\ pending = NoBatch \/ \A i \in 1..Len(pending.tasks) :
                             pending.tasks[i] \in 1..Len(tasks)
  /\ \A u \in 1..Len(tasks) :
       tasks[u].status \in {"enqueued", "succeeded", "failed", "rejected", "gone"}
  /\ \A i \in 1..Len(log) : log[i] \in 1..reached
  /\ sent \subseteq 1..reached
  /\ seen \subseteq Range(log) /\ expired \in BOOLEAN
  /\ rows \subseteq 1..Len(stream) /\ faults \in 0..MaxFaults

\* The ways to cut the stream into batches.
Cuttings == {C \cup {Len(stream)} : C \in SUBSET (1..Len(stream) - 1)}

Init ==
  /\ \E s \in Sources : sink = s[1] /\ stream = s[2]
  /\ cuts \in Cuttings
  /\ done = 0 /\ confirmed = 0 /\ reached = 0 /\ parked = {}
  /\ pc = "idle" /\ to = 0 /\ result = "ok"
  /\ work = <<>> /\ pending = NoBatch /\ tasks = <<>>
  /\ docs = InitialDocs
  /\ sent = {} /\ log = <<>> /\ seen = {} /\ expired = FALSE
  /\ rows = 1..Len(stream)
  /\ faults = 0

------------------------------------------------------------------------------
\* Process returns.  A nil error is acceptance of the whole batch.
Return(r) ==
  /\ pc' = "idle" /\ result' = r
  /\ done' = IF r = "ok" THEN to ELSE done
  /\ UNCHANGED <<sink, stream, cuts, confirmed, reached, parked, to>>

Fault == faults < MaxFaults /\ faults' = faults + 1

\* Positions of the batch n..m that pass the layers.  The outbox takes only
\* inserts.
Passes(p) == stream[p].keep /\ (sink = "outbox" => stream[p].op = "insert")
Kept(n, m) == {p \in n..m : Passes(p)}

\* The batch as a mirror is handed it.
Batch(n, m) == Layers(SubSeq(stream, n, m))

\* The positions S, in the order of the stream.
InOrder(S) ==
  {t \in UNION {[1..n -> S] : n \in 0..Len(stream)} :
     Range(t) = S /\ \A i, j \in DOMAIN t : i < j => t[i] < t[j]}

\* Events whose data the sink refuses: no value for the primary key, a key or
\* subject that cannot be rendered, no topic or payload.
NoDocument(e) == e.key = NoKey /\ e.op \in Writes
NoRedisKey(e) == e.key = NoKey /\ ~(sink = "json" /\ e.op = "truncate")
NoMessage(e)  == e.key = NoKey

\* One such event makes the sink refuse the batch before it sends anything.
Refuses(n, m) ==
  \E p \in n..m :
    /\ Passes(p)
    /\ CASE sink = "meili"                       -> NoDocument(stream[p])
         [] sink \in {"json", "stream", "nats"}  -> NoRedisKey(stream[p])
         [] sink = "outbox"                      -> NoMessage(stream[p])
         [] sink = "webhook"                     -> FALSE

\* batchKey: length, first and last event id.
BatchKey(n, m) ==
  <<Cardinality(Kept(n, m)), Min(Kept(n, m)), Max(Kept(n, m))>>

Resumable(n, m) == pending # NoBatch /\ pending.key = BatchKey(n, m)

\* What is left to do after the layers: nothing, or the sink's first step.
Entry(n, m) ==
  CASE sink = "meili"      -> IF Resumable(n, m) THEN "await" ELSE "enqueue"
    [] sink \in Pipelined  -> "exec"
    [] sink = "nats"       -> "window"
    [] sink = "webhook"    -> "post"

\* Nothing to send: no event passed, or none yields a task or a command.
Empty(n, m) ==
  \A p \in n..m : Passes(p) =>
    CASE sink = "meili" -> ~Planned(stream[p])
      [] sink = "json"  -> stream[p].op = "truncate"
      [] OTHER          -> FALSE

\* Where the batch ends: at the next cut; the same place again after an
\* error; half-way when it was refused.  A webhook takes one event at a time.
Ends ==
  IF sink = "webhook" THEN {done + 1}
  ELSE CASE result = "error"     -> {to}
         [] result = "permanent" -> {done + (to - done) \div 2}
         [] OTHER -> {m \in cuts : m > done /\ \A c \in cuts : c > done => m <= c}

\* The pipeline calls Process with the events done + 1 .. to'.
Call ==
  /\ pc = "idle" /\ done < Len(stream)
  /\ ~(result = "permanent" /\ to = done + 1)
  /\ to' \in Ends /\ reached' = IF to' > reached THEN to' ELSE reached
  /\ sent' = {}
  /\ \/ /\ Refuses(done + 1, to')
        /\ result' = "permanent" /\ UNCHANGED <<pc, done, work>>
     \/ /\ ~Refuses(done + 1, to') /\ Empty(done + 1, to')
        /\ result' = "ok" /\ done' = to' /\ UNCHANGED <<pc, work>>
     \/ /\ ~Refuses(done + 1, to') /\ ~Empty(done + 1, to')
        /\ pc' = Entry(done + 1, to') /\ UNCHANGED <<result, done>>
        /\ work' = IF pc' = "await" THEN pending.tasks ELSE <<>>
  /\ UNCHANGED <<sink, stream, cuts, confirmed, parked, pending, tasks, docs, log,
                 seen, expired, rows, faults>>

------------------------------------------------------------------------------
\* Meilisearch.

Enqueued(run) == Append(tasks, [run |-> run, status |-> "enqueued"])

\* The server cannot take a document of the run.
Rejected(run) ==
  \E at \in DOMAIN run.docs : \E c \in DOMAIN run.docs[at] :
    run.docs[at][c] = "bad"

\* The next run is enqueued; after the last one the batch is remembered and
\* its wait begins.
Enqueue ==
  LET plan == Plan(Batch(done + 1, to))
      uids == Append(work, Len(tasks) + 1)
  IN
  /\ pc = "enqueue"
  /\ tasks' = Enqueued(plan[Len(work) + 1])
  /\ work' = uids
  /\ IF Len(uids) = Len(plan)
       THEN /\ pc' = "await"
            /\ pending' = [key |-> BatchKey(done + 1, to), tasks |-> uids]
       ELSE UNCHANGED <<pc, pending>>
  /\ UNCHANGED <<driverVars, to, result, docs, pubVars, faults>>

\* Slip: the run is remembered before the answer.
EnqueueFailsRemembered ==
  /\ pc = "enqueue" /\ Fault
  /\ tasks' \in {tasks, Enqueued(Plan(Batch(done + 1, to))[Len(work) + 1])}
  /\ pending' = [key |-> BatchKey(done + 1, to),
                 tasks |-> Append(work, Len(tasks) + 1)]
  /\ Return("error")
  /\ UNCHANGED <<work, docs, pubVars>>

\* The request fails, or its answer is lost: nothing is remembered.
EnqueueFails ==
  /\ pc = "enqueue" /\ Fault
  /\ tasks' \in {tasks, Enqueued(Plan(Batch(done + 1, to))[Len(work) + 1])}
  /\ Return("error")
  /\ UNCHANGED <<work, pending, docs, pubVars>>

\* The payload is refused at once (classifyAPIError).
EnqueueRefused ==
  /\ pc = "enqueue" /\ Rejected(Plan(Batch(done + 1, to))[Len(work) + 1])
  /\ Return("permanent")
  /\ UNCHANGED <<meiliVars, docs, pubVars, faults>>

\* The server runs its tasks in the order of their uids.
TaskRuns ==
  \E u \in 1..Len(tasks) :
    /\ tasks[u].status = "enqueued"
    /\ \A v \in 1..u - 1 : tasks[v].status # "enqueued"
    /\ \/ /\ ~Rejected(tasks[u].run)
          /\ tasks' = [tasks EXCEPT ![u].status = "succeeded"]
          /\ docs' = ApplyTask(docs, tasks[u].run)
          /\ UNCHANGED faults
       \/ /\ Rejected(tasks[u].run)
          /\ tasks' = [tasks EXCEPT ![u].status = "rejected"]
          /\ UNCHANGED <<docs, faults>>
       \/ /\ Fault
          /\ tasks' = [tasks EXCEPT ![u].status = "failed"]
          /\ UNCHANGED docs
    /\ UNCHANGED <<driverVars, pc, to, result, work, pending, pubVars>>

\* The server prunes its finished tasks.
TasksPruned ==
  /\ Fault
  /\ \E u \in 1..Len(tasks) : tasks[u].status \notin {"enqueued", "gone"}
  /\ tasks' = [u \in 1..Len(tasks) |->
                 IF tasks[u].status = "enqueued" THEN tasks[u]
                 ELSE [tasks[u] EXCEPT !.status = "gone"]]
  /\ UNCHANGED <<driverVars, pc, to, result, work, pending, docs, pubVars>>

Status(i) == tasks[work[i]].status

\* forget, which keeps another batch's tasks.
Forget ==
  pending' = IF pending # NoBatch /\ pending.key = BatchKey(done + 1, to)
             THEN NoBatch ELSE pending

\* Slip: a batch whose tasks are lost stays remembered.
AwaitLostKept ==
  /\ pc = "await" /\ \E i \in 1..Len(work) : Status(i) = "gone"
  /\ Return("error")
  /\ UNCHANGED <<work, pending, tasks, docs, pubVars, faults>>

\* A poll does not know all the tasks: errTasksLost.
AwaitLost ==
  /\ pc = "await" /\ \E i \in 1..Len(work) : Status(i) = "gone"
  /\ Forget /\ Return("error")
  /\ UNCHANGED <<work, tasks, docs, pubVars, faults>>

\* A poll finds every task finished; the first failure is reported.
AwaitDone ==
  LET bad == {i \in 1..Len(work) : Status(i) \in {"failed", "rejected"}}
  IN
  /\ pc = "await"
  /\ \A i \in 1..Len(work) : Status(i) \notin {"enqueued", "gone"}
  /\ Return(IF bad = {} THEN "ok"
            ELSE IF Status(CHOOSE i \in bad : \A j \in bad : i <= j) = "rejected"
            THEN "permanent" ELSE "error")
  /\ Forget
  /\ UNCHANGED <<work, tasks, docs, pubVars, faults>>

\* The poll fails or the attempt's time is up: the tasks stay remembered.
AwaitInterrupted ==
  /\ pc = "await" /\ Fault /\ Return("error")
  /\ UNCHANGED <<work, pending, tasks, docs, pubVars>>

------------------------------------------------------------------------------
\* Redis: RedisJSON, streams, outbox.

\* The commands of a batch are those of its events; the ones of S run, in
\* order.
Commands == Kept(done + 1, to)
Runs(S) ==
  \E t \in InOrder(S) :
    IF sink = "json"
    THEN /\ docs' = Folded(ApplyCommand, docs,
                           [i \in DOMAIN t |-> Transformed(stream[t[i]])])
         /\ UNCHANGED log
    ELSE log' = log \o t /\ UNCHANGED docs

\* Slip: a retry sends only what did not run before.
ExecDoneRest ==
  /\ pc = "exec"
  /\ Runs({p \in Commands : p \notin Range(log)})
  /\ IF sink = "outbox"
       THEN pc' = "delete" /\ UNCHANGED <<driverVars, to, result>>
       ELSE Return("ok")
  /\ UNCHANGED <<meiliVars, sent, seen, expired, rows, faults>>

\* pipe.Exec returns nil.  The outbox then deletes what it published.
ExecDone ==
  /\ pc = "exec" /\ Runs(Commands)
  /\ IF sink = "outbox"
       THEN pc' = "delete" /\ UNCHANGED <<driverVars, to, result>>
       ELSE Return("ok")
  /\ UNCHANGED <<meiliVars, sent, seen, expired, rows, faults>>

\* Slip: the outbox deletes its rows whatever Exec returned.
ExecFailsDeleting ==
  /\ pc = "exec" /\ Fault
  /\ \E m \in done..to : Runs(Kept(done + 1, m))
  /\ IF sink = "outbox"
       THEN pc' = "delete" /\ UNCHANGED <<driverVars, to, result>>
       ELSE Return("error")
  /\ UNCHANGED <<meiliVars, sent, seen, expired, rows>>

\* Exec returns an error: the connection broke behind a command, or one
\* command failed and the others ran.
ExecFails ==
  /\ pc = "exec" /\ Fault
  /\ \/ \E m \in done..to : Runs(Kept(done + 1, m))
     \/ \E p \in Commands : Runs(Commands \ {p})
  /\ Return("error")
  /\ UNCHANGED <<meiliVars, sent, seen, expired, rows>>

\* deleteRows; a failure leaves the rows behind.
DeleteRows ==
  /\ pc = "delete"
  /\ \/ rows' = rows \ Kept(done + 1, to) /\ UNCHANGED faults
     \/ UNCHANGED rows /\ Fault
  /\ Return("ok")
  /\ UNCHANGED <<meiliVars, docs, sent, log, seen, expired>>

------------------------------------------------------------------------------
\* NATS JetStream.

Messages == Kept(done + 1, to)
Window ==
  {p \in Messages \ sent :
     Cardinality({q \in Messages \ sent : q < p}) < PublishWindow}

\* Slip: messages carry no id.
PersistAll(S) ==
  /\ \E t \in InOrder(S) : log' = log \o t
  /\ seen' = seen \cup S

\* The server stores the messages S that it has not seen before.
Persist(S) ==
  /\ \E t \in InOrder(S \ seen) : log' = log \o t
  /\ seen' = seen \cup S

\* Every publish of a window is acknowledged; the batch succeeds with the
\* last window.
WindowAcked ==
  /\ pc = "window" /\ Persist(Window)
  /\ sent' = sent \cup Window
  /\ IF Messages \subseteq sent' THEN Return("ok")
     ELSE UNCHANGED <<driverVars, pc, to, result>>
  /\ UNCHANGED <<meiliVars, docs, expired, rows, faults>>

\* Slip: a failed ack is not looked at.
WindowFailsQuietly ==
  /\ pc = "window" /\ Fault
  /\ \E S \in SUBSET Window : Persist(S)
  /\ Return("ok")
  /\ UNCHANGED <<meiliVars, docs, sent, expired, rows>>

\* A publish or an ack fails, or the time is up: any of the window's messages
\* may have been stored.
WindowFails ==
  /\ pc = "window" /\ Fault
  /\ \E S \in SUBSET Window : Persist(S)
  /\ Return("error")
  /\ UNCHANGED <<meiliVars, docs, sent, expired, rows>>

\* The duplicate window passes.
WindowExpires ==
  /\ seen # {} /\ Fault
  /\ seen' = {} /\ expired' = TRUE
  /\ UNCHANGED <<driverVars, pc, to, result, meiliVars, docs, sent, log, rows>>

------------------------------------------------------------------------------
\* Webhook.

\* The receiver answers 2xx, or rejects the payload.
PostAnswered ==
  /\ pc = "post"
  /\ IF stream[to].key = NoKey
       THEN Return("permanent") /\ UNCHANGED log
       ELSE Return("ok") /\ log' = Append(log, to)
  /\ UNCHANGED <<meiliVars, docs, sent, seen, expired, rows, faults>>

\* Any other answer, none, or one that is lost.
PostFails ==
  /\ pc = "post" /\ Fault
  /\ log' \in {log} \cup
       (IF stream[to].key = NoKey THEN {} ELSE {Append(log, to)})
  /\ Return("error")
  /\ UNCHANGED <<meiliVars, docs, sent, seen, expired, rows>>

------------------------------------------------------------------------------
\* The pipeline.

\* The dead-letter queue parks an event that fails alone.
Park ==
  /\ pc = "idle" /\ result = "permanent" /\ to = done + 1
  /\ parked' = parked \cup {to} /\ done' = to /\ result' = "ok"
  /\ UNCHANGED <<sink, stream, cuts, confirmed, reached, pc, to, meiliVars,
                 docs, pubVars, faults>>

\* The reader confirms what it cut as a batch, once all of it is accepted.
Confirm ==
  /\ pc = "idle" /\ confirmed < done /\ done \in cuts /\ confirmed' = done
  /\ UNCHANGED <<sink, stream, cuts, done, reached, parked, pc, to, result,
                 meiliVars, docs, pubVars, faults>>

Recut == cuts' \in IF sink \in Recuts THEN Cuttings ELSE {cuts}

\* The stream breaks and starts again at the confirmed position.
Replay ==
  /\ pc = "idle" /\ Fault /\ done' = confirmed /\ result' = "replayed"
  /\ Recut
  /\ UNCHANGED <<sink, stream, confirmed, reached, parked, pc, to, meiliVars,
                 docs, pubVars>>

\* The process stops anywhere and starts again.
Restart ==
  /\ Fault /\ pc' = "idle" /\ result' = "replayed" /\ done' = confirmed
  /\ work' = <<>> /\ pending' = NoBatch /\ Recut
  /\ UNCHANGED <<sink, stream, confirmed, reached, parked, to, tasks, docs,
                 pubVars>>

Next ==
  \/ Call \/ Enqueue \/ EnqueueFails \/ EnqueueRefused
  \/ TaskRuns \/ TasksPruned
  \/ AwaitLost \/ AwaitDone \/ AwaitInterrupted
  \/ ExecDone \/ ExecFails \/ DeleteRows
  \/ WindowAcked \/ WindowFails \/ WindowExpires
  \/ PostAnswered \/ PostFails
  \/ Park \/ Confirm \/ Replay \/ Restart

\* A call that can move, a server with a task and a pipeline with something to
\* deliver, isolate or confirm do not all stand still; the loop that enqueues
\* the runs ends (each request is answered or times out).
Fairness ==
  /\ WF_vars(\/ Call \/ TaskRuns \/ AwaitLost \/ AwaitDone
             \/ ExecDone \/ DeleteRows \/ WindowAcked \/ PostAnswered
             \/ Park \/ Confirm)
  /\ []<>(pc # "enqueue")

Spec == Init /\ [][Next]_vars
FairSpec == Spec /\ Fairness

------------------------------------------------------------------------------
\* The last call was accepted, and nothing beyond it was ever started.
CaughtUp == pc = "idle" /\ result = "ok" /\ done >= reached

\* The events the mirror owes: not parked, not filtered; TRUNCATE is not
\* supported by RedisJSON.
Owed ==
  Layers([i \in 1..done |->
            [stream[i] EXCEPT !.keep =
               @ /\ i \notin parked
                 /\ ~(sink = "json" /\ stream[i].op = "truncate")]])

(***************************************************************************)
(* When a mirroring sink accepted everything it was ever given, its        *)
(* documents are those of the table, transformed, without the parked       *)
(* events: whatever was merged, replayed, cut otherwise, executed in part  *)
(* or waited for twice, the later event wins (domain.Sink).                *)
(***************************************************************************)
MirrorIsCurrent ==
  sink \in Mirrors /\ CaughtUp =>
    Visible(docs) = Visible(Replayed(InitialDocs, Owed))

(***************************************************************************)
(* Every event a publishing sink accepted, or the slot moved past, was     *)
(* published or is parked (or is filtered).                                *)
(***************************************************************************)
AcceptedIsPublished ==
  sink \in Publishers =>
    \A p \in 1..Len(stream) :
      (p <= done \/ p <= confirmed) /\ Passes(p) =>
        p \in Range(log) \cup parked

(***************************************************************************)
(* A consumer that keeps the latest copy of each event has them in stream  *)
(* order once the sink caught up (all publishers but JetStream, which      *)
(* drops the later copies).                                                *)
(***************************************************************************)
LatestInOrder ==
  sink \in Publishers \ {"nats"} /\ CaughtUp =>
    \A p, q \in Range(log) : p < q =>
      \E i \in DOMAIN log : log[i] = q /\ \A j \in DOMAIN log : log[j] = p => j < i

(***************************************************************************)
(* Within the duplicate window JetStream holds each event once, however    *)
(* often it is published (message id, publishWindow).                      *)
(***************************************************************************)
StoredOnce == sink = "nats" /\ ~expired => IsInjective(log)

(***************************************************************************)
(* The outbox loses no message: a row is gone from the table only if it    *)
(* was published, through failures and restarts between the two.           *)
(***************************************************************************)
DeletedWasPublished == \A p \in 1..Len(stream) : p \notin rows => p \in Range(log)

(***************************************************************************)
(* Once faults cease the stream is delivered and confirmed to its end: no  *)
(* batch waits for tasks that are lost, no refused event blocks the rest.  *)
(***************************************************************************)
AllConfirmed == <>[](confirmed = Len(stream))
=============================================================================
