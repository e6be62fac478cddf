------------------------------ MODULE Backfill ------------------------------
(***************************************************************************)
(* The copy of a table's existing rows into the sinks                      *)
(* (adapters/primary/backfill): the coordinator's requests, its lane for   *)
(* one table, the chunks in flight between their low and high watermarks,  *)
(* the progress kept in the source database, and the nodes that share one  *)
(* replication slot.                                                       *)
(*                                                                         *)
(* The source table maps keys to values, 0 for no row; committed changes   *)
(* and watermarks are appended to the WAL in the order they happen.  The   *)
(* node that owns the slot reads the WAL, observes changes and watermarks  *)
(* at once and delivers to the sink later, in order (WALReader details     *)
(* this); a broken stream drops what is queued and replays from the slot.  *)
(***************************************************************************)
EXTENDS Integers, Sequences, FiniteSets, FiniteSetsExt

CONSTANTS
  Nodes,         \* processes sharing the slot
  NumKeys,       \* bound: primary keys of the table
  Initial,       \* keys with a row when the slot is created
  ChunkSize,     \* CDC_BACKFILL_CHUNK_SIZE
  PipelineDepth, \* chunks of the table in flight
  Ops,           \* what the application does: write, rekey, truncate
  MaxChanges,    \* bound: changes by the application
  MaxFaults,     \* bound: crashes, broken streams, database errors
  FaultKinds,    \* which of them happen
  MaxReplays     \* bound: operator requests

Keys == 1..NumKeys
Values == 0..(MaxChanges + 1)
None == "none"

ASSUME BackfillAssumption ==
  /\ IsFiniteSet(Nodes) /\ Nodes # {} /\ None \notin Nodes
  /\ NumKeys \in Nat /\ Initial \subseteq Keys
  /\ ChunkSize \in Nat \ {0} /\ PipelineDepth \in Nat \ {0}
  /\ Ops \subseteq {"write", "rekey", "truncate"}
  /\ FaultKinds \subseteq {"crash", "break", "mark", "save", "lane", "list"}
  /\ MaxChanges \in Nat /\ MaxFaults \in Nat /\ MaxReplays \in Nat

VARIABLES
  table,    \* the source table
  wal,      \* the WAL from the slot's creation on
  slot,     \* confirmed position; -1 before the slot exists
  saved,    \* the table's row in gtc_backfill_state
  owner,    \* node that streams
  cur,      \* last WAL position it read
  out,      \* deliveries it has queued
  sink,     \* what the sinks hold
  node,     \* per node, the coordinator
  changes, faults, replays,   \* bound counters
  owed      \* history: no chunk was selected from the start since a replay was asked

dbVars     == <<table, wal, slot>>
streamVars == <<owner, cur, out, sink>>
counters   == <<changes, faults, replays>>
vars == <<dbVars, saved, streamVars, node, counters, owed>>

Progress == [found : BOOLEAN, done : BOOLEAN, cursor : 0..NumKeys]
NotFound == [found |-> FALSE, done |-> FALSE, cursor |-> 0]
Pending  == [found |-> TRUE, done |-> FALSE, cursor |-> 0]

ChunkId == Nodes \X Nat
Rows == UNION {[K -> Values] : K \in SUBSET Keys}
Chunk == [id : ChunkId, known : BOOLEAN, live : BOOLEAN, collecting : BOOLEAN,
          seen : SUBSET Keys, rows : Rows, count : Nat, last : 0..NumKeys,
          done : BOOLEAN]

Coordinator ==
  [up : BOOLEAN, streaming : BOOLEAN, cached : Progress, queued : BOOLEAN,
   lane : {"idle", "load", "run", "register", "low", "select", "high"},
   failed : BOOLEAN, cursor : 0..NumKeys, next : 0..NumKeys,
   exhausted : BOOLEAN, window : Seq(Chunk), seq : Nat,
   all : {"off", "list", "mark", "queue"}, replay : {"off", "mark", "queue"}]

WALRecord ==
  [t : {"write"}, k : Keys, v : Values] \cup [t : {"truncate"}]
  \cup [t : {"rekey"}, from : Keys, k : Keys, v : Values]
  \cup [t : {"low", "high"}, id : ChunkId]
Delivery == WALRecord \cup [t : {"rows"}, rows : Rows, id : ChunkId]

TypeOK ==
  /\ table \in [Keys -> Values] /\ sink \in [Keys -> Values]
  /\ wal \in Seq(WALRecord)
  /\ slot \in -1..Len(wal) /\ cur \in 0..Len(wal)
  /\ saved \in Progress
  /\ owner \in Nodes \cup {None}
  /\ out \in Seq([pos : 1..Len(wal), d : Delivery])
  /\ node \in [Nodes -> Coordinator]
  /\ changes \in 0..MaxChanges /\ faults \in 0..MaxFaults
  /\ replays \in 0..MaxReplays /\ owed \in BOOLEAN

\* Slip: unfinished tables are not queued again.
StartedEmpty(seq, progress) ==
  [up |-> TRUE, streaming |-> FALSE, cached |-> progress,
   queued |-> FALSE, lane |-> "idle",
   failed |-> FALSE, cursor |-> 0, next |-> 0, exhausted |-> FALSE,
   window |-> <<>>, seq |-> seq, all |-> "off", replay |-> "off"]

\* NewCoordinator and Start: load the progress and queue what is unfinished.
Started(seq, progress) ==
  [up |-> TRUE, streaming |-> FALSE, cached |-> progress,
   queued |-> progress.found /\ ~progress.done, lane |-> "idle",
   failed |-> FALSE, cursor |-> 0, next |-> 0, exhausted |-> FALSE,
   window |-> <<>>, seq |-> seq, all |-> "off", replay |-> "off"]

Init ==
  /\ table = [k \in Keys |-> IF k \in Initial THEN 1 ELSE 0]
  /\ sink = [k \in Keys |-> 0]
  /\ wal = <<>> /\ slot = -1 /\ saved = NotFound
  /\ owner = None /\ cur = 0 /\ out = <<>>
  /\ node = [n \in Nodes |-> Started(0, NotFound)]
  /\ changes = 0 /\ faults = 0 /\ replays = 0 /\ owed = FALSE

\* A fault of some kind happens.
Fault(kind) ==
  /\ kind \in FaultKinds /\ faults < MaxFaults
  /\ faults' = faults + 1
  /\ UNCHANGED <<changes, replays>>

-----------------------------------------------------------------------------
(* The application.                                                        *)

\* The effect of a change, or of a chunk's rows, on a table or a sink.
Apply(data, r) ==
  CASE r.t = "write"    -> [data EXCEPT ![r.k] = r.v]
    [] r.t = "rekey"    -> [data EXCEPT ![r.from] = 0, ![r.k] = r.v]
    [] r.t = "truncate" -> [k \in Keys |-> 0]
    [] r.t = "rows"     -> [k \in Keys |-> IF k \in DOMAIN r.rows
                                             THEN r.rows[k] ELSE data[k]]
    [] OTHER            -> data

\* A transaction commits: an insert, update or delete, an update of the key
\* itself, or a TRUNCATE.
Commits(r) ==
  /\ r.t \in Ops /\ slot >= 0 /\ changes < MaxChanges
  /\ table' = Apply(table, r) /\ wal' = Append(wal, r)
  /\ changes' = changes + 1
  /\ UNCHANGED <<slot, saved, streamVars, node, faults, replays, owed>>

Change ==
  \/ \E k \in Keys, v \in {0, changes + 2} :
       /\ table[k] # v
       /\ Commits([t |-> "write", k |-> k, v |-> v])
  \/ \E k, j \in Keys :
       /\ table[k] # 0 /\ table[j] = 0
       /\ Commits([t |-> "rekey", from |-> k, k |-> j, v |-> table[k]])
  \/ Commits([t |-> "truncate"])

-----------------------------------------------------------------------------
(* Requests: EnqueueAll at slot creation, EnqueueTable and ReplayAll by an *)
(* operator.  Each looks, persists the table as pending, then queues it.   *)

Busy(n) == node[n].queued \/ node[n].lane # "idle"

\* EnqueueAll lists the tables that are neither busy nor done.
AllLists(n) ==
  /\ node[n].up /\ node[n].all = "list"
  /\ node' = [node EXCEPT ![n].all =
                IF Busy(n) \/ node[n].cached.done THEN "off" ELSE "mark"]
  /\ UNCHANGED <<dbVars, saved, streamVars, counters, owed>>

\* PublicationTables fails; the once is spent.
AllListFails(n) ==
  /\ node[n].up /\ node[n].all = "list"
  /\ Fault("list")
  /\ node' = [node EXCEPT ![n].all = "off"]
  /\ UNCHANGED <<dbVars, saved, streamVars, owed>>

\* An operator asks for the table.
ReplayAsked(n) ==
  /\ node[n].up /\ node[n].replay = "off" /\ ~Busy(n) /\ replays < MaxReplays
  /\ replays' = replays + 1
  /\ node' = [node EXCEPT ![n].replay = "mark"]
  /\ owed' = TRUE
  /\ UNCHANGED <<dbVars, saved, streamVars, changes, faults>>

\* Slip: the table is queued without being recorded as pending.
MarksNothing(n, request) ==
  /\ node[n].up /\ node[n][request] = "mark"
  /\ node' = [node EXCEPT ![n][request] = "queue"]
  /\ UNCHANGED <<dbVars, saved, streamVars, counters, owed>>

\* MarkPending, whose failure is only logged.
Marks(n, request) ==
  /\ node[n].up /\ node[n][request] = "mark"
  /\ \/ saved' = Pending /\ UNCHANGED counters
     \/ Fault("mark") /\ UNCHANGED saved
  /\ node' = [node EXCEPT ![n][request] = "queue"]
  /\ UNCHANGED <<dbVars, streamVars, owed>>

AllQueues(n) ==
  /\ node[n].up /\ node[n].all = "queue"
  /\ node' = [node EXCEPT ![n].all = "off", ![n].queued = @ \/ ~Busy(n)]
  /\ UNCHANGED <<dbVars, saved, streamVars, counters, owed>>

\* The request is refused when the table became busy meanwhile.
ReplayQueues(n) ==
  /\ node[n].up /\ node[n].replay = "queue"
  /\ IF Busy(n)
       THEN node' = [node EXCEPT ![n].replay = "off"] /\ owed' = FALSE
       ELSE /\ node' = [node EXCEPT ![n].replay = "off", ![n].queued = TRUE,
                                    ![n].cached = NotFound]
            /\ UNCHANGED owed
  /\ UNCHANGED <<dbVars, saved, streamVars, counters>>

-----------------------------------------------------------------------------
(* The lane.                                                               *)

Pop(n) ==
  /\ node[n].up /\ node[n].lane = "idle" /\ node[n].queued
  /\ node' = [node EXCEPT ![n].lane = "load", ![n].queued = FALSE]
  /\ UNCHANGED <<dbVars, saved, streamVars, counters, owed>>

\* backfillTable trusts the persisted progress over its own.
Load(n) ==
  /\ node[n].up /\ node[n].lane = "load"
  /\ node' = [node EXCEPT
       ![n].cached = saved, ![n].failed = FALSE,
       ![n].lane = IF saved.done THEN "idle" ELSE "run",
       ![n].cursor = saved.cursor, ![n].next = saved.cursor,
       ![n].exhausted = FALSE, ![n].window = <<>>]
  /\ UNCHANGED <<dbVars, saved, streamVars, counters, owed>>

\* The reload fails; the cached progress is used.
LoadFails(n) ==
  /\ node[n].up /\ node[n].lane = "load"
  /\ Fault("lane")
  /\ node' = [node EXCEPT
       ![n].lane = "run", ![n].failed = FALSE,
       ![n].cursor = node[n].cached.cursor, ![n].next = node[n].cached.cursor,
       ![n].exhausted = FALSE, ![n].window = <<>>]
  /\ UNCHANGED <<dbVars, saved, streamVars, owed>>

Filled(n) == node[n].exhausted \/ Len(node[n].window) >= PipelineDepth

\* startChunk: wait for the stream, then register the chunk.
WaitForStream(n) ==
  /\ node[n].up /\ node[n].lane = "run" /\ ~Filled(n) /\ node[n].streaming
  /\ node' = [node EXCEPT ![n].lane = "register"]
  /\ UNCHANGED <<dbVars, saved, streamVars, counters, owed>>

Register(n) ==
  /\ node[n].up /\ node[n].lane = "register"
  /\ node' = [node EXCEPT
       ![n].lane = "low", ![n].seq = @ + 1,
       ![n].window = Append(@,
          [id |-> <<n, node[n].seq + 1>>, known |-> TRUE, live |-> TRUE,
           collecting |-> FALSE, seen |-> {}, rows |-> <<>>, count |-> 0,
           last |-> 0, done |-> FALSE])]
  /\ UNCHANGED <<dbVars, saved, streamVars, counters, owed>>

Newest(n) == Len(node[n].window)

EmitLow(n) ==
  /\ node[n].up /\ node[n].lane = "low"
  /\ wal' = Append(wal, [t |-> "low", id |-> node[n].window[Newest(n)].id])
  /\ node' = [node EXCEPT ![n].lane = "select"]
  /\ UNCHANGED <<table, slot, saved, streamVars, counters, owed>>

\* SelectChunk: the first ChunkSize rows past the cursor, in key order.
Selected(from) ==
  {k \in Keys : /\ k > from /\ table[k] # 0
                /\ Cardinality({j \in (from + 1)..k : table[j] # 0}) <= ChunkSize}

\* Slip: the cursor skips a key.
LastCursorPast(K) == IF K = {} THEN 0 ELSE Max(K) + 1

LastCursor(K) == IF K = {} THEN 0 ELSE Max(K)

\* What SelectChunk leaves in the chunk: the rows of K.  An empty chunk has
\* nothing to deliver and is done at once.
Filling(c, K) ==
  [c EXCEPT !.rows = [k \in K |-> table[k]], !.count = Cardinality(K),
            !.last = LastCursor(K), !.known = @ /\ K # {}, !.done = (K = {})]

Select(n) ==
  /\ node[n].up /\ node[n].lane = "select"
  /\ LET K == Selected(node[n].next)
     IN node' = [node EXCEPT
          ![n].lane = IF K = {} THEN "run" ELSE "high",
          ![n].next = LastCursor(K),
          ![n].exhausted = Cardinality(K) < ChunkSize,
          ![n].window[Newest(n)] = Filling(@, K)]
  /\ owed' = (owed /\ node[n].next # 0)
  /\ UNCHANGED <<dbVars, saved, streamVars, counters>>

\* Slip: the high watermark is forgotten.
EmitHighLost(n) ==
  /\ node[n].up /\ node[n].lane = "high"
  /\ node' = [node EXCEPT ![n].lane = "run"]
  /\ UNCHANGED <<dbVars, saved, streamVars, counters, owed>>

EmitHigh(n) ==
  /\ node[n].up /\ node[n].lane = "high"
  /\ wal' = Append(wal, [t |-> "high", id |-> node[n].window[Newest(n)].id])
  /\ node' = [node EXCEPT ![n].lane = "run"]
  /\ UNCHANGED <<table, slot, saved, streamVars, counters, owed>>

\* A database error ends the table's run; its chunks are abandoned.
LaneFails(n) ==
  /\ node[n].up /\ node[n].lane \in {"load", "low", "select", "high"}
  /\ Fault("lane")
  /\ node' = [node EXCEPT ![n].lane = "idle", ![n].failed = TRUE,
                          ![n].window = <<>>]
  /\ UNCHANGED <<dbVars, saved, streamVars, owed>>

\* The head of the window was abandoned: start again behind the last
\* delivered chunk.
HeadRestarts(n) ==
  /\ node[n].up /\ node[n].lane = "run" /\ Filled(n)
  /\ ~Head(node[n].window).live
  /\ node' = [node EXCEPT ![n].window = <<>>, ![n].next = node[n].cursor,
                          ![n].exhausted = FALSE]
  /\ UNCHANGED <<dbVars, saved, streamVars, counters, owed>>

\* The head was delivered: keep the progress, in memory and in the database;
\* a short chunk ends the table.  A failure to save is only logged.
HeadDone(n) ==
  /\ node[n].up /\ node[n].lane = "run" /\ Filled(n)
  /\ Head(node[n].window).done
  /\ LET head  == Head(node[n].window)
         short == head.count < ChunkSize
         new   == [found |-> TRUE, done |-> short,
                   cursor |-> IF short THEN 0 ELSE head.last]
     IN /\ node' = [node EXCEPT
             ![n].cached = new,
             ![n].window = IF short THEN <<>> ELSE Tail(@),
             ![n].cursor = new.cursor,
             ![n].lane = IF short THEN "idle" ELSE "run"]
        /\ \/ saved' = new /\ UNCHANGED counters
           \/ Fault("save") /\ UNCHANGED saved
  /\ UNCHANGED <<dbVars, streamVars, owed>>

-----------------------------------------------------------------------------
(* The stream, as the reader drives the coordinator.                       *)

\* Slip: chunks are forgotten without telling their lane.
RestartedQuietly(w) ==
  [i \in DOMAIN w |-> [w[i] EXCEPT !.known = FALSE]]

\* restartLocked, when something is in flight.
Restarted(w) ==
  IF \E i \in DOMAIN w : w[i].known
    THEN [i \in DOMAIN w |-> [w[i] EXCEPT !.known = FALSE, !.live = FALSE]]
    ELSE w

\* A node gets the slot, or creates it and asks for a copy of everything.
StreamStarts(n) ==
  /\ owner = None /\ node[n].up
  /\ owner' = n /\ out' = <<>>
  /\ slot' = IF slot < 0 THEN 0 ELSE slot
  /\ cur' = slot'
  /\ node' = [node EXCEPT ![n].streaming = TRUE,
                          ![n].window = Restarted(@),
                          ![n].all = IF slot < 0 THEN "list" ELSE @]
  /\ UNCHANGED <<table, wal, saved, sink, counters, owed>>

\* The stream is torn down.
StreamStops(n) ==
  /\ owner = n /\ Fault("break")
  /\ owner' = None /\ out' = <<>>
  /\ node' = [node EXCEPT ![n].streaming = FALSE, ![n].window = Restarted(@)]
  /\ UNCHANGED <<dbVars, saved, cur, sink, owed>>

\* Slip: only inserts and updates are observed.
ObserveNoDelete(w, r) ==
  IF r.t \in {"write", "rekey"} /\ r.v # 0
    THEN [i \in DOMAIN w |->
            IF w[i].known /\ w[i].collecting
              THEN [w[i] EXCEPT !.seen = @ \cup {r.k}] ELSE w[i]]
    ELSE w

\* ObserveEvent: the key of the new row, of the old one for a delete; a
\* TRUNCATE carries no row.
Observe(w, r) ==
  IF r.t \in {"write", "rekey"}
    THEN [i \in DOMAIN w |->
            IF w[i].known /\ w[i].collecting
              THEN [w[i] EXCEPT !.seen = @ \cup {r.k}] ELSE w[i]]
    ELSE w

\* HandleWatermark on the chunk the mark names, if it is in flight here.
Marked(w, r) ==
  [i \in DOMAIN w |->
     IF w[i].known /\ w[i].id = r.id
       THEN [w[i] EXCEPT !.collecting = (r.t = "low"),
                         !.rows = IF r.t = "high" THEN <<>> ELSE @]
       ELSE w[i]]

ReadChange ==
  /\ owner # None /\ cur < Len(wal) /\ wal[cur + 1].t \notin {"low", "high"}
  /\ node' = [node EXCEPT ![owner].window = Observe(@, wal[cur + 1])]
  /\ out' = Append(out, [pos |-> cur + 1, d |-> wal[cur + 1]])
  /\ cur' = cur + 1
  /\ UNCHANGED <<dbVars, saved, owner, sink, counters, owed>>

\* The rows of the chunk, if it has one here, that no change superseded.
Surviving(w, r) ==
  {[t |-> "rows", id |-> r.id,
    rows |-> [k \in DOMAIN c.rows \ c.seen |-> c.rows[k]]] :
     c \in {c \in Range(w) : r.t = "high" /\ c.known /\ c.id = r.id}}

ReadWatermark ==
  /\ owner # None /\ cur < Len(wal) /\ wal[cur + 1].t \in {"low", "high"}
  /\ node' = [node EXCEPT ![owner].window = Marked(@, wal[cur + 1])]
  /\ LET events == Surviving(node[owner].window, wal[cur + 1])
     IN out' = IF events = {} THEN out
               ELSE Append(out, [pos |-> cur + 1, d |-> CHOOSE d \in events : TRUE])
  /\ cur' = cur + 1
  /\ UNCHANGED <<dbVars, saved, owner, sink, counters, owed>>

\* WatermarkDelivered: the chunk, if it is still in flight, is complete.
Completed(w, id) ==
  [i \in DOMAIN w |->
     IF w[i].known /\ w[i].id = id
       THEN [w[i] EXCEPT !.known = FALSE, !.done = TRUE] ELSE w[i]]

\* The sinks process the next delivery; WatermarkDelivered completes its
\* chunk.  The position may be confirmed now or later.
Deliver ==
  /\ owner # None /\ out # <<>>
  /\ LET d == Head(out).d
     IN /\ sink' = Apply(sink, d)
        /\ node' = IF d.t # "rows" THEN node
                   ELSE [node EXCEPT ![owner].window = Completed(@, d.id)]
  /\ slot' \in {slot, Head(out).pos}
  /\ out' = Tail(out)
  /\ UNCHANGED <<table, wal, saved, owner, cur, counters, owed>>

\* A process dies; the database frees its slot.
Crash(n) ==
  /\ node[n].up /\ Fault("crash")
  /\ node' = [node EXCEPT ![n].up = FALSE, ![n].streaming = FALSE]
  /\ IF owner = n THEN owner' = None /\ out' = <<>> ELSE UNCHANGED <<owner, out>>
  /\ owed' = (owed /\ node[n].replay = "off")
  /\ UNCHANGED <<dbVars, saved, cur, sink>>

\* It starts again, with a fresh instance id.
Start(n) ==
  /\ ~node[n].up
  /\ node' = [node EXCEPT ![n] = Started(node[n].seq, saved)]
  /\ UNCHANGED <<dbVars, saved, streamVars, counters, owed>>

-----------------------------------------------------------------------------

Requests(n) ==
  \/ AllLists(n) \/ AllListFails(n) \/ AllQueues(n)
  \/ ReplayAsked(n) \/ ReplayQueues(n)
  \/ Marks(n, "all") \/ Marks(n, "replay")

Lane(n) ==
  \/ Pop(n) \/ Load(n) \/ LoadFails(n) \/ WaitForStream(n) \/ Register(n)
  \/ EmitLow(n) \/ Select(n) \/ EmitHigh(n) \/ LaneFails(n)
  \/ HeadRestarts(n) \/ HeadDone(n)

Next ==
  \/ \E n \in Nodes : \/ Requests(n) \/ Lane(n)
                      \/ StreamStarts(n) \/ StreamStops(n)
                      \/ Crash(n) \/ Start(n)
  \/ ReadChange \/ ReadWatermark \/ Deliver \/ Change

Spec == Init /\ [][Next]_vars

\* Goroutines run, the database answers, sinks accept in the end, a crashed
\* process is started again; nobody owes faults, changes or requests.
FairSpec ==
  /\ Spec
  /\ \A n \in Nodes :
       /\ WF_vars(AllLists(n)) /\ WF_vars(AllQueues(n))
       /\ WF_vars(Marks(n, "all")) /\ WF_vars(Marks(n, "replay"))
       /\ WF_vars(ReplayQueues(n)) /\ WF_vars(Start(n))
       /\ WF_vars(Lane(n))
  /\ WF_vars(\E n \in Nodes : StreamStarts(n))
  /\ WF_vars(ReadChange \/ ReadWatermark) /\ WF_vars(Deliver)

-----------------------------------------------------------------------------
CaughtUp == owner # None /\ cur = Len(wal) /\ out = <<>>
Covered(k) == saved.found /\ (saved.done \/ k <= saved.cursor)

\* Rows the saved progress covers are right in the sinks once the stream has
\* caught up: watermarks, pipelined chunks, replayed WAL, restarts and other
\* nodes included (README: "Per-key ordering holds").
CopiedRowsAreCurrent ==
  CaughtUp => \A k \in Keys : Covered(k) => sink[k] = table[k]

\* Chunks of the table in flight never overlap in the WAL (comment on
\* Coordinator): at most one is between its watermarks.
Collecting(c) == c.known /\ c.collecting
ChunksDoNotOverlap ==
  \A n \in Nodes : \A i, j \in DOMAIN node[n].window :
    Collecting(node[n].window[i]) /\ Collecting(node[n].window[j]) => i = j

\* A lane never waits on a chunk nobody will finish: a head that is neither
\* done nor restarted is in flight.
HeadIsInFlight ==
  \A n \in Nodes :
    (node[n].up /\ node[n].lane = "run" /\ node[n].window # <<>>) =>
      LET head == Head(node[n].window)
      IN head.done \/ ~head.live \/ head.known

\* A replay the operator was told is queued starts over from the first row:
\* no node ends it by finding the table already completed.
ReplayNotSkipped ==
  [][\A n \in Nodes :
       (Load(n) /\ saved.done /\ node[n].replay = "off") => ~owed]_vars

\* A table recorded as pending is copied in the end, or its run ended with an
\* error that the status shows.
PendingIsCopied ==
  (saved = Pending) ~> (saved.done \/ \E n \in Nodes : node[n].failed)
=============================================================================
