--------------------------- MODULE BackfillMarks ----------------------------
(***************************************************************************)
(* What the steps of Backfill are to the window of a node, to the stream,  *)
(* to the marks in the WAL and to the types: the facts the proofs about    *)
(* backfills share.  Every step keeps the chunks of a window in their      *)
(* places, changing only their flags, or adds one, fills one, drops the    *)
(* head, or drops them all.                                                *)
(*                                                                         *)
(* Then the watermarks, for any number of nodes, chunks and faults: each   *)
(* chunk has at most one low mark and one high mark in the WAL, the low    *)
(* one first, and chunks of one lane follow each other there without       *)
(* overlapping.                                                            *)
(***************************************************************************)
EXTENDS Backfill, TLAPS

-----------------------------------------------------------------------------
(* Sequences.                                                              *)

\* A sequence maps its positions to elements.
LEMMA SeqOf ==
  ASSUME NEW S, NEW s \in Seq(S)
  PROVE  /\ Len(s) \in Nat /\ DOMAIN s = 1..Len(s)
         /\ \A i \in DOMAIN s : s[i] \in S
         /\ s # <<>> => Len(s) >= 1
  OBVIOUS

\* The empty sequence is one over any set.
LEMMA NoneOf ==
  ASSUME NEW S
  PROVE  <<>> \in Seq(S) /\ Len(<<>>) = 0 /\ DOMAIN <<>> = {}
  OBVIOUS

\* Appending adds a last position and moves none.
LEMMA AppendTo ==
  ASSUME NEW S, NEW s \in Seq(S), NEW e \in S, NEW v, v = Append(s, e)
  PROVE  /\ v \in Seq(S) /\ Len(v) = Len(s) + 1 /\ v # <<>>
         /\ DOMAIN v = DOMAIN s \cup {Len(s) + 1} /\ Len(s) + 1 \notin DOMAIN s
         /\ v[Len(s) + 1] = e
         /\ \A i \in DOMAIN s : v[i] = s[i] /\ i < Len(s) + 1
  OBVIOUS

\* The tail of a sequence is the sequence moved by one.
LEMMA TailOf ==
  ASSUME NEW S, NEW s \in Seq(S), s # <<>>, NEW v, v = Tail(s)
  PROVE  /\ v \in Seq(S) /\ Len(v) = Len(s) - 1 /\ Len(s) >= 1
         /\ \A i \in DOMAIN v : v[i] = s[i + 1] /\ i + 1 \in DOMAIN s
         /\ Head(s) = s[1] /\ 1 \in DOMAIN s
  OBVIOUS

\* A row set nobody has filled.
LEMMA NoRows == <<>> \in Rows /\ DOMAIN <<>> = {}
<1>1. <<>> \in [{} -> Values] /\ DOMAIN <<>> = {}
  OBVIOUS
<1> QED
  BY <1>1 DEF Rows

\* A window is a function from its indices to chunks.
LEMMA WindowOf ==
  ASSUME NEW w \in Seq(Chunk)
  PROVE  /\ Len(w) \in Nat /\ DOMAIN w = 1..Len(w)
         /\ \A i \in DOMAIN w : w[i] \in Chunk
  BY SeqOf, SeqOf

-----------------------------------------------------------------------------
(* The steps of a node, flattened: what becomes of its window, lane,       *)
(* sequence number, cursor, next cursor, cached progress and exhausted     *)
(* flag.                                                                   *)

\* A step of one node leaves the others alone.
Touches(n) ==
  /\ node' \in [Nodes -> Coordinator]
  /\ \A m \in Nodes : m # n => node'[m] = node[m]

\* The fields of a coordinator the invariants are about.
Becomes(n, w, l, q, c, x, p, e) ==
  /\ Touches(n)
  /\ node'[n].window = w /\ node'[n].lane = l /\ node'[n].seq = q
  /\ node'[n].cursor = c /\ node'[n].next = x /\ node'[n].cached = p
  /\ node'[n].exhausted = e

\* All of them stay, but for the lane and the cached progress.
Same(n, l, p) ==
  /\ node'[n].window = node[n].window /\ node'[n].lane = l /\ node'[n].seq = node[n].seq
  /\ node'[n].cursor = node[n].cursor /\ node'[n].next = node[n].next
  /\ node'[n].cached = p /\ node'[n].exhausted = node[n].exhausted

\* Where the lane may be: a chunk being copied is in the window, and a lane
\* that knows of no further rows has its last, short chunk there.
LanedAs(w, l, e) ==
  /\ l \in {"low", "select", "high"} => w # <<>>
  /\ l \in {"register", "low", "select"} => ~e
  /\ l \in {"run", "high"} /\ e => w # <<>> /\ w[Len(w)].count < ChunkSize
Laned(n) == LanedAs(node[n].window, node[n].lane, node[n].exhausted)
TypeInv == TypeOK /\ \A n \in Nodes : Laned(n)

\* The lane is between registering a chunk and its high mark.
IsOpen(l) == l \in {"low", "select", "high"}
Open(n) == IsOpen(node[n].lane)

\* The newest chunk of the lane is still without its rows; every chunk has them.
Begun(l) == l \in {"low", "select"}
Going(l) == l \in {"run", "register", "high"}

\* What no step of the stream changes in a chunk.
SameRange(c, d) ==
  /\ d.id = c.id /\ d.count = c.count /\ d.last = c.last

\* What restartLocked, ObserveEvent, HandleWatermark and WatermarkDelivered
\* make of a chunk c, which becomes d.
RestartsChunk(c, d) ==
  /\ ~d.known /\ (d.live => c.live /\ ~c.known)
  /\ d.seen = c.seen /\ d.rows = c.rows /\ d.done = c.done
ObservesChunk(c, d, r) ==
  /\ d.known = c.known /\ d.live = c.live /\ d.collecting = c.collecting
  /\ d.rows = c.rows /\ d.done = c.done
  /\ IF r.t \in {"write", "rekey"} /\ c.known /\ c.collecting
       THEN d.seen = c.seen \cup {r.k} ELSE d.seen = c.seen
MarksChunk(c, d, r) ==
  /\ d.known = c.known /\ d.live = c.live /\ d.seen = c.seen /\ d.done = c.done
  /\ IF c.known /\ c.id = r.id
       THEN /\ d.collecting = (r.t = "low")
            /\ d.rows = IF r.t = "high" THEN <<>> ELSE c.rows
       ELSE d.collecting = c.collecting /\ d.rows = c.rows
CompletesChunk(c, d, r) ==
  /\ d.live = c.live /\ d.collecting = c.collecting /\ d.seen = c.seen /\ d.rows = c.rows
  /\ IF r.t = "rows" /\ c.known /\ c.id = r.id
       THEN d.known = FALSE /\ d.done = TRUE
       ELSE d.known = c.known /\ d.done = c.done

\* A chunk c that stays in its place and becomes d.
Stays(m, c, d) ==
  /\ c \in Chunk /\ d \in Chunk /\ SameRange(c, d)
  /\ \/ d = c /\ (owner' = m => owner = m /\ cur' = cur /\ out' = out)
     \/ RestartsChunk(c, d)
     \/ owner = m /\ ReadChange /\ ObservesChunk(c, d, wal[cur + 1])
     \/ owner = m /\ ReadWatermark /\ MarksChunk(c, d, wal[cur + 1])
     \/ owner = m /\ Deliver /\ CompletesChunk(c, d, out[1].d)

\* A lane that keeps its chunks w goes from k to l.
Moves(m, w, e, k, l) ==
  /\ l = k \/ EmitLow(m) \/ EmitHigh(m) \/ (~IsOpen(l) /\ ~IsOpen(k))
  /\ Begun(l) <=> Begun(k)
  /\ Going(l) <=> Going(k)
  /\ LanedAs(w, k, e) => LanedAs(w, l, e)

\* The lane keeps its chunks.
Holds(m, w, v) ==
  /\ w = node[m].window /\ v = node'[m].window
  /\ w \in Seq(Chunk) /\ v \in Seq(Chunk) /\ Len(v) = Len(w) /\ DOMAIN v = DOMAIN w
  /\ node'[m].cursor = node[m].cursor /\ node'[m].next = node[m].next
  /\ node'[m].cached \in {node[m].cached, NotFound} /\ node'[m].seq = node[m].seq
  /\ node'[m].exhausted = node[m].exhausted
  /\ Moves(m, w, node[m].exhausted, node[m].lane, node'[m].lane)
  /\ \A i \in DOMAIN w : Stays(m, w[i], v[i])

\* The lane drops its chunks, and starts from progress it knows of.
Drops(m) ==
  /\ node'[m].window = <<>> /\ ~IsOpen(node'[m].lane) /\ node'[m].seq = node[m].seq
  /\ node'[m].cursor \in {saved.cursor, node[m].cached.cursor, node[m].cursor, 0}
  /\ Going(node'[m].lane) => node'[m].next = node'[m].cursor
  /\ node'[m].cached \in {saved, node[m].cached}
  /\ LanedAs(<<>>, node'[m].lane, node'[m].exhausted)

\* What a step is to the window of a node.
Shape(m) ==
  \/ \E w, v : Holds(m, w, v)
  \/ Register(m) \/ Select(m) \/ HeadDone(m) \/ Drops(m)

\* A step of this node: only the head of its window, done, changes the saved
\* progress to anything but pending.
StepOf(m) ==
  /\ Touches(m) /\ Shape(m)
  /\ saved' \in {saved, Pending} \/ HeadDone(m)

\* The progress records the steps write are progress records.
LEMMA ProgressTyped ==
  ASSUME BackfillAssumption
  PROVE  NotFound \in Progress /\ Pending \in Progress /\ 0 \in 0..NumKeys
<1>1. 0 \in 0..NumKeys
  BY DEF BackfillAssumption
<1> QED
  BY Zenon, <1>1 DEF NotFound, Pending, Progress

\* What the type invariant says of a node.
LEMMA NodeTyped ==
  ASSUME TypeOK, NEW n \in Nodes
  PROVE  /\ node \in [Nodes -> Coordinator] /\ node[n] \in Coordinator
         /\ node[n].window \in Seq(Chunk) /\ node[n].seq \in Nat
         /\ node[n].cached \in Progress /\ node[n].cached.cursor \in 0..NumKeys
         /\ node[n].cursor \in 0..NumKeys /\ node[n].next \in 0..NumKeys
<1>1. node \in [Nodes -> Coordinator] /\ node[n] \in Coordinator
  BY DEF TypeOK
<1>2. /\ node[n].window \in Seq(Chunk) /\ node[n].seq \in Nat
      /\ node[n].cached \in Progress
      /\ node[n].cursor \in 0..NumKeys /\ node[n].next \in 0..NumKeys
  BY Zenon, <1>1 DEF Coordinator
<1> QED
  BY Zenon, <1>1, <1>2 DEF Progress

\* The window stays as it is.
LEMMA HoldsSame ==
  ASSUME TypeOK, NEW m \in Nodes, owner' = m => owner = m /\ cur' = cur /\ out' = out,
         NEW l, NEW p \in {node[m].cached, NotFound}, Same(m, l, p),
         Moves(m, node[m].window, node[m].exhausted, node[m].lane, l)
  PROVE  \E w, v : Holds(m, w, v)
<1> DEFINE w == node[m].window
<1>1. w \in Seq(Chunk)
  BY Zenon, NodeTyped
<1>2. \A i \in DOMAIN w : Stays(m, w[i], w[i])
  <2>1. \A i \in DOMAIN w : w[i] \in Chunk
    BY Zenon, <1>1, WindowOf
  <2> QED
    BY Zenon, <2>1 DEF Stays, SameRange
<1>3. Holds(m, w, w)
  BY ZenonT(40), <1>1, <1>2 DEF Holds, Same
<1> QED
  BY Zenon, <1>3

\* The stream rewrites the window, chunk by chunk.
LEMMA HoldsRewritten ==
  ASSUME TypeOK, NEW m \in Nodes, NEW w, w = node[m].window,
         NEW v, v = [i \in DOMAIN w |-> v[i]],
         \A i \in DOMAIN w : Stays(m, w[i], v[i]),
         v \in Seq(Chunk) =>
           Becomes(m, v, node[m].lane, node[m].seq, node[m].cursor, node[m].next,
                   node[m].cached, node[m].exhausted)
  PROVE  Touches(m) /\ \E u, x : Holds(m, u, x)
<1>1. w \in Seq(Chunk)
  BY Zenon, NodeTyped
<1>2. \A i \in DOMAIN w : v[i] \in Chunk
  BY Zenon DEF Stays
<1>3. v \in Seq(Chunk) /\ Len(v) = Len(w) /\ DOMAIN v = DOMAIN w
  BY <1>1, <1>2, WindowOf
<1>4. Moves(m, w, node[m].exhausted, node[m].lane, node[m].lane)
  BY Zenon DEF Moves
<1>5. Holds(m, w, v)
  BY Zenon, <1>1, <1>3, <1>4 DEF Holds, Becomes
<1> QED
  BY Zenon, <1>3, <1>5 DEF Becomes

-----------------------------------------------------------------------------
(* The requests and the lane.                                              *)

\* A request looks, marks and queues; it never touches the lane.
LEMMA RequestsStep ==
  ASSUME BackfillAssumption, TypeOK, NEW n \in Nodes, Requests(n)
  PROVE  StepOf(n)
<1> DEFINE Asks == /\ \E p \in {node[n].cached, NotFound} : Same(n, node[n].lane, p)
                   /\ Touches(n) /\ saved' \in {saved, Pending} /\ UNCHANGED streamVars
<1>0. node \in [Nodes -> Coordinator] /\ node[n] \in Coordinator
  BY Zenon DEF TypeOK
<1>1. Asks
  <2>1. CASE AllLists(n)
    BY Zenon, <1>0, <2>1 DEF AllLists, Same, Touches, Coordinator
  <2>2. CASE AllListFails(n)
    BY Zenon, <1>0, <2>2 DEF AllListFails, Same, Touches, Coordinator
  <2>3. CASE ReplayAsked(n)
    BY Zenon, <1>0, <2>3 DEF ReplayAsked, Same, Touches, Coordinator
  <2>4. CASE AllQueues(n)
    BY Zenon, <1>0, <2>4 DEF AllQueues, Same, Touches, Coordinator, Busy
  <2>5. CASE ReplayQueues(n)
    <3>1. CASE Busy(n)
      <4>1. node' = [node EXCEPT ![n].replay = "off"]
        BY Zenon, <2>5, <3>1 DEF ReplayQueues
      <4>2. Same(n, node[n].lane, node[n].cached) /\ Touches(n)
        BY Zenon, <1>0, <4>1 DEF Same, Touches, Coordinator
      <4> QED
        BY Zenon, <2>5, <4>2 DEF ReplayQueues
    <3>2. CASE ~Busy(n)
      <4>1. node' = [node EXCEPT ![n].replay = "off", ![n].queued = TRUE,
                                 ![n].cached = NotFound]
        BY Zenon, <2>5, <3>2 DEF ReplayQueues
      <4>2. Same(n, node[n].lane, NotFound) /\ Touches(n)
        BY Zenon, <1>0, <4>1, ProgressTyped DEF Same, Touches, Coordinator
      <4> QED
        BY Zenon, <2>5, <4>2 DEF ReplayQueues
    <3> QED
      BY <3>1, <3>2
  <2>6. CASE Marks(n, "all")
    BY Zenon, <1>0, <2>6 DEF Marks, Same, Touches, Coordinator
  <2>7. CASE Marks(n, "replay")
    BY Zenon, <1>0, <2>7 DEF Marks, Same, Touches, Coordinator
  <2> QED
    BY Zenon, <2>1, <2>2, <2>3, <2>4, <2>5, <2>6, <2>7 DEF Requests
<1>2. owner' = n => owner = n /\ cur' = cur /\ out' = out
  BY Zenon, <1>1 DEF streamVars
<1>3. Moves(n, node[n].window, node[n].exhausted, node[n].lane, node[n].lane)
  BY Zenon DEF Moves
<1> QED
  BY Zenon, <1>1, <1>2, <1>3, HoldsSame DEF StepOf, Shape

\* The chunk startChunk registers.
NewChunk(n) ==
  [id |-> <<n, node[n].seq + 1>>, known |-> TRUE, live |-> TRUE,
   collecting |-> FALSE, seen |-> {}, rows |-> <<>>, count |-> 0,
   last |-> 0, done |-> FALSE]

\* It is a chunk.
LEMMA NewChunkTyped ==
  ASSUME BackfillAssumption, TypeOK, NEW n \in Nodes
  PROVE  NewChunk(n) \in Chunk
<1>1. node[n].seq + 1 \in Nat /\ 0 \in Nat
  BY NodeTyped
<1>2. <<n, node[n].seq + 1>> \in ChunkId
  BY <1>1 DEF ChunkId
<1> QED
  BY Zenon, <1>1, <1>2, NoRows, ProgressTyped DEF NewChunk, Chunk

\* startChunk puts it at the end of the window.
LEMMA RegisterEffect ==
  ASSUME BackfillAssumption, TypeOK, NEW n \in Nodes, Register(n)
  PROVE  /\ Becomes(n, Append(node[n].window, NewChunk(n)), "low", node[n].seq + 1,
                    node[n].cursor, node[n].next, node[n].cached, node[n].exhausted)
         /\ UNCHANGED <<dbVars, saved, streamVars>> /\ node[n].lane = "register"
<1>0. node \in [Nodes -> Coordinator] /\ node[n] \in Coordinator
  BY Zenon DEF TypeOK
<1> DEFINE w == Append(node[n].window, NewChunk(n))
           q == node[n].seq + 1
<1>1. w \in Seq(Chunk) /\ q \in Nat
  BY NodeTyped, NewChunkTyped, AppendTo
<1>2. node' = [node EXCEPT ![n].lane = "low", ![n].seq = q, ![n].window = w]
  BY Zenon, <1>0 DEF Register, NewChunk, Coordinator
<1> HIDE DEF w, q
<1>3. Becomes(n, w, "low", q, node[n].cursor, node[n].next, node[n].cached,
              node[n].exhausted)
  BY Zenon, <1>0, <1>1, <1>2 DEF Becomes, Touches, Coordinator
<1> QED
  BY Zenon, <1>3 DEF Register, w, q

\* What SelectChunk returns: a chunk of the rows past the cursor, with a last
\* key, that leaves out no row up to that key, and none at all when it is short.
Selecting ==
  \A from \in 0..NumKeys :
    LET K == Selected(from)
    IN /\ Cardinality(K) \in Nat /\ LastCursor(K) \in 0..NumKeys
       /\ \A k \in Keys :
            /\ k > from /\ table[k] # 0
            /\ Cardinality(K) < ChunkSize \/ k <= LastCursor(K)
            => k \in K

\* SelectChunk fills the newest chunk of a lane with the rows of K.
Fills(n, w, v, K) ==
  /\ w = node[n].window /\ K = Selected(node[n].next)
  /\ K \in SUBSET Keys /\ Cardinality(K) \in Nat
  /\ Becomes(n, v, IF K = {} THEN "run" ELSE "high", node[n].seq, node[n].cursor,
             LastCursor(K), node[n].cached, Cardinality(K) < ChunkSize)
  /\ UNCHANGED <<dbVars, saved, streamVars>> /\ node[n].lane = "select"
  /\ w \in Seq(Chunk) /\ Len(w) \in Nat \ {0}
  /\ v \in Seq(Chunk) /\ Len(v) = Len(w)
  /\ \A i \in 1..Len(w) : i # Len(w) => v[i] = w[i]

\* The chunk c becomes d.
FillsChunk(c, d, K) ==
  /\ c \in Chunk /\ d \in Chunk
  /\ d.id = c.id /\ d.live = c.live /\ d.collecting = c.collecting /\ d.seen = c.seen
  /\ d.rows = [k \in K |-> table[k]] /\ d.count = Cardinality(K)
  /\ d.last = LastCursor(K) /\ d.known = (c.known /\ K # {})
  /\ d.done = (K = {})

\* Selecting a chunk.
LEMMA SelectStep ==
  ASSUME BackfillAssumption, TypeOK, Selecting, NEW n \in Nodes, Laned(n), Select(n)
  PROVE  \E w, v, K : Fills(n, w, v, K) /\ FillsChunk(w[Len(w)], v[Len(w)], K)
<1> DEFINE K == Selected(node[n].next)
           w == node[n].window
           c == w[Len(w)]
           d == Filling(c, K)
           v == [w EXCEPT ![Len(w)] = d]
<1>0. node \in [Nodes -> Coordinator] /\ node[n] \in Coordinator
  BY Zenon DEF TypeOK
<1>1. w \in Seq(Chunk) /\ w # <<>> /\ node[n].next \in 0..NumKeys
  BY Zenon, NodeTyped DEF Laned, LanedAs, Select
<1>2. Len(w) \in Nat \ {0} /\ DOMAIN w = 1..Len(w) /\ c \in Chunk
  BY <1>1, NoneOf, SeqOf
<1>3. K \in SUBSET Keys
  BY DEF Selected
<1>4. Cardinality(K) \in Nat /\ LastCursor(K) \in 0..NumKeys
  BY Zenon, <1>1 DEF Selecting
<1> HIDE DEF c, d
<1>5. FillsChunk(c, d, K)
  <2> DEFINE R == [k \in K |-> table[k]]
             b == c.known /\ K # {}
             f == (K = {})
             q == Cardinality(K)
             l == LastCursor(K)
  <2>1. R \in Rows
    <3>1. table \in [Keys -> Values]
      BY DEF TypeOK
    <3>2. R \in [K -> Values]
      BY <1>3, <3>1
    <3> QED
      BY Zenon, <1>3, <3>2 DEF Rows
  <2>2. b \in BOOLEAN /\ f \in BOOLEAN /\ q \in Nat /\ l \in 0..NumKeys
    BY <1>4
  <2>3. d = [c EXCEPT !.rows = R, !.count = q, !.last = l, !.known = b, !.done = f]
    BY Zenon, <1>2 DEF Filling, Chunk, d
  <2> HIDE DEF R, b, f, q, l
  <2>4. d \in Chunk
    BY Zenon, <1>2, <2>1, <2>2, <2>3 DEF Chunk
  <2>5. /\ d.id = c.id /\ d.live = c.live
        /\ d.collecting = c.collecting /\ d.seen = c.seen
        /\ d.rows = R /\ d.count = q /\ d.last = l /\ d.known = b /\ d.done = f
    BY Zenon, <1>2, <2>3 DEF Chunk
  <2> QED
    BY Zenon, <1>2, <2>4, <2>5 DEF FillsChunk, R, b, f, q, l
<1>6. d \in Chunk
  BY Zenon, <1>5 DEF FillsChunk
<1>7. /\ v \in Seq(Chunk) /\ Len(v) = Len(w) /\ v[Len(w)] = d
      /\ \A i \in 1..Len(w) : i # Len(w) => v[i] = w[i]
  BY <1>1, <1>2, <1>6
<1>8. UNCHANGED <<dbVars, saved, streamVars>> /\ node[n].lane = "select"
  BY Zenon DEF Select
<1>9. Becomes(n, v, IF K = {} THEN "run" ELSE "high", node[n].seq, node[n].cursor,
              LastCursor(K), node[n].cached, Cardinality(K) < ChunkSize)
  <2> DEFINE l == IF K = {} THEN "run" ELSE "high"
             x == LastCursor(K)
             e == Cardinality(K) < ChunkSize
  <2>1. l \in {"run", "high"} /\ x \in 0..NumKeys /\ e \in BOOLEAN
    BY <1>4
  <2>2. node' = [node EXCEPT ![n].lane = l, ![n].next = x, ![n].exhausted = e, ![n].window = v]
    BY Zenon, <1>0 DEF Select, Newest, Coordinator, c, d
  <2> HIDE DEF v, l, x, e
  <2>3. Becomes(n, v, l, node[n].seq, node[n].cursor, x, node[n].cached, e)
    BY ZenonT(40), <1>0, <1>7, <2>1, <2>2 DEF Becomes, Touches, Coordinator
  <2> QED
    BY Zenon, <2>3 DEF l, x, e
<1>10. K = Selected(node[n].next) /\ w = node[n].window /\ c = w[Len(w)]
  BY Zenon DEF c
<1> HIDE DEF K, w, v
<1>11. Fills(n, w, v, K)
  BY Zenon, <1>1, <1>2, <1>3, <1>4, <1>7, <1>8, <1>9, <1>10 DEF Fills
<1> QED
  BY Zenon, <1>5, <1>7, <1>10, <1>11

\* The progress HeadDone keeps.
Reached(c) ==
  [found |-> TRUE, done |-> c.count < ChunkSize,
   cursor |-> IF c.count < ChunkSize THEN 0 ELSE c.last]

\* saveProgress takes the head of the window, which is done; a short chunk
\* was the last of the table.
LEMMA HeadDoneEffect ==
  ASSUME BackfillAssumption, TypeOK, NEW n \in Nodes, Laned(n), HeadDone(n),
         NEW head, head = node[n].window[1]
  PROVE  /\ head.done /\ node[n].lane = "run" /\ Reached(head) \in Progress
         /\ node[n].window \in Seq(Chunk) /\ node[n].window # <<>>
         /\ head.count < ChunkSize =>
              Becomes(n, <<>>, "idle", node[n].seq, 0, node[n].next, Reached(head),
                      node[n].exhausted)
         /\ ~(head.count < ChunkSize) =>
              Becomes(n, Tail(node[n].window), "run", node[n].seq, head.last, node[n].next,
                      Reached(head), node[n].exhausted)
         /\ saved' \in {saved, Reached(head)}
         /\ UNCHANGED <<dbVars, streamVars>>
<1>0. node \in [Nodes -> Coordinator] /\ node[n] \in Coordinator
  BY Zenon DEF TypeOK
<1>1. node[n].lane = "run" /\ Filled(n)
  BY Zenon DEF HeadDone
<1>2. /\ node[n].window \in Seq(Chunk) /\ node[n].window # <<>>
      /\ Head(node[n].window) = head /\ head \in Chunk
  <2>1. node[n].window \in Seq(Chunk)
    BY NodeTyped
  <2>2. node[n].window # <<>>
    <3>1. CASE node[n].exhausted
      BY Zenon, <1>1, <3>1 DEF Laned, LanedAs
    <3>2. CASE Len(node[n].window) >= PipelineDepth
      BY <2>1, <3>2, NoneOf, SeqOf DEF BackfillAssumption
    <3> QED
      BY Zenon, <1>1, <3>1, <3>2 DEF Filled
  <2> QED
    BY <2>1, <2>2, NoneOf, SeqOf
<1>3. head.count \in Nat /\ head.last \in 0..NumKeys
  BY Zenon, <1>2 DEF Chunk
<1> DEFINE short == head.count < ChunkSize
           new == Reached(head)
<1>4. new.cursor = (IF short THEN 0 ELSE head.last) /\ new \in Progress
      /\ new.cursor \in 0..NumKeys
  BY <1>3, ProgressTyped DEF Reached, Progress
<1>5. Tail(node[n].window) \in Seq(Chunk) /\ <<>> \in Seq(Chunk)
  BY SMTT(30), <1>2, TailOf, NoneOf, SeqOf
<1>6. /\ head.done
      /\ node' = [node EXCEPT
             ![n].cached = new,
             ![n].window = IF short THEN <<>> ELSE Tail(@),
             ![n].cursor = new.cursor,
             ![n].lane = IF short THEN "idle" ELSE "run"]
      /\ (saved' = new \/ saved' = saved)
      /\ UNCHANGED <<dbVars, streamVars>>
  BY Zenon, <1>2 DEF HeadDone, Reached
<1>7. CASE short
  <2>1. node' = [node EXCEPT ![n].cached = new, ![n].window = <<>>,
                             ![n].cursor = 0, ![n].lane = "idle"]
    BY Zenon, <1>4, <1>6, <1>7
  <2> HIDE DEF new
  <2>2. Becomes(n, <<>>, "idle", node[n].seq, 0, node[n].next, new, node[n].exhausted)
    BY Zenon, <1>0, <1>4, <1>5, <2>1, ProgressTyped DEF Becomes, Touches, Coordinator
  <2> QED
    BY Zenon, <1>1, <1>2, <1>4, <1>6, <1>7, <2>2 DEF new
<1>8. CASE ~short
  <2> DEFINE v == Tail(node[n].window)
  <2>1. node' = [node EXCEPT ![n].cached = new, ![n].window = v,
                             ![n].cursor = head.last, ![n].lane = "run"]
    BY Zenon, <1>0, <1>4, <1>6, <1>8 DEF Coordinator
  <2>2. v \in Seq(Chunk)
    BY <1>5
  <2> HIDE DEF new, v
  <2>3. Becomes(n, v, "run", node[n].seq, head.last, node[n].next, new, node[n].exhausted)
    BY ZenonT(40), <1>0, <1>3, <1>4, <2>2, <2>1 DEF Becomes, Touches, Coordinator
  <2> QED
    BY Zenon, <1>1, <1>2, <1>4, <1>6, <1>8, <2>3 DEF new, v
<1> QED
  BY Zenon, <1>7, <1>8

\* Emitting a watermark of the newest chunk.
LEMMA EmitEffect ==
  ASSUME BackfillAssumption, TypeOK, NEW n \in Nodes, Laned(n), EmitLow(n) \/ EmitHigh(n),
         NEW w, w = node[n].window
  PROVE  /\ w \in Seq(Chunk) /\ Len(w) \in Nat \ {0} /\ w[Len(w)] \in Chunk
         /\ w[Len(w)].id \in ChunkId
         /\ node[n].lane \in {"low", "high"}
         /\ [t |-> node[n].lane, id |-> w[Len(w)].id] \in WALRecord
         /\ wal' = Append(wal, [t |-> node[n].lane, id |-> w[Len(w)].id])
         /\ Becomes(n, w, IF node[n].lane = "low" THEN "select" ELSE "run", node[n].seq,
                    node[n].cursor, node[n].next, node[n].cached, node[n].exhausted)
         /\ UNCHANGED <<table, slot, saved, streamVars>>
<1>1. /\ node[n].lane \in {"low", "high"}
      /\ wal' = Append(wal, [t |-> node[n].lane, id |-> w[Len(w)].id])
      /\ Becomes(n, w, IF node[n].lane = "low" THEN "select" ELSE "run", node[n].seq,
                 node[n].cursor, node[n].next, node[n].cached, node[n].exhausted)
      /\ UNCHANGED <<table, slot, saved, streamVars>>
  <2>0. node \in [Nodes -> Coordinator] /\ node[n] \in Coordinator
    BY Zenon DEF TypeOK
  <2>1. CASE EmitLow(n)
    BY Zenon, <2>0, <2>1 DEF EmitLow, Newest, Becomes, Touches, Coordinator
  <2>2. CASE EmitHigh(n)
    <3>1. "high" # "low"
      OBVIOUS
    <3> QED
      BY Zenon, <2>0, <2>2, <3>1 DEF EmitHigh, Newest, Becomes, Touches, Coordinator
  <2> QED
    BY Zenon, <2>1, <2>2
<1>2. w \in Seq(Chunk) /\ w # <<>>
  BY Zenon, <1>1, NodeTyped DEF Laned, LanedAs
<1>3. Len(w) \in Nat \ {0} /\ w[Len(w)] \in Chunk
  BY <1>2, NoneOf, SeqOf
<1>4. w[Len(w)].id \in ChunkId
  BY Zenon, <1>3 DEF Chunk
<1>5. [t |-> node[n].lane, id |-> w[Len(w)].id] \in WALRecord
  BY Zenon, <1>1, <1>4 DEF WALRecord
<1> QED
  BY Zenon, <1>1, <1>2, <1>3, <1>4, <1>5

\* A step of the lane.
LEMMA LaneStep ==
  ASSUME BackfillAssumption, TypeOK, Selecting, NEW m \in Nodes, Laned(m), Lane(m)
  PROVE  StepOf(m)
<1>0. node \in [Nodes -> Coordinator] /\ node[m] \in Coordinator
  BY Zenon DEF TypeOK
<1>1. saved \in Progress /\ saved.cursor \in 0..NumKeys /\ <<>> \in Seq(Chunk)
      /\ node[m].cached.cursor \in 0..NumKeys
  BY NoneOf, SeqOf, NodeTyped DEF TypeOK, Progress
<1>2. ASSUME NEW l, Touches(m), Same(m, l, node[m].cached), UNCHANGED <<saved, streamVars>>,
             Moves(m, node[m].window, node[m].exhausted, node[m].lane, l)
      PROVE  StepOf(m)
  <2>1. owner' = m => owner = m /\ cur' = cur /\ out' = out
    BY Zenon, <1>2 DEF streamVars
  <2> QED
    BY Zenon, <1>2, <2>1, HoldsSame DEF StepOf, Shape
<1>3. ASSUME NEW l \in {"idle", "run"}, NEW x, NEW e, NEW p \in {saved, node[m].cached},
             NEW c \in {saved.cursor, node[m].cached.cursor, node[m].cursor, 0},
             Becomes(m, <<>>, l, node[m].seq, c, x, p, e), UNCHANGED saved,
             l = "run" => x = c /\ e = FALSE
      PROVE  StepOf(m)
  <2>1. /\ node'[m].window = <<>> /\ node'[m].lane = l /\ node'[m].seq = node[m].seq
        /\ node'[m].cursor = c /\ node'[m].next = x /\ node'[m].cached = p
        /\ node'[m].exhausted = e /\ Touches(m)
    BY Zenon, <1>3 DEF Becomes
  <2>2. ~IsOpen(l) /\ LanedAs(<<>>, l, e) /\ (Going(l) => x = c)
    BY <1>3 DEF IsOpen, LanedAs, Going
  <2> QED
    BY Zenon, <1>3, <2>1, <2>2 DEF StepOf, Shape, Drops
<1>4. CASE Pop(m)
  <2>1. /\ Touches(m) /\ Same(m, "load", node[m].cached) /\ UNCHANGED <<saved, streamVars>>
        /\ node[m].lane = "idle"
    BY Zenon, <1>0, <1>4 DEF Pop, Same, Touches, Coordinator
  <2>2. Moves(m, node[m].window, node[m].exhausted, node[m].lane, "load")
    BY <2>1 DEF Moves, IsOpen, Begun, Going, LanedAs
  <2> QED
    BY Zenon, <1>2, <2>1, <2>2
<1>5. CASE WaitForStream(m)
  <2>1. /\ Touches(m) /\ Same(m, "register", node[m].cached) /\ UNCHANGED <<saved, streamVars>>
        /\ node[m].lane = "run" /\ ~node[m].exhausted
    BY Zenon, <1>0, <1>5 DEF WaitForStream, Same, Touches, Coordinator, Filled
  <2>2. Moves(m, node[m].window, node[m].exhausted, node[m].lane, "register")
    BY <2>1 DEF Moves, IsOpen, Begun, Going, LanedAs
  <2> QED
    BY Zenon, <1>2, <2>1, <2>2
<1>6. CASE EmitLow(m)
  <2>1. /\ Touches(m) /\ Same(m, "select", node[m].cached) /\ UNCHANGED <<saved, streamVars>>
        /\ node[m].lane = "low"
    BY Zenon, <1>0, <1>6 DEF EmitLow, Same, Touches, Coordinator
  <2>2. Moves(m, node[m].window, node[m].exhausted, node[m].lane, "select")
    BY <1>6, <2>1 DEF Moves, IsOpen, Begun, Going, LanedAs
  <2> QED
    BY Zenon, <1>2, <2>1, <2>2
<1>7. CASE EmitHigh(m)
  <2>1. /\ Touches(m) /\ Same(m, "run", node[m].cached) /\ UNCHANGED <<saved, streamVars>>
        /\ node[m].lane = "high"
    BY Zenon, <1>0, <1>7 DEF EmitHigh, Same, Touches, Coordinator
  <2>2. Moves(m, node[m].window, node[m].exhausted, node[m].lane, "run")
    BY <1>7, <2>1 DEF Moves, IsOpen, Begun, Going, LanedAs
  <2> QED
    BY Zenon, <1>2, <2>1, <2>2
<1>8. CASE Load(m)
  <2> DEFINE l == IF saved.done THEN "idle" ELSE "run"
  <2>1. l \in {"idle", "run"}
    OBVIOUS
  <2>2. node' = [node EXCEPT
         ![m].cached = saved, ![m].failed = FALSE, ![m].lane = l,
         ![m].cursor = saved.cursor, ![m].next = saved.cursor,
         ![m].exhausted = FALSE, ![m].window = <<>>]
    BY Zenon, <1>8 DEF Load
  <2> HIDE DEF l
  <2>3. Becomes(m, <<>>, l, node[m].seq, saved.cursor, saved.cursor, saved, FALSE)
    BY ZenonT(60), <1>0, <1>1, <2>1, <2>2 DEF Becomes, Touches, Coordinator
  <2>4. UNCHANGED saved
    BY Zenon, <1>8 DEF Load
  <2> QED
    BY Zenon, <1>3, <2>1, <2>3, <2>4
<1>9. CASE LoadFails(m)
  <2>1. Becomes(m, <<>>, "run", node[m].seq, node[m].cached.cursor,
                node[m].cached.cursor, node[m].cached, FALSE) /\ UNCHANGED saved
    BY Zenon, <1>0, <1>1, <1>9 DEF LoadFails, Becomes, Touches, Coordinator
  <2> QED
    BY Zenon, <1>3, <2>1
<1>10. CASE LaneFails(m)
  <2>1. Becomes(m, <<>>, "idle", node[m].seq, node[m].cursor, node[m].next,
                node[m].cached, node[m].exhausted) /\ UNCHANGED saved
    BY Zenon, <1>0, <1>1, <1>10 DEF LaneFails, Becomes, Touches, Coordinator
  <2>2. "idle" # "run"
    OBVIOUS
  <2> QED
    BY Zenon, <1>3, <2>1, <2>2
<1>11. CASE HeadRestarts(m)
  <2>1. Becomes(m, <<>>, "run", node[m].seq, node[m].cursor, node[m].cursor,
                node[m].cached, FALSE) /\ UNCHANGED saved
    BY Zenon, <1>0, <1>1, <1>11 DEF HeadRestarts, Becomes, Touches, Coordinator
  <2> QED
    BY Zenon, <1>3, <2>1
<1>12. CASE Register(m)
  BY Zenon, <1>12, RegisterEffect DEF StepOf, Shape, Becomes
<1>13. CASE Select(m)
  <2>1. \E w, v, K : Fills(m, w, v, K)
    BY Zenon, <1>13, SelectStep
  <2> QED
    BY Zenon, <1>13, <2>1 DEF StepOf, Shape, Fills, Becomes
<1>14. CASE HeadDone(m)
  BY Zenon, <1>14, HeadDoneEffect DEF StepOf, Shape, Becomes
<1> QED
  BY Zenon, <1>4, <1>5, <1>6, <1>7, <1>8, <1>9, <1>10, <1>11, <1>12, <1>13, <1>14 DEF Lane

-----------------------------------------------------------------------------
(* The stream.                                                             *)

\* Positions of the WAL hold records, queued deliveries name a position.
LEMMA WALTyped ==
  ASSUME TypeOK
  PROVE  /\ Len(wal) \in Nat /\ DOMAIN wal = 1..Len(wal)
         /\ \A p \in DOMAIN wal : wal[p] \in WALRecord
         /\ Len(out) \in Nat /\ DOMAIN out = 1..Len(out)
         /\ \A i \in DOMAIN out : out[i].pos \in DOMAIN wal /\ out[i].d \in Delivery
         /\ cur \in Nat /\ cur <= Len(wal)
<1>1. wal \in Seq(WALRecord) /\ out \in Seq([pos : 1..Len(wal), d : Delivery])
      /\ cur \in 0..Len(wal)
  BY Zenon DEF TypeOK
<1>2. Len(wal) \in Nat /\ DOMAIN wal = 1..Len(wal) /\ Len(out) \in Nat /\ DOMAIN out = 1..Len(out)
  BY <1>1, SeqOf
<1>3. \A p \in DOMAIN wal : wal[p] \in WALRecord
  BY <1>1, <1>2, SeqOf
<1>4. \A i \in DOMAIN out : out[i] \in [pos : 1..Len(wal), d : Delivery]
  BY Zenon, <1>1, <1>2, SeqOf
<1>5. cur \in Nat /\ cur <= Len(wal)
  BY <1>1, <1>2
<1> QED
  BY Zenon, <1>2, <1>3, <1>4, <1>5

\* A node gets the stream, loses it, or dies.
LEMMA TurnsEffect ==
  ASSUME NEW n \in Nodes
  PROVE  /\ StreamStarts(n) =>
              /\ UNCHANGED <<table, wal, saved, sink>>
              /\ owner = None /\ owner' = n /\ out' = <<>>
              /\ slot' = (IF slot < 0 THEN 0 ELSE slot) /\ cur' = slot'
         /\ StreamStops(n) \/ Crash(n) =>
              /\ UNCHANGED <<dbVars, saved, cur, sink>>
              /\ \/ owner = n /\ owner' = None /\ out' = <<>>
                 \/ owner # n /\ UNCHANGED <<owner, out>>
  BY Zenon DEF StreamStarts, StreamStops, Crash

\* A change is read and queued for the sinks.
LEMMA ReadChangeEffect ==
  ASSUME BackfillAssumption, TypeOK, ReadChange, NEW r, r = wal[cur + 1]
  PROVE  /\ owner \in Nodes /\ cur + 1 \in DOMAIN wal
         /\ r \in WALRecord /\ r.t \notin {"low", "high"}
         /\ out' = Append(out, [pos |-> cur + 1, d |-> r]) /\ cur' = cur + 1
         /\ UNCHANGED <<dbVars, saved, owner, sink>>
<1>1. cur + 1 \in DOMAIN wal
  BY WALTyped DEF ReadChange
<1>2. r \in WALRecord /\ owner \in Nodes
  BY <1>1, WALTyped DEF ReadChange, TypeOK
<1> QED
  BY Zenon, <1>1, <1>2 DEF ReadChange

\* The rows a high mark leaves, and that there is one delivery of them.
LEMMA SurvivingTyped ==
  ASSUME NEW w \in Seq(Chunk), NEW r \in WALRecord, NEW d \in Surviving(w, r)
  PROVE  /\ r.t = "high" /\ r.id \in ChunkId
         /\ d.t = "rows" /\ d.id = r.id /\ d.rows \in Rows /\ d \in Delivery
         /\ \E i \in DOMAIN w :
              /\ w[i].known /\ w[i].id = r.id
              /\ DOMAIN d.rows = DOMAIN w[i].rows \ w[i].seen
              /\ \A k \in DOMAIN d.rows : d.rows[k] = w[i].rows[k]
<1>1. PICK i \in DOMAIN w :
        /\ r.t = "high" /\ w[i].known /\ w[i].id = r.id
        /\ d = [t |-> "rows", id |-> r.id,
                rows |-> [k \in DOMAIN w[i].rows \ w[i].seen |-> w[i].rows[k]]]
  <2>1. PICK c \in {c \in Range(w) : r.t = "high" /\ c.known /\ c.id = r.id} :
          d = [t |-> "rows", id |-> r.id,
               rows |-> [k \in DOMAIN c.rows \ c.seen |-> c.rows[k]]]
    BY Zenon DEF Surviving
  <2>2. c \in Range(w) /\ r.t = "high" /\ c.known /\ c.id = r.id
    BY Zenon
  <2>3. PICK i \in DOMAIN w : c = w[i]
    BY Zenon, <2>2 DEF Range
  <2> QED
    BY Zenon, <2>1, <2>2, <2>3
<1>2. w[i] \in Chunk
  BY WindowOf
<1>3. w[i].rows \in Rows /\ r.id \in ChunkId
  BY Zenon, <1>1, <1>2 DEF Chunk
<1> DEFINE f == [k \in DOMAIN w[i].rows \ w[i].seen |-> w[i].rows[k]]
<1>4. f \in Rows
  <2>1. PICK K \in SUBSET Keys : w[i].rows \in [K -> Values]
    BY Zenon, <1>3 DEF Rows
  <2>2. K \ w[i].seen \in SUBSET Keys /\ f \in [K \ w[i].seen -> Values]
    BY <2>1
  <2> QED
    BY Zenon, <2>2 DEF Rows
<1>5. DOMAIN f = DOMAIN w[i].rows \ w[i].seen /\ \A k \in DOMAIN f : f[k] = w[i].rows[k]
  BY Zenon
<1>6. d = [t |-> "rows", id |-> r.id, rows |-> f]
  BY <1>1
<1> HIDE DEF f
<1>7. d.t = "rows" /\ d.id = r.id /\ d.rows = f /\ d \in [t : {"rows"}, rows : Rows, id : ChunkId]
  BY Zenon, <1>3, <1>4, <1>6
<1> QED
  BY Zenon, <1>1, <1>3, <1>4, <1>5, <1>7 DEF Delivery

\* A mark is read; a high mark queues the rows of its chunk, if there are any.
LEMMA ReadWatermarkEffect ==
  ASSUME BackfillAssumption, TypeOK, ReadWatermark, NEW r, r = wal[cur + 1]
  PROVE  /\ owner \in Nodes /\ cur + 1 \in DOMAIN wal
         /\ r \in WALRecord /\ r.t \in {"low", "high"}
         /\ \/ Surviving(node[owner].window, r) = {} /\ out' = out
            \/ \E d \in Surviving(node[owner].window, r) :
                 out' = Append(out, [pos |-> cur + 1, d |-> d])
         /\ cur' = cur + 1
         /\ UNCHANGED <<dbVars, saved, owner, sink>>
<1>1. cur + 1 \in DOMAIN wal
  BY WALTyped DEF ReadWatermark
<1>2. r \in WALRecord /\ owner \in Nodes
  BY <1>1, WALTyped DEF ReadWatermark, TypeOK
<1> DEFINE E == Surviving(node[owner].window, r)
<1>3. out' = IF E = {} THEN out ELSE Append(out, [pos |-> cur + 1, d |-> CHOOSE d \in E : TRUE])
  BY SMTT(30) DEF ReadWatermark
<1> HIDE DEF E
<1>4. (E = {} /\ out' = out) \/ \E d \in E : out' = Append(out, [pos |-> cur + 1, d |-> d])
  BY Zenon, <1>3
<1> QED
  BY Zenon, <1>1, <1>2, <1>4 DEF ReadWatermark, E

\* The head of the queue reaches the sinks.
LEMMA DeliverEffect ==
  ASSUME BackfillAssumption, TypeOK, Deliver, NEW d, d = out[1].d
  PROVE  /\ owner \in Nodes /\ out # <<>> /\ 1 \in DOMAIN out
         /\ out[1].pos \in DOMAIN wal /\ d \in Delivery
         /\ sink' = Apply(sink, d) /\ slot' \in {slot, out[1].pos} /\ out' = Tail(out)
         /\ UNCHANGED <<table, wal, saved, owner, cur>>
<1>1. owner \in Nodes /\ out # <<>>
  BY Zenon DEF Deliver, TypeOK
<1>2. out \in Seq([pos : 1..Len(wal), d : Delivery])
  BY DEF TypeOK
<1>3. Head(out) = out[1] /\ 1 \in DOMAIN out
  BY SMTT(30), <1>1, <1>2, NoneOf, SeqOf
<1>4. out[1].pos \in DOMAIN wal /\ d \in Delivery
  BY <1>3, WALTyped
<1>5. /\ sink' = Apply(sink, d) /\ slot' \in {slot, out[1].pos} /\ out' = Tail(out)
      /\ UNCHANGED <<table, wal, saved, owner, cur>>
  BY Zenon, <1>3 DEF Deliver
<1> QED
  BY Zenon, <1>1, <1>3, <1>4, <1>5

\* restartLocked takes every chunk out of flight.
LEMMA RestartWindow ==
  ASSUME TypeOK, NEW n \in Nodes, StreamStarts(n) \/ StreamStops(n)
  PROVE  Touches(n) /\ \E w, v : Holds(n, w, v)
<1> DEFINE w == node[n].window
           v == Restarted(w)
<1>0. node \in [Nodes -> Coordinator] /\ node[n] \in Coordinator /\ w \in Seq(Chunk)
  BY Zenon, NodeTyped
<1>1. \A i \in DOMAIN w : w[i] \in Chunk
  BY Zenon, <1>0, WindowOf
<1>2. /\ v = [i \in DOMAIN w |-> v[i]]
      /\ \A i \in DOMAIN w :
           \/ v[i] = [w[i] EXCEPT !.known = FALSE, !.live = FALSE]
           \/ v[i] = w[i] /\ ~w[i].known
  <2>1. CASE \E i \in DOMAIN w : w[i].known
    <3>1. v = [i \in DOMAIN w |-> [w[i] EXCEPT !.known = FALSE, !.live = FALSE]]
      BY Zenon, <2>1 DEF Restarted
    <3> HIDE DEF v
    <3> QED
      BY Zenon, <3>1
  <2>2. CASE ~\E i \in DOMAIN w : w[i].known
    <3>1. v = w
      BY Zenon, <2>2 DEF Restarted
    <3>2. w = [i \in DOMAIN w |-> w[i]]
      BY <1>0
    <3> QED
      BY Zenon, <2>2, <3>1, <3>2
  <2> QED
    BY Zenon, <2>1, <2>2
<1>3. v \in Seq(Chunk) =>
        Becomes(n, v, node[n].lane, node[n].seq, node[n].cursor, node[n].next,
                node[n].cached, node[n].exhausted)
  <2> DEFINE a == IF slot < 0 THEN "list" ELSE node[n].all
  <2>1. a \in {"off", "list", "mark", "queue"}
    BY Zenon, <1>0 DEF Coordinator
  <2>2. \/ node' = [node EXCEPT ![n].streaming = TRUE, ![n].window = v, ![n].all = a]
        \/ node' = [node EXCEPT ![n].streaming = FALSE, ![n].window = v]
    BY Zenon, <1>0 DEF StreamStarts, StreamStops, Coordinator
  <2> HIDE DEF v, a
  <2>3. CASE node' = [node EXCEPT ![n].streaming = TRUE, ![n].window = v, ![n].all = a]
    BY Zenon, <1>0, <2>1, <2>3 DEF Becomes, Touches, Coordinator
  <2>4. CASE node' = [node EXCEPT ![n].streaming = FALSE, ![n].window = v]
    BY Zenon, <1>0, <2>4 DEF Becomes, Touches, Coordinator
  <2> QED
    BY Zenon, <2>2, <2>3, <2>4
<1> HIDE DEF v
<1>4. \A i \in DOMAIN w : Stays(n, w[i], v[i])
  <2>1. ASSUME NEW c \in Chunk, NEW d, d = [c EXCEPT !.known = FALSE, !.live = FALSE]
        PROVE  Stays(n, c, d)
    BY Zenon, <2>1 DEF Chunk, SameRange, Stays, RestartsChunk
  <2>2. ASSUME NEW c \in Chunk, ~c.known
        PROVE  Stays(n, c, c)
    BY Zenon, <2>2 DEF SameRange, Stays, RestartsChunk
  <2> QED
    BY Zenon, <1>1, <1>2, <2>1, <2>2
<1> QED
  BY Zenon, <1>2, <1>3, <1>4, HoldsRewritten

\* ObserveEvent shows the key to the chunks that collect.
LEMMA ObserveWindow ==
  ASSUME BackfillAssumption, TypeOK, ReadChange
  PROVE  owner \in Nodes /\ Touches(owner) /\ \E w, v : Holds(owner, w, v)
<1> DEFINE r == wal[cur + 1]
           w == node[owner].window
           v == Observe(w, r)
<1>1. owner \in Nodes /\ r \in WALRecord
  BY Zenon, ReadChangeEffect
<1>2. node \in [Nodes -> Coordinator] /\ node[owner] \in Coordinator /\ w \in Seq(Chunk)
  BY Zenon, <1>1, NodeTyped
<1>3. \A i \in DOMAIN w : w[i] \in Chunk
  BY Zenon, <1>2, WindowOf
<1> DEFINE Shown(c) == r.t \in {"write", "rekey"} /\ c.known /\ c.collecting
<1>4. /\ v = [i \in DOMAIN w |-> v[i]]
      /\ \A i \in DOMAIN w :
           v[i] = IF Shown(w[i]) THEN [w[i] EXCEPT !.seen = @ \cup {r.k}] ELSE w[i]
  <2>1. CASE r.t \in {"write", "rekey"}
    <3>1. v = [i \in DOMAIN w |-> IF w[i].known /\ w[i].collecting
                 THEN [w[i] EXCEPT !.seen = @ \cup {r.k}] ELSE w[i]]
      BY Zenon, <2>1 DEF Observe
    <3> HIDE DEF v
    <3> QED
      BY Zenon, <2>1, <3>1
  <2>2. CASE r.t \notin {"write", "rekey"}
    <3>1. v = w
      BY Zenon, <2>2 DEF Observe
    <3>2. w = [i \in DOMAIN w |-> w[i]]
      BY <1>2
    <3> QED
      BY Zenon, <2>2, <3>1, <3>2
  <2> QED
    BY Zenon, <2>1, <2>2
<1>5. node' = [node EXCEPT ![owner].window = v]
  BY Zenon, <1>1, <1>2 DEF ReadChange, Coordinator
<1> HIDE DEF v, w
<1>6. v \in Seq(Chunk) =>
        Becomes(owner, v, node[owner].lane, node[owner].seq, node[owner].cursor,
                node[owner].next, node[owner].cached, node[owner].exhausted)
  BY Zenon, <1>1, <1>2, <1>5 DEF Becomes, Touches, Coordinator
<1>7. ASSUME NEW c \in Chunk, NEW d,
             d = IF Shown(c) THEN [c EXCEPT !.seen = @ \cup {r.k}] ELSE c
      PROVE  Stays(owner, c, d)
  <2>1. d \in Chunk /\ SameRange(c, d) /\ ObservesChunk(c, d, r)
    <3>1. CASE Shown(c)
      <4>1. d = [c EXCEPT !.seen = @ \cup {r.k}]
        BY Zenon, <1>7, <3>1
      <4>2. c.seen \cup {r.k} \in SUBSET Keys
        <5>1. r.k \in Keys
          BY <1>1, <3>1 DEF WALRecord
        <5> QED
          BY <5>1 DEF Chunk
      <4> QED
        BY ZenonT(40), <3>1, <4>1, <4>2 DEF Chunk, SameRange, ObservesChunk
    <3>2. CASE ~Shown(c)
      BY Zenon, <1>7, <3>2 DEF SameRange, ObservesChunk
    <3> QED
      BY Zenon, <3>1, <3>2
  <2> QED
    BY Zenon, <2>1 DEF Stays
<1> HIDE DEF Shown, r
<1>8. \A i \in DOMAIN w : Stays(owner, w[i], v[i])
  BY Zenon, <1>3, <1>4, <1>7
<1>9. w = node[owner].window
  BY DEF w
<1> QED
  BY Zenon, <1>1, <1>4, <1>6, <1>8, <1>9, HoldsRewritten

\* HandleWatermark opens or closes the collector of the chunk the mark names,
\* and a high mark takes its rows.
LEMMA MarkWindow ==
  ASSUME BackfillAssumption, TypeOK, ReadWatermark
  PROVE  owner \in Nodes /\ Touches(owner) /\ \E w, v : Holds(owner, w, v)
<1> DEFINE r == wal[cur + 1]
           w == node[owner].window
           v == Marked(w, r)
<1>1. owner \in Nodes /\ r.t \in {"low", "high"}
  BY Zenon, ReadWatermarkEffect
<1>2. node \in [Nodes -> Coordinator] /\ node[owner] \in Coordinator /\ w \in Seq(Chunk)
  BY Zenon, <1>1, NodeTyped
<1>3. \A i \in DOMAIN w : w[i] \in Chunk
  BY Zenon, <1>2, WindowOf
<1>4. v = [i \in DOMAIN w |-> IF w[i].known /\ w[i].id = r.id
            THEN [w[i] EXCEPT !.collecting = (r.t = "low"),
                              !.rows = IF r.t = "high" THEN <<>> ELSE @] ELSE w[i]]
  BY Zenon DEF Marked
<1>5. node' = [node EXCEPT ![owner].window = v]
  BY Zenon, <1>1, <1>2 DEF ReadWatermark, Coordinator
<1> HIDE DEF v, w
<1>6. v \in Seq(Chunk) =>
        Becomes(owner, v, node[owner].lane, node[owner].seq, node[owner].cursor,
                node[owner].next, node[owner].cached, node[owner].exhausted)
  BY Zenon, <1>1, <1>2, <1>5 DEF Becomes, Touches, Coordinator
<1>7. /\ v = [i \in DOMAIN w |-> v[i]]
      /\ \A i \in DOMAIN w : v[i] = IF w[i].known /\ w[i].id = r.id
            THEN [w[i] EXCEPT !.collecting = (r.t = "low"),
                              !.rows = IF r.t = "high" THEN <<>> ELSE w[i].rows] ELSE w[i]
  BY Zenon, <1>4
<1>8. ASSUME NEW c \in Chunk, NEW d,
             d = IF c.known /\ c.id = r.id
                   THEN [c EXCEPT !.collecting = (r.t = "low"),
                                  !.rows = IF r.t = "high" THEN <<>> ELSE c.rows] ELSE c
      PROVE  Stays(owner, c, d)
  <2> DEFINE R == IF r.t = "high" THEN <<>> ELSE c.rows
             b == (r.t = "low")
  <2>1. c.rows \in Rows
    BY DEF Chunk
  <2>2. R \in Rows /\ b \in BOOLEAN
    BY <2>1, NoRows
  <2>3. CASE c.known /\ c.id = r.id
    <3>1. d = [c EXCEPT !.collecting = b, !.rows = R]
      BY Zenon, <1>8, <2>3
    <3> HIDE DEF R, b
    <3>2. /\ d \in Chunk /\ SameRange(c, d)
          /\ d.known = c.known /\ d.live = c.live /\ d.seen = c.seen /\ d.done = c.done
          /\ d.collecting = b /\ d.rows = R
      BY Zenon, <2>2, <3>1 DEF Chunk, SameRange
    <3>3. MarksChunk(c, d, r)
      BY Zenon, <2>3, <3>2 DEF MarksChunk, R, b
    <3> QED
      BY Zenon, <3>2, <3>3 DEF Stays
  <2>4. CASE ~(c.known /\ c.id = r.id)
    <3>1. d = c
      BY Zenon, <1>8, <2>4
    <3> HIDE DEF R, b
    <3>2. MarksChunk(c, d, r)
      BY Zenon, <2>4, <3>1 DEF MarksChunk
    <3> QED
      BY Zenon, <3>1, <3>2 DEF Stays, SameRange
  <2> QED
    BY Zenon, <2>3, <2>4
<1> HIDE DEF r
<1>9. \A i \in DOMAIN w : Stays(owner, w[i], v[i])
  BY Zenon, <1>3, <1>7, <1>8
<1>10. w = node[owner].window
  BY DEF w
<1> QED
  BY Zenon, <1>1, <1>7, <1>6, <1>9, <1>10, HoldsRewritten

\* WatermarkDelivered completes the chunk whose rows were delivered.
LEMMA DeliverWindow ==
  ASSUME BackfillAssumption, TypeOK, Deliver
  PROVE  owner \in Nodes /\ Touches(owner) /\ \E w, v : Holds(owner, w, v)
<1> DEFINE r == out[1].d
           w == node[owner].window
           Hit(c) == r.t = "rows" /\ c.known /\ c.id = r.id
           v == [i \in DOMAIN w |-> IF Hit(w[i]) THEN [w[i] EXCEPT !.known = FALSE, !.done = TRUE]
                                    ELSE w[i]]
<1>1. owner \in Nodes /\ Head(out) = out[1]
  <2>1. out \in Seq([pos : 1..Len(wal), d : Delivery]) /\ out # <<>>
    BY Zenon, DeliverEffect DEF TypeOK
  <2>2. Head(out) = out[1]
    BY <2>1, TailOf
  <2> QED
    BY Zenon, <2>2, DeliverEffect
<1>2. node \in [Nodes -> Coordinator] /\ node[owner] \in Coordinator /\ w \in Seq(Chunk)
  BY Zenon, <1>1, NodeTyped
<1>3. \A i \in DOMAIN w : w[i] \in Chunk
  BY Zenon, <1>2, WindowOf
<1>4. node' = [node EXCEPT ![owner].window = v]
  <2>1. CASE r.t = "rows"
    <3>1. node' = [node EXCEPT ![owner].window = Completed(@, r.id)]
      BY Zenon, <1>1, <2>1 DEF Deliver
    <3>2. v = Completed(w, r.id)
      BY Zenon, <2>1 DEF Completed
    <3> QED
      BY Zenon, <1>1, <1>2, <3>1, <3>2 DEF Coordinator
  <2>2. CASE r.t # "rows"
    <3>1. node' = node
      BY Zenon, <1>1, <2>2 DEF Deliver
    <3>2. v = w
      <4>1. v = [i \in DOMAIN w |-> w[i]]
        BY Zenon, <2>2
      <4>2. w = [i \in DOMAIN w |-> w[i]]
        BY <1>2
      <4> QED
        BY Zenon, <4>1, <4>2
    <3>3. node = [node EXCEPT ![owner].window = node[owner].window]
      BY Zenon, <1>1, <1>2 DEF Coordinator
    <3> QED
      BY Zenon, <3>1, <3>2, <3>3
  <2> QED
    BY Zenon, <2>1, <2>2
<1>5. /\ v = [i \in DOMAIN w |-> v[i]]
      /\ \A i \in DOMAIN w : v[i] = IF Hit(w[i]) THEN [w[i] EXCEPT !.known = FALSE, !.done = TRUE]
                                    ELSE w[i]
  BY Zenon
<1> HIDE DEF v, w
<1>6. v \in Seq(Chunk) =>
        Becomes(owner, v, node[owner].lane, node[owner].seq, node[owner].cursor,
                node[owner].next, node[owner].cached, node[owner].exhausted)
  BY Zenon, <1>1, <1>2, <1>4 DEF Becomes, Touches, Coordinator
<1>7. ASSUME NEW c \in Chunk, NEW d,
             d = IF Hit(c) THEN [c EXCEPT !.known = FALSE, !.done = TRUE] ELSE c
      PROVE  Stays(owner, c, d)
  <2>1. CASE Hit(c)
    <3>1. d = [c EXCEPT !.known = FALSE, !.done = TRUE]
      BY Zenon, <1>7, <2>1
    <3>2. d \in Chunk /\ SameRange(c, d) /\ CompletesChunk(c, d, r)
      BY Zenon, <2>1, <3>1 DEF Chunk, SameRange, CompletesChunk
    <3> QED
      BY Zenon, <3>2 DEF Stays
  <2>2. CASE ~Hit(c)
    <3>1. d = c
      BY Zenon, <1>7, <2>2
    <3>2. CompletesChunk(c, d, r)
      BY Zenon, <2>2, <3>1 DEF CompletesChunk
    <3> QED
      BY Zenon, <3>1, <3>2 DEF Stays, SameRange
  <2> QED
    BY Zenon, <2>1, <2>2
<1> HIDE DEF Hit, r
<1>8. \A i \in DOMAIN w : Stays(owner, w[i], v[i])
  BY Zenon, <1>3, <1>5, <1>7
<1>9. w = node[owner].window
  BY DEF w
<1> QED
  BY Zenon, <1>1, <1>5, <1>6, <1>8, <1>9, HoldsRewritten

-----------------------------------------------------------------------------
(* Any step.                                                               *)

\* The WAL grows at its end; positions keep their meaning.
LEMMA Grown ==
  ASSUME TypeOK, NEW r \in WALRecord, wal' = Append(wal, r)
  PROVE  /\ wal' \in Seq(WALRecord) /\ Len(wal') = Len(wal) + 1
         /\ DOMAIN wal' = DOMAIN wal \cup {Len(wal) + 1}
         /\ \A p \in DOMAIN wal : wal'[p] = wal[p] /\ p < Len(wal) + 1
         /\ Len(wal) + 1 \notin DOMAIN wal /\ wal'[Len(wal) + 1] = r
         /\ out \in Seq([pos : 1..Len(wal'), d : Delivery])
         /\ slot \in -1..Len(wal') /\ cur \in 0..Len(wal')
<1>1. wal \in Seq(WALRecord)
  BY Zenon DEF TypeOK
<1>2. /\ wal' \in Seq(WALRecord) /\ Len(wal') = Len(wal) + 1
      /\ \A p \in 1..Len(wal) : wal'[p] = wal[p]
      /\ wal'[Len(wal) + 1] = r
  BY SMTT(30), <1>1, AppendTo
<1>3. DOMAIN wal' = 1..(Len(wal) + 1) /\ Len(wal) \in Nat /\ DOMAIN wal = 1..Len(wal)
  BY <1>1, <1>2, SeqOf
<1>4. out \in Seq([pos : 1..Len(wal'), d : Delivery])
  <2> DEFINE S == [pos : 1..Len(wal), d : Delivery]
             T == [pos : 1..Len(wal'), d : Delivery]
  <2>1. \A e \in S : e \in T
    BY <1>2, <1>3
  <2>2. out \in Seq(S)
    BY Zenon DEF TypeOK
  <2> HIDE DEF S, T
  <2>3. out \in Seq(T)
    BY SMTT(30), <2>1, <2>2
  <2> QED
    BY Zenon, <2>3 DEF T
<1>5. slot \in -1..Len(wal') /\ cur \in 0..Len(wal')
  BY <1>2, <1>3 DEF TypeOK
<1> QED
  BY SMTT(30), <1>2, <1>3, <1>4, <1>5

\* A transaction: the record it commits and the row it leaves.
LEMMA ChangeEffect ==
  ASSUME BackfillAssumption, TypeOK, Change
  PROVE  /\ \E r \in WALRecord :
              /\ r.t \in Ops /\ r.t \in {"write", "rekey", "truncate"}
              /\ wal' = Append(wal, r) /\ table' = Apply(table, r)
         /\ UNCHANGED <<slot, saved, streamVars, node>>
         /\ changes' \in 0..MaxChanges /\ UNCHANGED <<faults, replays, owed>>
<1> USE DEF BackfillAssumption
<1>1. ASSUME NEW r \in WALRecord, Commits(r)
      PROVE  /\ \E x \in WALRecord :
                  /\ x.t \in Ops /\ x.t \in {"write", "rekey", "truncate"}
                  /\ wal' = Append(wal, x) /\ table' = Apply(table, x)
             /\ UNCHANGED <<slot, saved, streamVars, node>>
             /\ changes' \in 0..MaxChanges /\ UNCHANGED <<faults, replays, owed>>
  <2>1. /\ r.t \in Ops /\ changes < MaxChanges
        /\ table' = Apply(table, r) /\ wal' = Append(wal, r) /\ changes' = changes + 1
        /\ UNCHANGED <<slot, saved, streamVars, node>> /\ UNCHANGED <<faults, replays, owed>>
    BY Zenon, <1>1 DEF Commits
  <2>2. changes' \in 0..MaxChanges
    BY <2>1 DEF TypeOK
  <2>3. r.t \in {"write", "rekey", "truncate"}
    BY Zenon, <2>1
  <2> QED
    BY Zenon, <2>1, <2>2, <2>3
<1>2. ASSUME NEW k \in Keys, NEW v \in {0, changes + 2},
             Commits([t |-> "write", k |-> k, v |-> v])
      PROVE  [t |-> "write", k |-> k, v |-> v] \in WALRecord
  <2>1. v \in Values
    BY <1>2 DEF Commits, TypeOK, Values
  <2> QED
    BY <2>1 DEF WALRecord
<1>3. ASSUME NEW k \in Keys, NEW j \in Keys
      PROVE  [t |-> "rekey", from |-> k, k |-> j, v |-> table[k]] \in WALRecord
  BY DEF WALRecord, TypeOK
<1>4. [t |-> "truncate"] \in WALRecord
  BY DEF WALRecord
<1> QED
  BY Zenon, <1>1, <1>2, <1>3, <1>4 DEF Change

\* What the database, the stream and the sinks do in a step.
Quiet == UNCHANGED <<dbVars, streamVars>>

\* Requests and lanes leave them alone, but for the watermarks they emit.
LEMMA StepKinds ==
  ASSUME Next
  PROVE  \/ Quiet
         \/ \E n \in Nodes : EmitLow(n) \/ EmitHigh(n)
         \/ \E n \in Nodes : StreamStarts(n) \/ StreamStops(n) \/ Crash(n)
         \/ ReadChange \/ ReadWatermark \/ Deliver \/ Change
<1>1. ASSUME NEW n \in Nodes, Requests(n)
      PROVE  Quiet
  BY Zenon, <1>1 DEF Quiet, Requests, AllLists, AllListFails, AllQueues, ReplayAsked,
                    ReplayQueues, Marks
<1>2. ASSUME NEW n \in Nodes, Lane(n), ~EmitLow(n), ~EmitHigh(n)
      PROVE  Quiet
  BY Zenon, <1>2 DEF Quiet, Lane, Pop, Load, LoadFails, WaitForStream, Register, Select,
                    LaneFails, HeadRestarts, HeadDone
<1>3. ASSUME NEW n \in Nodes, Start(n)
      PROVE  Quiet
  BY Zenon, <1>3 DEF Quiet, Start
<1> QED
  BY Zenon, <1>1, <1>2, <1>3 DEF Next

\* The steps that concern a node.
Steps(m) ==
  \/ Requests(m) \/ Lane(m) \/ StreamStarts(m) \/ StreamStops(m) \/ Crash(m) \/ Start(m)
  \/ owner = m /\ (ReadChange \/ ReadWatermark \/ Deliver)

\* A node's own step.
LEMMA OwnStep ==
  ASSUME BackfillAssumption, TypeOK, Selecting, NEW m \in Nodes, Laned(m), Steps(m)
  PROVE  StepOf(m)
<1>0. node \in [Nodes -> Coordinator] /\ node[m] \in Coordinator
  BY Zenon DEF TypeOK
<1>1. CASE StreamStarts(m) \/ StreamStops(m)
  BY Zenon, <1>1, RestartWindow, TurnsEffect DEF StepOf, Shape
<1>2. CASE owner = m /\ ReadChange
  BY Zenon, <1>2, ObserveWindow, ReadChangeEffect DEF StepOf, Shape
<1>3. CASE owner = m /\ ReadWatermark
  BY Zenon, <1>3, MarkWindow, ReadWatermarkEffect DEF StepOf, Shape
<1>4. CASE owner = m /\ Deliver
  BY Zenon, <1>4, DeliverWindow, DeliverEffect DEF StepOf, Shape
<1>5. CASE Crash(m)
  <2>1. Touches(m) /\ Same(m, node[m].lane, node[m].cached)
    BY Zenon, <1>0, <1>5 DEF Crash, Touches, Same, Coordinator
  <2>2. /\ owner' = m => owner = m /\ cur' = cur /\ out' = out
        /\ UNCHANGED saved
    BY Zenon, <1>5, TurnsEffect DEF BackfillAssumption
  <2>3. Moves(m, node[m].window, node[m].exhausted, node[m].lane, node[m].lane)
    BY Zenon DEF Moves
  <2> QED
    BY Zenon, <2>1, <2>2, <2>3, HoldsSame DEF StepOf, Shape
<1>6. CASE Start(m)
  <2>1. saved \in Progress /\ <<>> \in Seq(Chunk) /\ node[m].seq \in Nat
    BY NodeTyped, NoneOf, SeqOf DEF TypeOK
  <2> DEFINE c == Started(node[m].seq, saved)
  <2>2. c \in Coordinator
    BY Zenon, <2>1, ProgressTyped DEF Started, Coordinator, Progress
  <2>3. /\ c.window = <<>> /\ c.lane = "idle" /\ c.seq = node[m].seq /\ c.cursor = 0
        /\ c.cached = saved
    BY Zenon DEF Started
  <2>4. node' = [node EXCEPT ![m] = c] /\ UNCHANGED saved
    BY Zenon, <1>6 DEF Start
  <2> HIDE DEF c
  <2>5. Touches(m) /\ node'[m] = c
    BY Zenon, <1>0, <2>2, <2>4 DEF Touches
  <2>6. ~IsOpen("idle") /\ ~Going("idle") /\ \A e : LanedAs(<<>>, "idle", e)
    BY DEF IsOpen, Going, LanedAs
  <2> QED
    BY Zenon, <2>3, <2>4, <2>5, <2>6 DEF StepOf, Shape, Drops
<1> QED
  BY Zenon, <1>1, <1>2, <1>3, <1>4, <1>5, <1>6, RequestsStep, LaneStep DEF Steps

\* What a step is to the window of any node, and to the saved progress.
LEMMA WindowStep ==
  ASSUME BackfillAssumption, TypeInv, Selecting, Next
  PROVE  /\ node' \in [Nodes -> Coordinator] /\ saved' \in Progress
         /\ saved' \in {saved, Pending} \/ \E n \in Nodes : HeadDone(n)
         /\ \A m \in Nodes : Shape(m)
<1>1. TypeOK /\ \A n \in Nodes : Laned(n)
  BY Zenon DEF TypeInv
<1>2. \/ \E n \in Nodes : Steps(n)
      \/ owner \notin Nodes /\ (ReadChange \/ ReadWatermark \/ Deliver)
      \/ Change
  BY Zenon DEF Next, Steps
<1>3. ~(owner \notin Nodes /\ (ReadChange \/ ReadWatermark \/ Deliver))
  BY Zenon, <1>1, ReadChangeEffect, ReadWatermarkEffect, DeliverEffect
<1>4. ASSUME NEW m \in Nodes, node'[m] = node[m],
             owner' = m => owner = m /\ cur' = cur /\ out' = out
      PROVE  Shape(m)
  <2>1. Same(m, node[m].lane, node[m].cached)
    BY Zenon, <1>4 DEF Same
  <2>2. Moves(m, node[m].window, node[m].exhausted, node[m].lane, node[m].lane)
    BY Zenon DEF Moves
  <2> QED
    BY Zenon, <1>1, <1>4, <2>1, <2>2, HoldsSame DEF Shape
<1>5. ASSUME Change
      PROVE  /\ node' \in [Nodes -> Coordinator] /\ saved' = saved
             /\ \A m \in Nodes : Shape(m)
  <2>1. node' = node /\ saved' = saved /\ UNCHANGED streamVars
    BY Zenon, <1>1, <1>5, ChangeEffect
  <2>2. node \in [Nodes -> Coordinator]
    BY Zenon, <1>1 DEF TypeOK
  <2> QED
    BY Zenon, <1>4, <2>1, <2>2 DEF streamVars
<1>6. ASSUME NEW n \in Nodes, Steps(n)
      PROVE  /\ StepOf(n) /\ node' \in [Nodes -> Coordinator]
             /\ \A m \in Nodes : Shape(m)
  <2>1. StepOf(n)
    BY Zenon, <1>1, <1>6, OwnStep
  <2>2. ASSUME NEW m \in Nodes, m # n
        PROVE  owner' = m => owner = m /\ cur' = cur /\ out' = out
    <3>1. CASE Requests(n) \/ Lane(n) \/ Start(n)
      <4>1. UNCHANGED streamVars
        BY Zenon, <3>1 DEF Requests, AllLists, AllListFails, AllQueues, ReplayAsked,
                 ReplayQueues, Marks, Lane, Pop, Load, LoadFails, WaitForStream, Register,
                 EmitLow, Select, EmitHigh, LaneFails, HeadRestarts, HeadDone, Start
      <4> QED
        BY Zenon, <4>1 DEF streamVars
    <3>2. CASE StreamStarts(n) \/ StreamStops(n) \/ Crash(n)
      BY Zenon, <2>2, <3>2, TurnsEffect DEF BackfillAssumption
    <3>3. CASE owner = n /\ (ReadChange \/ ReadWatermark \/ Deliver)
      BY Zenon, <1>1, <2>2, <3>3, ReadChangeEffect, ReadWatermarkEffect, DeliverEffect
    <3> QED
      BY Zenon, <1>6, <3>1, <3>2, <3>3 DEF Steps
  <2> QED
    BY Zenon, <1>4, <2>1, <2>2 DEF StepOf, Touches
<1>7. saved \in Progress /\ Pending \in Progress
  BY Zenon, <1>1, ProgressTyped DEF TypeOK
<1>8. ASSUME NEW n \in Nodes, HeadDone(n) PROVE saved' \in Progress
  BY Zenon, <1>1, <1>7, <1>8, HeadDoneEffect
<1> QED
  BY Zenon, <1>2, <1>3, <1>5, <1>6, <1>7, <1>8 DEF StepOf

-----------------------------------------------------------------------------
(* The marks in the WAL.                                                   *)

MarkAt(s, t, id) == {p \in DOMAIN s : s[p].t = t /\ s[p].id = id}
Kinds == {"low", "high"}

\* What a step adds to the marks: nothing, or a mark of kind k for chunk x.
SameMarks == \A t \in Kinds, id \in ChunkId : MarkAt(wal', t, id) = MarkAt(wal, t, id)
AddsMark(k, x) ==
  /\ \A t \in Kinds, id \in ChunkId : t # k \/ id # x => MarkAt(wal', t, id) = MarkAt(wal, t, id)
  /\ MarkAt(wal', k, x) = MarkAt(wal, k, x) \cup {Len(wal) + 1}

\* Marks are positions of the WAL.
LEMMA MarksTyped ==
  ASSUME TypeOK, NEW t, NEW id, NEW p \in MarkAt(wal, t, id)
  PROVE  p \in Nat /\ p <= Len(wal) /\ p \in DOMAIN wal /\ wal[p].t = t /\ wal[p].id = id
  BY WALTyped DEF MarkAt

\* Only EmitLow and EmitHigh write marks.
LEMMA MarksStep ==
  ASSUME BackfillAssumption, TypeInv, Selecting, Next,
         ~\E n \in Nodes : EmitLow(n) \/ EmitHigh(n)
  PROVE  SameMarks
<1>0. TypeOK
  BY Zenon DEF TypeInv
<1>1. CASE wal' = wal
  BY Zenon, <1>1 DEF SameMarks, MarkAt
<1>2. CASE Change
  <2>1. PICK r \in WALRecord : r.t \notin Kinds /\ wal' = Append(wal, r)
    <3>1. PICK r \in WALRecord : r.t \in {"write", "rekey", "truncate"} /\ wal' = Append(wal, r)
      BY Zenon, <1>0, <1>2, ChangeEffect
    <3> QED
      BY <3>1 DEF Kinds
  <2>2. /\ DOMAIN wal' = DOMAIN wal \cup {Len(wal) + 1}
        /\ \A p \in DOMAIN wal : wal'[p] = wal[p]
        /\ wal'[Len(wal) + 1] = r
    BY Zenon, <1>0, <2>1, Grown
  <2>3. ASSUME NEW t \in Kinds, NEW id \in ChunkId
        PROVE  MarkAt(wal', t, id) = MarkAt(wal, t, id)
    BY Zenon, <2>1, <2>2 DEF MarkAt
  <2> QED
    BY Zenon, <2>3 DEF SameMarks
<1>3. wal' = wal \/ Change
  <2>1. \/ Quiet \/ Change \/ ReadChange \/ ReadWatermark \/ Deliver
        \/ \E n \in Nodes : StreamStarts(n) \/ StreamStops(n) \/ Crash(n)
    BY Zenon, StepKinds DEF TypeInv
  <2> QED
    BY Zenon, <2>1 DEF Quiet, ReadChange, ReadWatermark, Deliver, StreamStarts, StreamStops,
                       Crash, dbVars
<1> QED
  BY Zenon, <1>1, <1>2, <1>3

\* Each of them writes one, of the newest chunk, at the end of the WAL.
LEMMA EmitMarks ==
  ASSUME BackfillAssumption, TypeInv, NEW n \in Nodes, EmitLow(n) \/ EmitHigh(n),
         NEW k, k = node[n].lane, NEW x, x = node[n].window[Len(node[n].window)].id
  PROVE  x \in ChunkId /\ k \in Kinds /\ AddsMark(k, x)
<1>0. TypeOK /\ Laned(n)
  BY Zenon DEF TypeInv
<1> DEFINE r == [t |-> k, id |-> x]
<1>1. x \in ChunkId /\ k \in Kinds /\ r \in WALRecord /\ wal' = Append(wal, r)
  BY Zenon, <1>0, EmitEffect DEF Kinds
<1>2. r.t = k /\ r.id = x
  OBVIOUS
<1> HIDE DEF r
<1>3. /\ DOMAIN wal' = DOMAIN wal \cup {Len(wal) + 1}
      /\ \A p \in DOMAIN wal : wal'[p] = wal[p]
      /\ wal'[Len(wal) + 1] = r /\ Len(wal) + 1 \notin DOMAIN wal
  BY Zenon, <1>0, <1>1, Grown
<1>4. ASSUME NEW t \in Kinds, NEW id \in ChunkId, t # k \/ id # x
      PROVE  MarkAt(wal', t, id) = MarkAt(wal, t, id)
  BY Zenon, <1>2, <1>3, <1>4 DEF MarkAt
<1>5. MarkAt(wal', k, x) = MarkAt(wal, k, x) \cup {Len(wal) + 1}
  <2>1. ASSUME NEW p
        PROVE  p \in MarkAt(wal', k, x) <=> p \in MarkAt(wal, k, x) \/ p = Len(wal) + 1
    BY Zenon, <1>2, <1>3 DEF MarkAt
  <2> QED
    BY Zenon, <2>1
<1> QED
  BY Zenon, <1>1, <1>4, <1>5 DEF AddsMark

-----------------------------------------------------------------------------
(* The invariant of the marks.                                             *)

\* A mark's sequence number has been given out.
MarkIds ==
  \A t \in Kinds, id \in ChunkId : MarkAt(wal, t, id) # {} => id[2] <= node[id[1]].seq

\* A chunk has one mark of each kind, the low one before the high one.
MarksOnce == \A t \in Kinds, id \in ChunkId : \A p, q \in MarkAt(wal, t, id) : p = q
LowFirst ==
  \A id \in ChunkId : \A h \in MarkAt(wal, "high", id) : \E l \in MarkAt(wal, "low", id) : l < h

\* Rows queued for the sinks are those of a chunk whose high mark was read.
OutMarks ==
  \A i \in DOMAIN out : out[i].d.t = "rows" => out[i].pos \in MarkAt(wal, "high", out[i].d.id)

\* The chunks of a window are the node's own, in the order of their numbers.
WindowIds(n, w, q) ==
  \A i \in DOMAIN w :
    /\ w[i].id \in ChunkId /\ w[i].id[1] = n /\ w[i].id[2] <= q
    /\ \A j \in DOMAIN w : i < j => w[i].id[2] < w[j].id[2]

\* The marks of the chunk the lane works on.
LaneMarks(s, w, l) ==
  IsOpen(l) =>
    /\ MarkAt(s, "high", w[Len(w)].id) = {}
    /\ l = "low" <=> MarkAt(s, "low", w[Len(w)].id) = {}

\* Every other chunk in flight has its high mark, before the low marks of the
\* chunks behind it.
HighEmitted(s, w, l) ==
  \A i \in DOMAIN w :
    w[i].known /\ ~(IsOpen(l) /\ i = Len(w)) => MarkAt(s, "high", w[i].id) # {}
Ordered(s, w) ==
  \A i, j \in DOMAIN w : i < j /\ w[i].known =>
    \A p \in MarkAt(s, "low", w[j].id) : \E h \in MarkAt(s, "high", w[i].id) : h < p

\* A chunk is in flight, done or abandoned.
InFlight(w) == \A i \in DOMAIN w : w[i].known \/ w[i].done \/ ~w[i].live

LaneInvOf(s, n, w, l, q) ==
  /\ WindowIds(n, w, q) /\ LaneMarks(s, w, l) /\ HighEmitted(s, w, l)
  /\ Ordered(s, w) /\ InFlight(w)
LaneInv(n) == LaneInvOf(wal, n, node[n].window, node[n].lane, node[n].seq)

\* A chunk that collects is between its marks at the position c of the stream.
Reading(s, w, c) ==
  \A i \in DOMAIN w : Collecting(w[i]) =>
    /\ \E p \in MarkAt(s, "low", w[i].id) : p <= c
    /\ \A h \in MarkAt(s, "high", w[i].id) : h > c

\* One chunk of a node collects at a time.
Alone(w) == \A i, j \in DOMAIN w : Collecting(w[i]) /\ Collecting(w[j]) => i = j

\* The chunk whose rows are still to be selected is not done.
NotDone(n) == node[n].lane \in {"low", "select"} => ~node[n].window[Newest(n)].done

MarksInv ==
  /\ MarkIds /\ MarksOnce /\ LowFirst /\ OutMarks
  /\ \A n \in Nodes :
       /\ LaneInv(n) /\ NotDone(n) /\ Alone(node[n].window)
       /\ owner = n => Reading(wal, node[n].window, cur)

\* Marks stay where they are, and new ones come at the end of the WAL.
LEMMA MarksGrow ==
  ASSUME BackfillAssumption, TypeInv, Selecting, Next, NEW t \in Kinds, NEW id \in ChunkId
  PROVE  /\ MarkAt(wal, t, id) \subseteq MarkAt(wal', t, id)
         /\ MarkAt(wal', t, id) \subseteq MarkAt(wal, t, id) \cup {Len(wal) + 1}
<1> DEFINE A == MarkAt(wal, t, id)
           B == MarkAt(wal', t, id)
<1>1. ASSUME NEW n \in Nodes, EmitLow(n) \/ EmitHigh(n)
      PROVE  B = A \/ B = A \cup {Len(wal) + 1}
  <2> DEFINE k == node[n].lane
             x == node[n].window[Len(node[n].window)].id
  <2>1. x \in ChunkId /\ k \in Kinds /\ AddsMark(k, x)
    BY Zenon, <1>1, EmitMarks
  <2> HIDE DEF k, x
  <2> QED
    BY Zenon, <2>1 DEF AddsMark
<1>2. SameMarks => B = A
  BY Zenon DEF SameMarks
<1>3. B = A \/ B = A \cup {Len(wal) + 1}
  BY Zenon, <1>1, <1>2, MarksStep
<1> HIDE DEF A, B
<1>4. A \subseteq B /\ B \subseteq A \cup {Len(wal) + 1}
  BY Zenon, <1>3
<1> QED
  BY Zenon, <1>4 DEF A, B

-----------------------------------------------------------------------------
(* Types.                                                                  *)

\* What Apply makes of a table, or of the sinks, is one again.
LEMMA ApplyTyped ==
  ASSUME BackfillAssumption, NEW data \in [Keys -> Values], NEW r \in Delivery
  PROVE  Apply(data, r) \in [Keys -> Values]
<1>0. 0 \in Values
  BY DEF Values, BackfillAssumption
<1>1. CASE r.t = "write"
  <2>1. r.k \in Keys /\ r.v \in Values
    BY <1>1 DEF Delivery, WALRecord
  <2>2. Apply(data, r) = [data EXCEPT ![r.k] = r.v]
    BY Zenon, <1>1 DEF Apply
  <2> QED
    BY <2>1, <2>2
<1>2. CASE r.t = "rekey"
  <2>1. r.from \in Keys /\ r.k \in Keys /\ r.v \in Values
    BY <1>2 DEF Delivery, WALRecord
  <2>2. Apply(data, r) = [data EXCEPT ![r.from] = 0, ![r.k] = r.v]
    BY <1>2 DEF Apply
  <2> QED
    BY <1>0, <2>1, <2>2
<1>3. CASE r.t = "truncate"
  <2>1. Apply(data, r) = [k \in Keys |-> 0]
    BY <1>3 DEF Apply
  <2> QED
    BY <1>0, <2>1
<1>4. CASE r.t = "rows"
  <2>1. r.rows \in Rows
    BY <1>4 DEF Delivery, WALRecord
  <2>2. PICK K \in SUBSET Keys : r.rows \in [K -> Values]
    BY Zenon, <2>1 DEF Rows
  <2>3. Apply(data, r) = [k \in Keys |-> IF k \in DOMAIN r.rows THEN r.rows[k] ELSE data[k]]
    BY <1>4 DEF Apply
  <2> QED
    BY <2>2, <2>3
<1>5. CASE r.t \in {"low", "high"}
  <2>1. Apply(data, r) = data
    BY <1>5 DEF Apply
  <2> QED
    BY <2>1
<1> QED
  BY SMTT(30), <1>1, <1>2, <1>3, <1>4, <1>5 DEF Delivery, WALRecord

\* The bounds are kept.
LEMMA CountersTyped ==
  ASSUME BackfillAssumption, TypeOK, Next
  PROVE  /\ changes' \in 0..MaxChanges /\ faults' \in 0..MaxFaults
         /\ replays' \in 0..MaxReplays /\ owed' \in BOOLEAN
<1> DEFINE Kept == /\ changes' \in 0..MaxChanges /\ faults' \in 0..MaxFaults
                   /\ replays' \in 0..MaxReplays /\ owed' \in BOOLEAN
<1>0. /\ changes \in 0..MaxChanges /\ faults \in 0..MaxFaults
      /\ replays \in 0..MaxReplays /\ owed \in BOOLEAN
  BY Zenon DEF TypeOK
<1>1. ASSUME NEW kind, Fault(kind), owed' \in BOOLEAN
      PROVE  Kept
  BY <1>0, <1>1 DEF Fault, BackfillAssumption
<1>2. ASSUME UNCHANGED counters, owed' \in BOOLEAN
      PROVE  Kept
  BY Zenon, <1>0, <1>2 DEF counters
<1>3. ASSUME NEW n \in Nodes, Requests(n)
      PROVE  Kept
  <2>1. CASE ReplayAsked(n)
    BY <1>0, <2>1 DEF ReplayAsked, BackfillAssumption
  <2>2. CASE AllLists(n) \/ AllListFails(n) \/ AllQueues(n) \/ ReplayQueues(n)
    BY Zenon, <1>0, <1>1, <1>2, <2>2 DEF AllLists, AllListFails, AllQueues, ReplayQueues
  <2>3. CASE Marks(n, "all") \/ Marks(n, "replay")
    BY Zenon, <1>0, <1>1, <1>2, <2>3 DEF Marks
  <2> QED
    BY Zenon, <1>3, <2>1, <2>2, <2>3 DEF Requests
<1>4. ASSUME NEW n \in Nodes, Lane(n)
      PROVE  Kept
  <2>1. CASE Pop(n) \/ Load(n) \/ WaitForStream(n) \/ Register(n) \/ EmitLow(n)
             \/ EmitHigh(n) \/ HeadRestarts(n)
    BY Zenon, <1>0, <1>2, <2>1
       DEF Pop, Load, WaitForStream, Register, EmitLow, EmitHigh, HeadRestarts
  <2>2. CASE LoadFails(n) \/ LaneFails(n)
    BY Zenon, <1>0, <1>1, <2>2 DEF LoadFails, LaneFails
  <2>3. CASE Select(n)
    <3>1. UNCHANGED counters /\ owed' = (owed /\ node[n].next # 0)
      BY Zenon, <2>3 DEF Select
    <3>2. owed' \in BOOLEAN
      BY Zenon, <3>1
    <3> QED
      BY Zenon, <1>2, <3>1, <3>2
  <2>4. CASE HeadDone(n)
    <3>1. UNCHANGED owed /\ (UNCHANGED counters \/ Fault("save"))
      BY Zenon, <2>4 DEF HeadDone
    <3> QED
      BY Zenon, <1>0, <1>1, <1>2, <3>1
  <2> QED
    BY Zenon, <1>4, <2>1, <2>2, <2>3, <2>4 DEF Lane
<1>5. ASSUME NEW n \in Nodes, StreamStarts(n) \/ StreamStops(n) \/ Start(n)
      PROVE  Kept
  BY Zenon, <1>0, <1>1, <1>2, <1>5 DEF StreamStarts, StreamStops, Start
<1>6. ASSUME NEW n \in Nodes, Crash(n)
      PROVE  Kept
  <2>1. Fault("crash") /\ owed' = (owed /\ node[n].replay = "off")
    BY Zenon, <1>6 DEF Crash
  <2>2. owed' \in BOOLEAN
    BY Zenon, <2>1
  <2> QED
    BY Zenon, <1>1, <2>1, <2>2
<1>7. CASE ReadChange \/ ReadWatermark \/ Deliver
  BY Zenon, <1>0, <1>2, <1>7 DEF ReadChange, ReadWatermark, Deliver
<1>8. CASE Change
  BY Zenon, <1>0, <1>8, ChangeEffect
<1> QED
  BY Zenon, <1>3, <1>4, <1>5, <1>6, <1>7, <1>8 DEF Next

\* Every step keeps the types.
LEMMA TypeStep ==
  ASSUME BackfillAssumption, TypeInv, Selecting, [Next]_vars
  PROVE  TypeOK'
<1> DEFINE Kept ==
      /\ table' \in [Keys -> Values] /\ sink' \in [Keys -> Values]
      /\ wal' \in Seq(WALRecord)
      /\ slot' \in -1..Len(wal') /\ cur' \in 0..Len(wal')
      /\ owner' \in Nodes \cup {None}
      /\ out' \in Seq([pos : 1..Len(wal'), d : Delivery])
<1>0. /\ table \in [Keys -> Values] /\ sink \in [Keys -> Values]
      /\ wal \in Seq(WALRecord)
      /\ slot \in -1..Len(wal) /\ cur \in 0..Len(wal)
      /\ owner \in Nodes \cup {None}
      /\ out \in Seq([pos : 1..Len(wal), d : Delivery])
  BY Zenon DEF TypeOK, TypeInv
<1>. TypeOK /\ \A n \in Nodes : Laned(n)
  BY Zenon DEF TypeInv
<1>1. CASE UNCHANGED vars
  BY Zenon, <1>1 DEF vars, dbVars, streamVars, counters, TypeOK
<1>2. CASE Next
  <2>1. ASSUME Quiet
        PROVE  Kept
    BY Zenon, <1>0, <2>1 DEF Quiet, dbVars, streamVars
  <2>2. ASSUME NEW n \in Nodes, EmitLow(n) \/ EmitHigh(n)
        PROVE  Kept
    <3> DEFINE r == [t |-> node[n].lane, id |-> node[n].window[Len(node[n].window)].id]
    <3>1. r \in WALRecord /\ wal' = Append(wal, r) /\ UNCHANGED <<table, slot, streamVars>>
      BY Zenon, <2>2, EmitEffect
    <3> HIDE DEF r
    <3>2. /\ wal' \in Seq(WALRecord)
          /\ out \in Seq([pos : 1..Len(wal'), d : Delivery])
          /\ slot \in -1..Len(wal') /\ cur \in 0..Len(wal')
      BY Zenon, <3>1, Grown
    <3> QED
      BY Zenon, <1>0, <3>1, <3>2 DEF streamVars
  <2>3. ASSUME NEW n \in Nodes, StreamStarts(n)
        PROVE  Kept
    <3>1. /\ UNCHANGED <<table, wal, sink>> /\ owner' = n /\ out' = <<>>
          /\ slot' = (IF slot < 0 THEN 0 ELSE slot) /\ cur' = slot'
      BY Zenon, <2>3, TurnsEffect
    <3>2. Len(wal) \in Nat
      BY WALTyped
    <3>3. slot' \in -1..Len(wal) /\ cur' \in 0..Len(wal)
      BY <1>0, <3>1, <3>2
    <3>4. out' \in Seq([pos : 1..Len(wal), d : Delivery])
      BY <3>1, NoneOf, SeqOf
    <3> QED
      BY Zenon, <1>0, <3>1, <3>3, <3>4
  <2>4. ASSUME NEW n \in Nodes, StreamStops(n) \/ Crash(n)
        PROVE  Kept
    <3>1. /\ UNCHANGED <<table, wal, slot, cur, sink>>
          /\ \/ owner' = None /\ out' = <<>>
             \/ UNCHANGED <<owner, out>>
      BY Zenon, <2>4, TurnsEffect DEF dbVars
    <3>2. <<>> \in Seq([pos : 1..Len(wal), d : Delivery])
      BY NoneOf, SeqOf
    <3> QED
      BY Zenon, <1>0, <3>1, <3>2
  <2>5. ASSUME ReadChange \/ ReadWatermark
        PROVE  Kept
    <3>1. /\ owner \in Nodes /\ cur + 1 \in DOMAIN wal /\ cur' = cur + 1
          /\ UNCHANGED <<table, wal, slot, owner, sink>>
          /\ \/ out' = out
             \/ \E d \in Delivery : out' = Append(out, [pos |-> cur + 1, d |-> d])
      <4>1. CASE ReadChange
        BY Zenon, <4>1, ReadChangeEffect DEF dbVars, Delivery
      <4>2. CASE ReadWatermark
        <5> DEFINE r == wal[cur + 1]
        <5>0. r = wal[cur + 1]
          BY Zenon
        <5> HIDE DEF r
        <5>1. /\ owner \in Nodes /\ cur + 1 \in DOMAIN wal /\ cur' = cur + 1
              /\ r \in WALRecord
              /\ UNCHANGED <<dbVars, owner, sink>>
              /\ \/ out' = out
                 \/ \E d \in Surviving(node[owner].window, r) :
                      out' = Append(out, [pos |-> cur + 1, d |-> d])
          BY Zenon, <4>2, <5>0, ReadWatermarkEffect
        <5>2. node[owner].window \in Seq(Chunk)
          BY Zenon, <5>1, NodeTyped
        <5>3. \A d \in Surviving(node[owner].window, r) : d \in Delivery
          BY Zenon, <5>1, <5>2, SurvivingTyped
        <5> QED
          BY Zenon, <5>1, <5>3 DEF dbVars
      <4> QED
        BY Zenon, <2>5, <4>1, <4>2
    <3>2. cur + 1 \in 1..Len(wal) /\ cur' \in 0..Len(wal)
      BY <3>1, WALTyped
    <3>3. out' \in Seq([pos : 1..Len(wal), d : Delivery])
      <4>1. ASSUME NEW d \in Delivery
            PROVE  Append(out, [pos |-> cur + 1, d |-> d])
                     \in Seq([pos : 1..Len(wal), d : Delivery])
        <5>1. [pos |-> cur + 1, d |-> d] \in [pos : 1..Len(wal), d : Delivery]
          BY Zenon, <3>2
        <5> QED
          BY <1>0, <5>1, AppendTo
      <4> QED
        BY Zenon, <1>0, <3>1, <4>1
    <3> QED
      BY Zenon, <1>0, <3>1, <3>2, <3>3
  <2>6. ASSUME Deliver
        PROVE  Kept
    <3> DEFINE d == out[1].d
    <3>1. /\ out # <<>> /\ out[1].pos \in DOMAIN wal /\ d \in Delivery
          /\ sink' = Apply(sink, d) /\ slot' \in {slot, out[1].pos} /\ out' = Tail(out)
          /\ UNCHANGED <<table, wal, owner, cur>>
      BY Zenon, <2>6, DeliverEffect
    <3> HIDE DEF d
    <3>2. sink' \in [Keys -> Values]
      BY Zenon, <1>0, <3>1, ApplyTyped
    <3>3. out' \in Seq([pos : 1..Len(wal), d : Delivery])
      BY <1>0, <3>1, TailOf
    <3>4. slot' \in -1..Len(wal)
      BY <1>0, <3>1, WALTyped
    <3> QED
      BY Zenon, <1>0, <3>1, <3>2, <3>3, <3>4
  <2>7. ASSUME Change
        PROVE  Kept
    <3>1. PICK r \in WALRecord : wal' = Append(wal, r) /\ table' = Apply(table, r)
      BY Zenon, <2>7, ChangeEffect
    <3>2. UNCHANGED <<slot, streamVars>>
      BY Zenon, <2>7, ChangeEffect
    <3>3. r \in Delivery
      BY Zenon DEF Delivery
    <3>4. table' \in [Keys -> Values]
      BY Zenon, <1>0, <3>1, <3>3, ApplyTyped
    <3>5. /\ wal' \in Seq(WALRecord)
          /\ out \in Seq([pos : 1..Len(wal'), d : Delivery])
          /\ slot \in -1..Len(wal') /\ cur \in 0..Len(wal')
      BY Zenon, <3>1, Grown
    <3> QED
      BY Zenon, <1>0, <3>2, <3>4, <3>5 DEF streamVars
  <2>8. Kept
    BY Zenon, <1>2, <2>1, <2>2, <2>3, <2>4, <2>5, <2>6, <2>7, StepKinds
  <2>9. node' \in [Nodes -> Coordinator] /\ saved' \in Progress
    BY Zenon, <1>2, WindowStep
  <2>10. /\ changes' \in 0..MaxChanges /\ faults' \in 0..MaxFaults
         /\ replays' \in 0..MaxReplays /\ owed' \in BOOLEAN
    BY Zenon, <1>2, CountersTyped
  <2> QED
    BY Zenon, <2>8, <2>9, <2>10 DEF TypeOK
<1> QED
  BY Zenon, <1>1, <1>2

\* Every step keeps a lane where it may be.
LEMMA LanedStep ==
  ASSUME BackfillAssumption, TypeInv, Selecting, Next, NEW m \in Nodes
  PROVE  Laned(m)'
<1> DEFINE w == node[m].window
           l == node[m].lane
           e == node[m].exhausted
<1>. TypeOK /\ Laned(m)
  BY Zenon DEF TypeInv
<1>0. w \in Seq(Chunk) /\ LanedAs(w, l, e)
  BY Zenon, NodeTyped DEF Laned
<1>1. ASSUME NEW u, NEW v, Holds(m, u, v)
      PROVE  Laned(m)'
  <2>1. /\ u = w /\ v \in Seq(Chunk) /\ Len(v) = Len(w) /\ v = node'[m].window
        /\ node'[m].exhausted = e /\ LanedAs(w, node'[m].lane, e)
        /\ \A i \in DOMAIN w : v[i].count = w[i].count
    BY Zenon, <1>0, <1>1 DEF Holds, Moves, Stays, SameRange
  <2>2. (w = <<>>) = (v = <<>>)
    BY SMTT(30), <1>0, <2>1, NoneOf, SeqOf
  <2>3. w # <<>> => v[Len(v)].count = w[Len(w)].count
    BY <1>0, <2>1, NoneOf, SeqOf, WindowOf
  <2> QED
    BY Zenon, <2>1, <2>2, <2>3 DEF Laned, LanedAs
<1>2. CASE Register(m)
  <2> DEFINE v == Append(w, NewChunk(m))
             q == node[m].seq + 1
  <2>1. Becomes(m, v, "low", q, node[m].cursor, node[m].next, node[m].cached, e)
        /\ l = "register"
    BY Zenon, <1>2, RegisterEffect
  <2>2. v # <<>>
    BY SMTT(30), <1>0, NewChunkTyped, AppendTo
  <2> HIDE DEF v, q
  <2>3. LanedAs(v, "low", e)
    BY <1>0, <2>1, <2>2 DEF LanedAs
  <2> QED
    BY Zenon, <2>1, <2>3 DEF Becomes, Laned
<1>3. CASE Select(m)
  <2>1. PICK u, v, K : Fills(m, u, v, K) /\ FillsChunk(u[Len(u)], v[Len(u)], K)
    BY Zenon, <1>0, <1>3, SelectStep
  <2> DEFINE a == IF K = {} THEN "run" ELSE "high"
             f == Cardinality(K) < ChunkSize
             x == LastCursor(K)
  <2>2. /\ Becomes(m, v, a, node[m].seq, node[m].cursor, x, node[m].cached, f)
        /\ Len(u) \in Nat \ {0} /\ v \in Seq(Chunk) /\ Len(v) = Len(u)
    BY Zenon, <2>1 DEF Fills
  <2>3. v # <<>>
    BY <2>2, NoneOf, SeqOf
  <2>4. a \in {"run", "high"} /\ (f => v[Len(v)].count < ChunkSize)
    BY Zenon, <2>1, <2>2 DEF FillsChunk
  <2> HIDE DEF a, f, x
  <2>5. LanedAs(v, a, f)
    BY SMTT(30), <2>3, <2>4 DEF LanedAs
  <2> QED
    BY Zenon, <2>2, <2>5 DEF Becomes, Laned
<1>4. CASE HeadDone(m)
  <2> DEFINE head == w[1]
             r == Reached(head)
  <2>0. head = node[m].window[1]
    BY Zenon
  <2> HIDE DEF head
  <2>1. /\ w # <<>> /\ l = "run"
        /\ head.count < ChunkSize =>
             Becomes(m, <<>>, "idle", node[m].seq, 0, node[m].next, r, e)
        /\ ~(head.count < ChunkSize) =>
             Becomes(m, Tail(w), "run", node[m].seq, head.last, node[m].next, r, e)
    BY Zenon, <1>0, <1>4, <2>0, HeadDoneEffect
  <2> HIDE DEF r
  <2>2. CASE head.count < ChunkSize
    <3>1. LanedAs(<<>>, "idle", e)
      BY DEF LanedAs
    <3> QED
      BY Zenon, <2>1, <2>2, <3>1 DEF Becomes, Laned
  <2>3. CASE ~(head.count < ChunkSize)
    <3>1. e => w[Len(w)].count < ChunkSize
      BY SMTT(30), <1>0, <2>1 DEF LanedAs
    <3>2. e => Tail(w) # <<>> /\ Tail(w)[Len(Tail(w))] = w[Len(w)]
      <4>1. e => Len(w) # 1
        BY Zenon, <2>0, <2>3, <3>1
      <4>2. Len(w) \in Nat \ {0} /\ Tail(w) \in Seq(Chunk) /\ Len(Tail(w)) = Len(w) - 1
            /\ \A i \in 1..Len(Tail(w)) : Tail(w)[i] = w[i + 1]
        BY <1>0, <2>1, TailOf, NoneOf, SeqOf
      <4>3. e => Len(Tail(w)) \in Nat \ {0} /\ Len(Tail(w)) + 1 = Len(w)
        BY <4>1, <4>2
      <4>4. e => Tail(w) # <<>>
        BY Zenon, <4>2, <4>3, NoneOf, SeqOf
      <4> QED
        BY SMTT(30), <4>2, <4>3, <4>4
    <3>3. LanedAs(Tail(w), "run", e)
      BY <3>1, <3>2 DEF LanedAs
    <3> QED
      BY Zenon, <2>1, <2>3, <3>3 DEF Becomes, Laned
  <2> QED
    BY Zenon, <2>2, <2>3
<1>5. CASE Drops(m)
  BY Zenon, <1>5 DEF Drops, Laned
<1> QED
  BY Zenon, <1>1, <1>2, <1>3, <1>4, <1>5, WindowStep DEF Shape

\* The slot does not exist yet and every node has just started.
LEMMA TypeInit ==
  ASSUME BackfillAssumption, Init
  PROVE  TypeInv
<1>0. 0 \in Values /\ 1 \in Values /\ 0 \in 0..NumKeys
  BY DEF Values, BackfillAssumption
<1>1. table \in [Keys -> Values] /\ sink \in [Keys -> Values]
  BY <1>0 DEF Init
<1>2. wal \in Seq(WALRecord) /\ out \in Seq([pos : 1..Len(wal), d : Delivery])
      /\ <<>> \in Seq(Chunk)
  BY NoneOf, SeqOf DEF Init
<1>3. slot \in -1..Len(wal) /\ cur \in 0..Len(wal)
  BY NoneOf, SeqOf DEF Init
<1>4. saved \in Progress /\ owner \in Nodes \cup {None}
  BY Zenon, ProgressTyped DEF Init
<1>5. /\ changes \in 0..MaxChanges /\ faults \in 0..MaxFaults
      /\ replays \in 0..MaxReplays /\ owed \in BOOLEAN
  <2>1. changes = 0 /\ faults = 0 /\ replays = 0 /\ owed = FALSE
    BY Zenon DEF Init
  <2>2. 0 \in 0..MaxChanges /\ 0 \in 0..MaxFaults /\ 0 \in 0..MaxReplays
    BY SMTT(30) DEF BackfillAssumption
  <2> QED
    BY Zenon, <2>1, <2>2
<1> DEFINE c == Started(0, NotFound)
<1>6. c \in Coordinator
  BY Zenon, <1>0, <1>2, ProgressTyped DEF Started, Coordinator, NotFound
<1>7. c.window = <<>> /\ c.lane = "idle" /\ c.exhausted = FALSE
  BY Zenon DEF Started
<1>8. node = [n \in Nodes |-> c]
  BY Zenon DEF Init
<1> HIDE DEF c
<1>9. node \in [Nodes -> Coordinator]
  BY Zenon, <1>6, <1>8
<1>10. TypeOK
  BY Zenon, <1>1, <1>2, <1>3, <1>4, <1>5, <1>9 DEF TypeOK
<1>11. LanedAs(<<>>, "idle", FALSE)
  BY DEF LanedAs
<1>12. \A n \in Nodes : Laned(n)
  BY Zenon, <1>7, <1>8, <1>11 DEF Laned
<1> QED
  BY Zenon, <1>10, <1>12 DEF TypeInv

\* Every step keeps the types and the lanes.
LEMMA TypeInvStep ==
  ASSUME BackfillAssumption, Selecting, TypeInv, [Next]_vars
  PROVE  TypeInv'
<1>1. \A n \in Nodes : Laned(n)'
  <2>1. CASE Next
    BY Zenon, <2>1, LanedStep
  <2>2. CASE UNCHANGED vars
    BY Zenon, <2>2 DEF vars, Laned, TypeInv
  <2> QED
    BY Zenon, <2>1, <2>2
<1> QED
  BY Zenon, <1>1, TypeStep DEF TypeInv


-----------------------------------------------------------------------------
(* How a step changes the window of a node.                                *)

\* The stream of n hands it a mark of this chunk.
Turns(n, id) == ReadWatermark /\ owner = n /\ wal[cur + 1].id = id

\* A chunk c that becomes d without going back into flight.
Keeps(n, c, d) ==
  /\ c.id \in ChunkId /\ d.id = c.id /\ (d.known => c.known)
  /\ (c.known \/ c.done \/ ~c.live => d.known \/ d.done \/ ~d.live)
  /\ Collecting(d) => IF Turns(n, c.id) THEN wal[cur + 1].t = "low" ELSE Collecting(c)

\* The lane goes from l to m: it does not open a chunk, and leaves one only
\* when the newest of v is not in flight.
LaneKeeps(l, m, v, d) ==
  /\ IsOpen(m) => IsOpen(l) /\ d = 0 /\ (m = "low" <=> l = "low")
  /\ IsOpen(l) /\ ~IsOpen(m) => Len(v) = 0 \/ ~v[Len(v)].known

\* The node drops the d oldest chunks of its window w, and keeps the others.
ShedsTo(n, w, v, d) ==
  /\ w = node[n].window /\ v = node'[n].window
  /\ Len(w) \in Nat /\ DOMAIN w = 1..Len(w)
  /\ d \in 0..Len(w) /\ Len(v) = Len(w) - d /\ DOMAIN v = 1..Len(v)
  /\ node'[n].seq = node[n].seq /\ node[n].seq \in Nat
  /\ \A i \in DOMAIN v : i + d \in DOMAIN w /\ Keeps(n, w[i + d], v[i])
  /\ LaneKeeps(node[n].lane, node'[n].lane, v, d)
Sheds(n) == \E w, v, d : ShedsTo(n, w, v, d)

\* The general case.
LEMMA ShedIn ==
  ASSUME TypeOK, NEW n \in Nodes, NEW w, w = node[n].window, NEW v \in Seq(Chunk),
         node'[n].window = v, node'[n].seq = node[n].seq,
         NEW d \in Nat, Len(w) = Len(v) + d,
         \A i \in DOMAIN v : Keeps(n, w[i + d], v[i]),
         LaneKeeps(node[n].lane, node'[n].lane, v, d)
  PROVE  Sheds(n)
<1>1. w \in Seq(Chunk) /\ node[n].seq \in Nat
  BY Zenon, NodeTyped
<1>2. Len(w) \in Nat /\ DOMAIN w = 1..Len(w) /\ Len(v) \in Nat /\ DOMAIN v = 1..Len(v)
  BY Zenon, <1>1, WindowOf
<1>3. /\ d \in 0..Len(w) /\ Len(v) = Len(w) - d
      /\ \A i \in DOMAIN v : i + d \in DOMAIN w
  BY <1>2
<1>4. ShedsTo(n, w, v, d)
  BY Zenon, <1>1, <1>2, <1>3 DEF ShedsTo
<1> QED
  BY Zenon, <1>4 DEF Sheds

\* A chunk that stays as it is, while the stream hands over no mark.
LEMMA KeepsSame ==
  ASSUME TypeOK, cur' = cur, NEW n, NEW c \in Chunk
  PROVE  Keeps(n, c, c)
<1>1. c.id \in ChunkId
  BY Zenon DEF Chunk
<1>2. ASSUME ReadWatermark PROVE FALSE
  <2>1. cur \in Nat /\ cur' = cur + 1
    BY <1>2 DEF ReadWatermark, TypeOK
  <2> QED
    BY <2>1
<1> QED
  BY Zenon, <1>1, <1>2 DEF Keeps, Turns

\* restartLocked, ObserveEvent, HandleWatermark and WatermarkDelivered put
\* nothing back into flight.
LEMMA StaysKeeps ==
  ASSUME BackfillAssumption, TypeOK, NEW m \in Nodes, NEW c, NEW d, Stays(m, c, d)
  PROVE  Keeps(m, c, d)
<1> DEFINE r == wal[cur + 1]
<1>1. /\ c \in Chunk /\ d \in Chunk /\ d.id = c.id /\ c.id \in ChunkId
  BY Zenon DEF Stays, SameRange, Chunk
<1>2. ASSUME ReadWatermark, owner = m PROVE owner' = m /\ cur' = cur + 1 /\ cur \in Nat
  BY SMTT(30), <1>2 DEF ReadWatermark, TypeOK
<1>3. ASSUME ReadWatermark, owner = m PROVE r.t \in {"low", "high"}
  BY Zenon, <1>3 DEF ReadWatermark
<1>4. CASE d = c /\ (owner' = m => owner = m /\ cur' = cur /\ out' = out)
  <2>1. ~(ReadWatermark /\ owner = m)
    <3>1. ASSUME ReadWatermark, owner = m PROVE cur' = cur + 1 /\ cur' = cur /\ cur \in Nat
      BY Zenon, <1>2, <1>4, <3>1
    <3> QED
      BY <3>1
  <2> QED
    BY Zenon, <1>1, <1>4, <2>1 DEF Keeps, Turns
<1>5. CASE RestartsChunk(c, d)
  BY Zenon, <1>1, <1>5 DEF RestartsChunk, Keeps, Collecting
<1>6. CASE owner = m /\ ReadChange /\ ObservesChunk(c, d, r)
  <2>1. ~ReadWatermark
    <3>1. ASSUME ReadWatermark PROVE r.t \in {"low", "high"} /\ ~(r.t \in {"low", "high"})
      BY <1>3, <1>6, <3>1 DEF ReadChange
    <3> QED
      BY Zenon, <3>1
  <2> QED
    BY Zenon, <1>1, <1>6, <2>1 DEF ObservesChunk, Keeps, Collecting, Turns
<1>7. CASE owner = m /\ ReadWatermark /\ MarksChunk(c, d, r)
  <2>1. Turns(m, c.id) <=> r.id = c.id
    BY Zenon, <1>7 DEF Turns
  <2>2. Collecting(d) => IF r.id = c.id THEN r.t = "low" ELSE Collecting(c)
    BY Zenon, <1>7 DEF MarksChunk, Collecting
  <2> QED
    BY Zenon, <1>1, <1>7, <2>1, <2>2 DEF MarksChunk, Keeps
<1>8. CASE owner = m /\ Deliver /\ CompletesChunk(c, d, out[1].d)
  <2>1. ~ReadWatermark
    <3>1. ASSUME ReadWatermark PROVE cur' = cur + 1 /\ cur' = cur /\ cur \in Nat
      BY Zenon, <1>2, <1>8, <3>1, DeliverEffect
    <3> QED
      BY <3>1
  <2>2. /\ d.known => c.known
        /\ (c.known \/ c.done \/ ~c.live => d.known \/ d.done \/ ~d.live)
        /\ d.collecting = c.collecting
    BY Zenon, <1>8 DEF CompletesChunk
  <2> QED
    BY Zenon, <1>1, <2>1, <2>2 DEF Keeps, Collecting, Turns
<1> QED
  BY Zenon, <1>4, <1>5, <1>6, <1>7, <1>8 DEF Stays

\* The chunks stay.
LEMMA ShedHolds ==
  ASSUME BackfillAssumption, TypeOK, NEW m \in Nodes, NEW w, NEW v, Holds(m, w, v),
         ~EmitLow(m), ~EmitHigh(m)
  PROVE  Sheds(m)
<1>1. /\ w = node[m].window /\ v \in Seq(Chunk) /\ Len(v) = Len(w) /\ DOMAIN v = DOMAIN w
      /\ node'[m].window = v /\ node'[m].seq = node[m].seq
  BY Zenon DEF Holds
<1>2. Len(v) \in Nat /\ DOMAIN v = 1..Len(v)
  BY Zenon, <1>1, WindowOf
<1>3. \A i \in DOMAIN v : Keeps(m, w[i + 0], v[i])
  <2>1. \A i \in DOMAIN v : i + 0 = i
    BY <1>2
  <2>2. \A i \in DOMAIN v : Keeps(m, w[i], v[i])
    BY Zenon, <1>1, StaysKeeps DEF Holds
  <2> QED
    BY Zenon, <2>1, <2>2
<1>4. LaneKeeps(node[m].lane, node'[m].lane, v, 0)
  BY Zenon DEF Holds, Moves, LaneKeeps
<1>5. Len(w) = Len(v) + 0 /\ 0 \in Nat
  BY <1>1, <1>2
<1> QED
  BY Zenon, <1>1, <1>3, <1>4, <1>5, ShedIn

\* The chunks are dropped.
LEMMA ShedDrops ==
  ASSUME TypeOK, NEW m \in Nodes, node'[m].window = <<>>, node'[m].seq = node[m].seq,
         ~IsOpen(node'[m].lane)
  PROVE  Sheds(m)
<1> DEFINE w == node[m].window
           d == Len(w)
<1>1. w \in Seq(Chunk)
  BY Zenon, NodeTyped
<1>2. d \in Nat /\ d = Len(<<>>) + d /\ <<>> \in Seq(Chunk) /\ Len(<<>>) = 0 /\ DOMAIN <<>> = {}
  BY <1>1, WindowOf
<1>3. LaneKeeps(node[m].lane, node'[m].lane, <<>>, d)
  BY Zenon, <1>2 DEF LaneKeeps
<1>4. \A i \in DOMAIN <<>> : Keeps(m, w[i + d], <<>>[i])
  BY Zenon, <1>2
<1> HIDE DEF w, d
<1>5. w = node[m].window /\ Len(w) = d
  BY DEF w, d
<1> QED
  BY Zenon, <1>2, <1>3, <1>4, <1>5, ShedIn

\* SelectChunk fills the newest chunk, which was not done; an empty chunk
\* leaves the flight, any other waits for its high mark.
LEMMA ShedBySelect ==
  ASSUME BackfillAssumption, TypeOK, Selecting, NEW n \in Nodes, Laned(n), Select(n),
         ~node[n].window[Newest(n)].done
  PROVE  Sheds(n)
<1>1. PICK w, v, K : Fills(n, w, v, K) /\ FillsChunk(w[Len(w)], v[Len(w)], K)
  BY Zenon, SelectStep
<1> DEFINE c == w[Len(w)]
           d == v[Len(w)]
           l == IF K = {} THEN "run" ELSE "high"
<1>2. /\ w = node[n].window /\ w \in Seq(Chunk) /\ Len(w) \in Nat \ {0}
      /\ v \in Seq(Chunk) /\ Len(v) = Len(w)
      /\ \A i \in 1..Len(w) : i # Len(w) => v[i] = w[i]
      /\ node'[n].window = v /\ node'[n].lane = l /\ node'[n].seq = node[n].seq
      /\ node[n].lane = "select"
  BY Zenon, <1>1 DEF Fills, Becomes
<1>3. /\ DOMAIN w = 1..Len(w) /\ DOMAIN v = 1..Len(w) /\ \A i \in DOMAIN w : w[i] \in Chunk
  BY Zenon, <1>2, WindowOf
<1>4. ~c.done /\ cur' = cur
  BY Zenon, <1>2 DEF Newest, Select, streamVars
<1>5. Keeps(n, c, d)
  <2>1. FillsChunk(c, d, K)
    BY Zenon, <1>1
  <2>2. c.id \in ChunkId /\ c.known \in BOOLEAN /\ d.known \in BOOLEAN /\ d.done \in BOOLEAN
        /\ Keeps(n, c, c)
    BY Zenon, <1>4, <2>1, KeepsSame DEF FillsChunk, Chunk
  <2> HIDE DEF c, d
  <2>3. /\ d.known => c.known
        /\ d.live = c.live /\ d.id = c.id /\ d.collecting = c.collecting
    BY Zenon, <2>1, <2>2 DEF FillsChunk
  <2>4. c.known \/ c.done \/ ~c.live => d.known \/ d.done \/ ~d.live
    BY Zenon, <2>1, <2>2, <1>4 DEF FillsChunk, c
  <2> QED
    BY Zenon, <2>2, <2>3, <2>4 DEF Keeps, Collecting
<1>6. LaneKeeps(node[n].lane, l, v, 0)
  <2>1. K = {} => ~d.known
    BY Zenon, <1>1 DEF FillsChunk
  <2> QED
    BY SMTT(30), <1>2, <2>1 DEF LaneKeeps, IsOpen
<1>7. \A i \in DOMAIN v : Keeps(n, w[i], v[i])
  BY Zenon, <1>2, <1>3, <1>4, <1>5, KeepsSame
<1>8. \A i \in DOMAIN v : Keeps(n, w[i + 0], v[i])
  <2>1. \A i \in DOMAIN v : i + 0 = i
    BY <1>2, <1>3
  <2> QED
    BY Zenon, <1>7, <2>1
<1>9. Len(w) = Len(v) + 0 /\ 0 \in Nat
  BY <1>2
<1> HIDE DEF l
<1> QED
  BY Zenon, <1>2, <1>6, <1>8, <1>9, ShedIn

\* saveProgress drops the head; a short chunk ends the table.
LEMMA ShedByHead ==
  ASSUME BackfillAssumption, TypeOK, NEW n \in Nodes, Laned(n), HeadDone(n)
  PROVE  Sheds(n)
<1> DEFINE w == node[n].window
           v == Tail(w)
           head == w[1]
<1>1. /\ node[n].lane = "run" /\ w \in Seq(Chunk) /\ w # <<>>
      /\ head.count < ChunkSize =>
           Becomes(n, <<>>, "idle", node[n].seq, 0, node[n].next, Reached(head),
                   node[n].exhausted)
      /\ ~(head.count < ChunkSize) =>
           Becomes(n, v, "run", node[n].seq, head.last, node[n].next,
                   Reached(head), node[n].exhausted)
  BY Zenon, HeadDoneEffect
<1>2. CASE head.count < ChunkSize
  <2>1. node'[n].window = <<>> /\ node'[n].seq = node[n].seq /\ node'[n].lane = "idle"
    BY Zenon, <1>1, <1>2 DEF Becomes
  <2>2. ~IsOpen("idle")
    BY DEF IsOpen
  <2> QED
    BY Zenon, <2>1, <2>2, ShedDrops
<1>3. CASE ~(head.count < ChunkSize)
  <2>1. v \in Seq(Chunk) /\ Len(v) = Len(w) - 1 /\ \A i \in DOMAIN v : v[i] = w[i + 1] /\ i + 1 \in DOMAIN w
    BY <1>1, TailOf
  <2>2. Len(w) \in Nat /\ \A i \in DOMAIN w : w[i] \in Chunk
    BY Zenon, <1>1, WindowOf
  <2>3. Len(w) = Len(v) + 1 /\ 1 \in Nat
    BY <2>1, <2>2
  <2>4. cur' = cur
    BY Zenon DEF HeadDone, streamVars
  <2>5. \A i \in DOMAIN v : Keeps(n, w[i + 1], v[i])
    BY Zenon, <2>1, <2>2, <2>4, KeepsSame
  <2>6. node'[n].window = v /\ node'[n].seq = node[n].seq /\ node'[n].lane = "run"
    BY Zenon, <1>1, <1>3 DEF Becomes
  <2>7. LaneKeeps(node[n].lane, node'[n].lane, v, 1)
    BY <1>1, <2>6 DEF LaneKeeps, IsOpen
  <2>8. w = node[n].window
    OBVIOUS
  <2> HIDE DEF w, v, head
  <2> QED
    BY Zenon, <2>1, <2>3, <2>5, <2>6, <2>7, <2>8, ShedIn
<1> QED
  BY Zenon, <1>2, <1>3

\* What a step is to a node.
LEMMA NodeStep ==
  ASSUME BackfillAssumption, TypeInv, Selecting, \A n \in Nodes : NotDone(n), Next,
         NEW m \in Nodes
  PROVE  Sheds(m) \/ Register(m) \/ EmitLow(m) \/ EmitHigh(m)
<1>1. TypeOK /\ Laned(m) /\ NotDone(m)
  BY Zenon DEF TypeInv
<1>2. CASE \E w, v : Holds(m, w, v)
  BY Zenon, <1>1, <1>2, ShedHolds
<1>3. CASE Drops(m)
  BY Zenon, <1>1, <1>3, ShedDrops DEF Drops
<1>4. CASE Select(m)
  BY Zenon, <1>1, <1>4, ShedBySelect DEF NotDone, Select
<1>5. CASE HeadDone(m)
  BY Zenon, <1>1, <1>5, ShedByHead
<1> QED
  BY Zenon, <1>2, <1>3, <1>4, <1>5, WindowStep DEF Shape

-----------------------------------------------------------------------------
(* The lanes.                                                              *)

\* No step but m's own EmitLow and EmitHigh writes a mark of its chunks.
OwnMarks(m) ==
  \A t \in Kinds, id \in ChunkId : id[1] = m => MarkAt(wal', t, id) = MarkAt(wal, t, id)

\* Dropping chunks keeps the lane's invariant.
LEMMA ShedLane ==
  ASSUME NEW m \in Nodes, Laned(m), Sheds(m), OwnMarks(m), LaneInv(m)
  PROVE  LaneInv(m)'
<1>1. PICK w, v, d : ShedsTo(m, w, v, d)
  BY Zenon DEF Sheds
<1> DEFINE l == node[m].lane
           k == node'[m].lane
<1>2. /\ w = node[m].window /\ v = node'[m].window
      /\ Len(w) \in Nat /\ DOMAIN w = 1..Len(w)
      /\ d \in 0..Len(w) /\ Len(v) = Len(w) - d /\ DOMAIN v = 1..Len(v)
      /\ node'[m].seq = node[m].seq
      /\ LaneKeeps(l, k, v, d)
  BY Zenon, <1>1 DEF ShedsTo
<1>3. \A i \in DOMAIN v :
             /\ i + d \in DOMAIN w /\ v[i].id = w[i + d].id
             /\ v[i].known => w[i + d].known
             /\ (w[i + d].known \/ w[i + d].done \/ ~w[i + d].live
                  => v[i].known \/ v[i].done \/ ~v[i].live)
  BY Zenon, <1>1 DEF ShedsTo, Keeps
<1>4. /\ WindowIds(m, w, node[m].seq) /\ LaneMarks(wal, w, l) /\ HighEmitted(wal, w, l)
      /\ Ordered(wal, w) /\ InFlight(w)
  BY Zenon, <1>2 DEF LaneInv, LaneInvOf
<1>5. "low" \in Kinds /\ "high" \in Kinds
  BY DEF Kinds
<1>6. \A i \in DOMAIN v, t \in Kinds : MarkAt(wal', t, v[i].id) = MarkAt(wal, t, w[i + d].id)
  <2>1. \A i \in DOMAIN v : v[i].id = w[i + d].id /\ w[i + d].id \in ChunkId /\ w[i + d].id[1] = m
    BY Zenon, <1>3, <1>4 DEF WindowIds
  <2> QED
    BY Zenon, <2>1 DEF OwnMarks
<1>7. WindowIds(m, v, node'[m].seq)
  <2>1. ASSUME NEW i \in DOMAIN v
        PROVE  v[i].id \in ChunkId /\ v[i].id[1] = m /\ v[i].id[2] <= node'[m].seq
    BY Zenon, <1>2, <1>3, <1>4 DEF WindowIds
  <2>2. ASSUME NEW i \in DOMAIN v, NEW j \in DOMAIN v, i < j
        PROVE  v[i].id[2] < v[j].id[2]
    <3>1. i + d < j + d
      BY <1>2, <2>2
    <3> QED
      BY Zenon, <1>3, <1>4, <3>1 DEF WindowIds
  <2> QED
    BY Zenon, <2>1, <2>2 DEF WindowIds
<1>8. IsOpen(k) => IsOpen(l) /\ d = 0 /\ (k = "low" <=> l = "low")
  BY Zenon, <1>2 DEF LaneKeeps
<1>9. LaneMarks(wal', v, k)
  <2> SUFFICES ASSUME IsOpen(k)
               PROVE  /\ MarkAt(wal', "high", v[Len(v)].id) = {}
                      /\ k = "low" <=> MarkAt(wal', "low", v[Len(v)].id) = {}
    BY Zenon DEF LaneMarks
  <2>1. w # <<>>
    BY Zenon, <1>2, <1>8 DEF Laned, LanedAs, IsOpen
  <2>2. Len(v) \in DOMAIN v /\ Len(v) + d = Len(w)
    <3>1. Len(w) # 0
      BY <2>1, <1>2
    <3> QED
      BY <3>1, <1>2, <1>8
  <2>3. /\ MarkAt(wal', "high", v[Len(v)].id) = MarkAt(wal, "high", w[Len(w)].id)
        /\ MarkAt(wal', "low", v[Len(v)].id) = MarkAt(wal, "low", w[Len(w)].id)
    BY Zenon, <1>5, <1>6, <2>2
  <2> QED
    BY Zenon, <1>4, <1>8, <2>3 DEF LaneMarks
<1>10. HighEmitted(wal', v, k)
  <2> SUFFICES ASSUME NEW i \in DOMAIN v, v[i].known, ~(IsOpen(k) /\ i = Len(v))
               PROVE  MarkAt(wal', "high", v[i].id) # {}
    BY Zenon DEF HighEmitted
  <2>1. ~(IsOpen(l) /\ i + d = Len(w))
    <3>1. SUFFICES ASSUME IsOpen(l), i + d = Len(w) PROVE FALSE
      BY Zenon
    <3>2. i = Len(v) /\ Len(v) # 0
      <4>1. Len(w) \in Nat /\ d \in 0..Len(w) /\ Len(v) = Len(w) - d /\ i \in 1..Len(v)
        BY Zenon, <1>2
      <4> QED
        BY <3>1, <4>1
    <3> QED
      BY Zenon, <1>2, <3>1, <3>2 DEF LaneKeeps
  <2> QED
    BY Zenon, <1>3, <1>4, <1>5, <1>6, <2>1 DEF HighEmitted
<1>11. Ordered(wal', v)
  <2> SUFFICES ASSUME NEW i \in DOMAIN v, NEW j \in DOMAIN v, i < j, v[i].known,
                      NEW p \in MarkAt(wal', "low", v[j].id)
               PROVE  \E h \in MarkAt(wal', "high", v[i].id) : h < p
    BY Zenon DEF Ordered
  <2>1. i + d < j + d
    BY <1>2
  <2>2. p \in MarkAt(wal, "low", w[j + d].id)
    BY Zenon, <1>5, <1>6
  <2>3. \E h \in MarkAt(wal, "high", w[i + d].id) : h < p
    BY Zenon, <1>3, <1>4, <2>1, <2>2 DEF Ordered
  <2> QED
    BY Zenon, <1>5, <1>6, <2>3
<1>12. InFlight(v)
  BY Zenon, <1>3, <1>4 DEF InFlight
<1> HIDE DEF l, k
<1> QED
  BY Zenon, <1>2, <1>7, <1>9, <1>10, <1>11, <1>12 DEF LaneInv, LaneInvOf, k

\* Registering a chunk: its number is new, so it has no marks yet.
LEMMA RegisterLane ==
  ASSUME BackfillAssumption, TypeOK, NEW m \in Nodes, Register(m), OwnMarks(m), MarkIds,
         LaneInv(m)
  PROVE  LaneInv(m)'
<1> DEFINE w == node[m].window
           q == node[m].seq
           e == NewChunk(m)
           v == Append(w, e)
           N == Len(w) + 1
<1>1. /\ node'[m].window = v /\ node'[m].lane = "low" /\ node'[m].seq = q + 1
      /\ node[m].lane = "register"
  BY Zenon, RegisterEffect DEF Becomes
<1>2. w \in Seq(Chunk) /\ q \in Nat /\ e \in Chunk
  BY Zenon, NodeTyped, NewChunkTyped
<1>3. /\ Len(w) \in Nat /\ DOMAIN w = 1..Len(w) /\ Len(v) = N
      /\ DOMAIN v = DOMAIN w \cup {N} /\ N \notin DOMAIN w
      /\ v[N] = e /\ \A i \in DOMAIN w : v[i] = w[i] /\ i < N
  <2>1. Len(w) \in Nat /\ DOMAIN w = 1..Len(w)
    BY Zenon, <1>2, WindowOf
  <2>2. v = Append(w, e)
    OBVIOUS
  <2> HIDE DEF w, e, v
  <2> QED
    BY SMTT(30), <1>2, <2>1, <2>2, AppendTo
<1>4. e.id = <<m, q + 1>> /\ e.known
  BY DEF NewChunk
<1>5. e.id \in ChunkId /\ e.id[1] = m /\ e.id[2] = q + 1
  BY <1>2, <1>4 DEF ChunkId
<1>6. /\ WindowIds(m, w, q) /\ HighEmitted(wal, w, "register") /\ Ordered(wal, w) /\ InFlight(w)
  BY Zenon, <1>1 DEF LaneInv, LaneInvOf
<1>7. ~(q + 1 <= q)
  BY <1>2
<1> HIDE DEF w, q, e, v, N
<1>8. "low" \in Kinds /\ "high" \in Kinds
  BY DEF Kinds
<1>9. \A t \in Kinds : MarkAt(wal', t, e.id) = {}
  <2>1. \A t \in Kinds : MarkAt(wal, t, e.id) = {}
    BY Zenon, <1>5, <1>7 DEF MarkIds, q
  <2> QED
    BY Zenon, <1>5, <2>1 DEF OwnMarks
<1>10. \A i \in DOMAIN w, t \in Kinds : MarkAt(wal', t, v[i].id) = MarkAt(wal, t, w[i].id)
  <2>1. \A i \in DOMAIN w : v[i].id = w[i].id /\ w[i].id \in ChunkId /\ w[i].id[1] = m
    BY Zenon, <1>3, <1>6 DEF WindowIds
  <2> QED
    BY Zenon, <2>1 DEF OwnMarks
<1>11. WindowIds(m, v, q + 1)
  <2>1. \A i \in DOMAIN w : w[i].id[2] \in Nat
    <3>1. \A i \in DOMAIN w : w[i].id \in ChunkId
      BY Zenon, <1>6 DEF WindowIds
    <3> QED
      BY <3>1 DEF ChunkId
  <2>2. \A i \in DOMAIN w : v[i].id \in ChunkId /\ v[i].id[1] = m /\ v[i].id[2] <= q
    BY Zenon, <1>3, <1>6 DEF WindowIds
  <2>3. \A i \in DOMAIN w : v[i].id[2] <= q + 1 /\ v[i].id[2] < q + 1
    BY <1>2, <1>3, <2>1, <2>2
  <2>4. q + 1 <= q + 1 /\ \A j \in DOMAIN w : ~(N < j)
    BY <1>2, <1>3
  <2>5. \A i \in DOMAIN v : v[i].id \in ChunkId /\ v[i].id[1] = m /\ v[i].id[2] <= q + 1
    BY Zenon, <1>3, <1>5, <2>2, <2>3, <2>4
  <2>6. ASSUME NEW i \in DOMAIN v, NEW j \in DOMAIN v, i < j
        PROVE  v[i].id[2] < v[j].id[2]
    <3>1. i \in DOMAIN w
      BY <1>3, <2>4, <2>6
    <3>2. CASE j \in DOMAIN w
      BY Zenon, <1>3, <1>6, <2>6, <3>1, <3>2 DEF WindowIds
    <3>3. CASE j = N
      BY Zenon, <1>3, <1>5, <2>3, <3>1, <3>3
    <3> QED
      BY Zenon, <1>3, <3>2, <3>3
  <2> QED
    BY Zenon, <2>5, <2>6 DEF WindowIds
<1>12. LaneMarks(wal', v, "low")
  BY Zenon, <1>3, <1>8, <1>9 DEF LaneMarks
<1>13. HighEmitted(wal', v, "low")
  <2>1. IsOpen("low") /\ ~IsOpen("register")
    BY DEF IsOpen
  <2>2. \A i \in DOMAIN w : w[i].known => MarkAt(wal, "high", w[i].id) # {}
    BY Zenon, <1>6, <2>1 DEF HighEmitted
  <2> QED
    BY Zenon, <1>3, <1>8, <1>10, <2>1, <2>2 DEF HighEmitted
<1>14. Ordered(wal', v)
  <2> SUFFICES ASSUME NEW i \in DOMAIN v, NEW j \in DOMAIN v, i < j, v[i].known,
                      NEW p \in MarkAt(wal', "low", v[j].id)
               PROVE  \E h \in MarkAt(wal', "high", v[i].id) : h < p
    BY Zenon DEF Ordered
  <2>1. j \in DOMAIN w
    BY Zenon, <1>3, <1>8, <1>9
  <2>2. i \in DOMAIN w
    BY <1>3, <2>1
  <2>3. p \in MarkAt(wal, "low", w[j].id)
    BY Zenon, <1>8, <1>10, <2>1
  <2>4. \E h \in MarkAt(wal, "high", w[i].id) : h < p
    BY Zenon, <1>3, <1>6, <2>1, <2>2, <2>3 DEF Ordered
  <2> QED
    BY Zenon, <1>8, <1>10, <2>2, <2>4
<1>15. InFlight(v)
  BY Zenon, <1>3, <1>4, <1>6 DEF InFlight
<1> QED
  BY Zenon, <1>1, <1>11, <1>12, <1>13, <1>14, <1>15 DEF LaneInv, LaneInvOf

\* Writing a mark of the newest chunk.
LEMMA EmitLane ==
  ASSUME BackfillAssumption, TypeInv, NEW m \in Nodes, EmitLow(m) \/ EmitHigh(m), LaneInv(m)
  PROVE  LaneInv(m)'
<1> DEFINE w == node[m].window
           q == node[m].seq
           N == Len(w)
           x == w[N].id
           k == node[m].lane
           l == IF k = "low" THEN "select" ELSE "run"
<1>0. TypeOK /\ Laned(m)
  BY Zenon DEF TypeInv
<1>1. /\ node'[m].window = w /\ node'[m].lane = l /\ node'[m].seq = q
      /\ w \in Seq(Chunk) /\ N \in Nat \ {0} /\ k \in {"low", "high"}
  BY ZenonT(40), <1>0, EmitEffect DEF Becomes
<1>2. x \in ChunkId /\ AddsMark(k, x)
  BY Zenon, EmitMarks
<1>3. DOMAIN w = 1..N /\ N \in DOMAIN w
  <2>1. DOMAIN w = 1..Len(w)
    BY Zenon, <1>1, WindowOf
  <2> QED
    BY <1>1, <2>1
<1>4. /\ WindowIds(m, w, q) /\ HighEmitted(wal, w, k) /\ Ordered(wal, w) /\ InFlight(w)
      /\ LaneMarks(wal, w, k)
  BY Zenon DEF LaneInv, LaneInvOf
<1>5. Len(wal) \in Nat /\ \A t \in Kinds, id \in ChunkId : \A p \in MarkAt(wal, t, id) : p < Len(wal) + 1
  <2>1. Len(wal) \in Nat
    BY Zenon, <1>0, WALTyped
  <2>2. \A t \in Kinds, id \in ChunkId : \A p \in MarkAt(wal, t, id) : p \in Nat /\ p <= Len(wal)
    BY Zenon, <1>0, MarksTyped
  <2> QED
    BY <2>1, <2>2
<1> HIDE DEF w, q, N, x, k
<1>6. "low" \in Kinds /\ "high" \in Kinds
  BY DEF Kinds
<1>7. \A i \in DOMAIN w : w[i].id \in ChunkId /\ (i # N => w[i].id # x)
  <2>1. \A i \in DOMAIN w : w[i].id \in ChunkId /\ (i < N => w[i].id[2] < x[2])
    BY Zenon, <1>3, <1>4 DEF WindowIds, x
  <2>2. \A i \in DOMAIN w : i # N => i < N
    BY <1>1, <1>3
  <2>3. x[2] \in Nat
    BY <1>2 DEF ChunkId
  <2>4. ~(x[2] < x[2])
    BY <2>3
  <2> QED
    BY Zenon, <2>1, <2>2, <2>4
<1>8. \A i \in DOMAIN w, t \in Kinds :
        t # k \/ i # N => MarkAt(wal', t, w[i].id) = MarkAt(wal, t, w[i].id)
  BY Zenon, <1>2, <1>7 DEF AddsMark, x
<1>9. MarkAt(wal', k, x) = MarkAt(wal, k, x) \cup {Len(wal) + 1}
  BY Zenon, <1>2 DEF AddsMark
<1>10. w[N].id = x
  BY DEF x
<1>11. CASE k = "low"
  <2>0. "low" # "high" /\ "select" # "low" /\ IsOpen("low") /\ IsOpen("select")
    BY DEF IsOpen
  <2>1. l = "select"
    BY Zenon, <1>11
  <2>2. LaneMarks(wal', w, l)
    <3>1. MarkAt(wal', "high", x) = {}
      BY Zenon, <1>3, <1>4, <1>6, <1>8, <1>10, <1>11, <2>0 DEF LaneMarks, N
    <3>2. MarkAt(wal', "low", x) # {}
      BY Zenon, <1>9, <1>11
    <3> QED
      BY Zenon, <1>10, <2>0, <2>1, <3>1, <3>2 DEF LaneMarks, N
  <2>3. HighEmitted(wal', w, l)
    BY Zenon, <1>4, <1>6, <1>8, <1>11, <2>0, <2>1 DEF HighEmitted
  <2>4. Ordered(wal', w)
    <3> SUFFICES ASSUME NEW i \in DOMAIN w, NEW j \in DOMAIN w, i < j, w[i].known,
                        NEW p \in MarkAt(wal', "low", w[j].id)
                 PROVE  \E h \in MarkAt(wal', "high", w[i].id) : h < p
      BY Zenon DEF Ordered
    <3>1. MarkAt(wal', "high", w[i].id) = MarkAt(wal, "high", w[i].id)
      BY Zenon, <1>6, <1>8, <1>11, <2>0
    <3>2. CASE p \in MarkAt(wal, "low", w[j].id)
      BY Zenon, <1>4, <3>1, <3>2 DEF Ordered
    <3>3. CASE p \notin MarkAt(wal, "low", w[j].id)
      <4>1. p = Len(wal) + 1
        BY Zenon, <1>6, <1>8, <1>9, <1>10, <1>11, <3>3
      <4>2. i # N
        BY <1>3
      <4>3. MarkAt(wal, "high", w[i].id) # {}
        BY Zenon, <1>4, <4>2 DEF HighEmitted, N
      <4> QED
        BY Zenon, <1>5, <1>6, <1>7, <3>1, <4>1, <4>3
    <3> QED
      BY Zenon, <3>2, <3>3
  <2> HIDE DEF l
  <2> QED
    BY Zenon, <1>1, <1>4, <2>2, <2>3, <2>4 DEF LaneInv, LaneInvOf
<1>12. CASE k = "high"
  <2>0. "low" # "high" /\ IsOpen("high") /\ ~IsOpen("run")
    BY DEF IsOpen
  <2>1. l = "run"
    BY Zenon, <1>12, <2>0
  <2>2. LaneMarks(wal', w, l)
    BY Zenon, <2>0, <2>1 DEF LaneMarks
  <2>3. \A i \in DOMAIN w : MarkAt(wal, "high", w[i].id) \subseteq MarkAt(wal', "high", w[i].id)
    BY Zenon, <1>6, <1>8, <1>9, <1>10, <1>12
  <2>4. HighEmitted(wal', w, l)
    <3> SUFFICES ASSUME NEW i \in DOMAIN w, w[i].known
                 PROVE  MarkAt(wal', "high", w[i].id) # {}
      BY Zenon DEF HighEmitted
    <3>1. CASE i = N
      BY Zenon, <1>9, <1>10, <1>12, <3>1
    <3>2. CASE i # N
      <4>1. MarkAt(wal, "high", w[i].id) # {}
        BY Zenon, <1>4, <3>2 DEF HighEmitted, N
      <4> QED
        BY Zenon, <2>3, <4>1
    <3> QED
      BY Zenon, <3>1, <3>2
  <2>5. Ordered(wal', w)
    <3>1. \A j \in DOMAIN w : MarkAt(wal', "low", w[j].id) = MarkAt(wal, "low", w[j].id)
      BY Zenon, <1>6, <1>8, <1>12, <2>0
    <3> QED
      BY Zenon, <1>4, <2>3, <3>1 DEF Ordered
  <2> HIDE DEF l
  <2> QED
    BY Zenon, <1>1, <1>4, <2>2, <2>4, <2>5 DEF LaneInv, LaneInvOf
<1> QED
  BY Zenon, <1>1, <1>11, <1>12

\* Every step keeps the invariant of every lane.
LEMMA LaneInvStep ==
  ASSUME BackfillAssumption, TypeInv, Selecting, MarksInv, Next, NEW m \in Nodes
  PROVE  LaneInv(m)' /\ node'[m].seq \in Nat /\ node[m].seq \in Nat /\ node[m].seq <= node'[m].seq
<1>0. /\ TypeOK /\ Laned(m) /\ LaneInv(m) /\ MarkIds
      /\ \A n \in Nodes : Laned(n) /\ NotDone(n) /\ LaneInv(n)
  BY Zenon DEF TypeInv, MarksInv
<1>1. OwnMarks(m) \/ EmitLow(m) \/ EmitHigh(m)
  <2>1. ASSUME NEW n \in Nodes, n # m, EmitLow(n) \/ EmitHigh(n)
        PROVE  OwnMarks(m)
    <3> DEFINE k == node[n].lane
               w == node[n].window
               x == w[Len(w)].id
    <3>1. x \in ChunkId /\ k \in Kinds /\ AddsMark(k, x)
      BY Zenon, <2>1, EmitMarks
    <3>2. w \in Seq(Chunk) /\ Len(w) \in Nat \ {0}
      BY Zenon, <1>0, <2>1, EmitEffect
    <3>3. Len(w) \in DOMAIN w
      BY <3>2, WindowOf
    <3>4. x[1] = n
      BY Zenon, <1>0, <3>3 DEF LaneInv, LaneInvOf, WindowIds
    <3> HIDE DEF k, w, x
    <3> QED
      BY Zenon, <2>1, <3>1, <3>4 DEF AddsMark, OwnMarks
  <2>2. SameMarks => OwnMarks(m)
    BY Zenon DEF SameMarks, OwnMarks
  <2> QED
    BY Zenon, <2>1, <2>2, MarksStep
<1>2. node[m].seq \in Nat
  BY Zenon, <1>0, NodeTyped
<1>3. CASE EmitLow(m) \/ EmitHigh(m)
  <2>1. node'[m].seq = node[m].seq
    BY Zenon, <1>0, <1>3, EmitEffect DEF Becomes
  <2>2. node[m].seq <= node[m].seq
    BY <1>2
  <2> QED
    BY Zenon, <1>0, <1>2, <1>3, <2>1, <2>2, EmitLane
<1>4. CASE OwnMarks(m) /\ Register(m)
  <2>1. node'[m].seq = node[m].seq + 1
    BY Zenon, <1>0, <1>4, RegisterEffect DEF Becomes
  <2>2. node'[m].seq \in Nat /\ node[m].seq <= node'[m].seq
    BY <1>2, <2>1
  <2> QED
    BY Zenon, <1>0, <1>2, <1>4, <2>2, RegisterLane
<1>5. CASE OwnMarks(m) /\ Sheds(m)
  <2>1. node'[m].seq = node[m].seq
    BY Zenon, <1>5 DEF Sheds, ShedsTo
  <2>2. node[m].seq <= node[m].seq
    BY <1>2
  <2> QED
    BY Zenon, <1>0, <1>2, <1>5, <2>1, <2>2, ShedLane
<1>6. Sheds(m) \/ Register(m) \/ EmitLow(m) \/ EmitHigh(m)
  BY Zenon, <1>0, NodeStep
<1> QED
  BY Zenon, <1>1, <1>3, <1>4, <1>5, <1>6

\* WatermarkDelivered completes no chunk whose rows are still to be selected:
\* the rows it confirms are those of a chunk with a high mark.
LEMMA NotDoneStep ==
  ASSUME BackfillAssumption, TypeInv, Selecting, MarksInv, Next, NEW m \in Nodes
  PROVE  NotDone(m)'
<1>0. TypeOK /\ Laned(m) /\ LaneInv(m) /\ NotDone(m) /\ OutMarks
  BY Zenon DEF TypeInv, MarksInv
<1> DEFINE w == node[m].window
           l == node[m].lane
<1>1. Begun(l) => ~w[Len(w)].done
  BY Zenon, <1>0 DEF NotDone, Newest, Begun
<1>2. NotDone(m)' <=> (Begun(node'[m].lane) => ~node'[m].window[Len(node'[m].window)].done)
  BY Zenon DEF NotDone, Newest, Begun
<1>3. ~Begun("run") /\ ~Begun("idle") /\ ~Begun("high") /\ (Begun(l) => IsOpen(l))
      /\ (Begun(node'[m].lane) => IsOpen(node'[m].lane))
  BY DEF Begun, IsOpen
<1>4. ASSUME NEW u, NEW v, Holds(m, u, v), Begun(l)
      PROVE  ~v[Len(v)].done
  <2>1. u = w /\ w \in Seq(Chunk) /\ Len(v) = Len(w)
    BY Zenon, <1>4 DEF Holds
  <2>2. Len(w) \in DOMAIN w
    <3>1. w # <<>>
      BY Zenon, <1>0, <1>4 DEF Laned, LanedAs, Begun
    <3> QED
      BY <2>1, <3>1, WindowOf
  <2> DEFINE c == w[Len(w)]
             d == v[Len(w)]
             o == out[1].d
  <2>3. ~c.done /\ Stays(m, c, d)
    BY Zenon, <1>1, <1>4, <2>1, <2>2 DEF Holds
  <2>4. ASSUME Deliver, o.t = "rows", o.id = c.id
        PROVE  FALSE
    <3>1. MarkAt(wal, "high", o.id) # {}
      BY ZenonT(40), <1>0, <2>4, DeliverEffect DEF OutMarks
    <3>2. MarkAt(wal, "high", c.id) = {}
      BY Zenon, <1>0, <1>3, <1>4 DEF LaneInv, LaneInvOf, LaneMarks
    <3> QED
      BY Zenon, <2>4, <3>1, <3>2
  <2>5. ~d.done
    BY Zenon, <2>3, <2>4 DEF Stays, RestartsChunk, ObservesChunk, MarksChunk, CompletesChunk
  <2> QED
    BY Zenon, <2>1, <2>5
<1>5. CASE \E u, v : Holds(m, u, v)
  BY Zenon, <1>2, <1>4, <1>5 DEF Holds, Moves
<1>6. CASE Register(m)
  <2> DEFINE e == NewChunk(m)
  <2>1. node'[m].window = Append(w, e)
    BY Zenon, <1>0, <1>6, RegisterEffect DEF Becomes
  <2>2. w \in Seq(Chunk) /\ e \in Chunk
    BY Zenon, <1>0, NodeTyped, NewChunkTyped
  <2>3. ~e.done
    BY DEF NewChunk
  <2> HIDE DEF e, w
  <2>4. node'[m].window[Len(node'[m].window)] = e
    BY SMTT(30), <2>1, <2>2, AppendTo
  <2> QED
    BY Zenon, <1>2, <2>3, <2>4
<1>7. CASE Select(m)
  <2>1. PICK u, v, K : Fills(m, u, v, K)
    BY Zenon, <1>0, <1>7, SelectStep
  <2> QED
    BY Zenon, <1>2, <1>3, <2>1 DEF Fills, Becomes
<1>8. CASE HeadDone(m)
  BY Zenon, <1>0, <1>2, <1>3, <1>8, HeadDoneEffect DEF Becomes
<1>9. CASE Drops(m)
  BY Zenon, <1>2, <1>3, <1>9 DEF Drops
<1> QED
  BY Zenon, <1>5, <1>6, <1>7, <1>8, <1>9, WindowStep DEF Shape

-----------------------------------------------------------------------------
(* The WAL, the queue and the collectors.                                  *)

\* Each chunk keeps one mark of each kind, in order, with a number given out.
LEMMA WALMarksStep ==
  ASSUME BackfillAssumption, TypeInv, Selecting, MarksInv, Next
  PROVE  MarkIds' /\ MarksOnce' /\ LowFirst'
<1>0. /\ TypeOK /\ MarkIds /\ MarksOnce /\ LowFirst
      /\ \A n \in Nodes : Laned(n) /\ LaneInv(n)
  BY Zenon DEF TypeInv, MarksInv
<1>1. "low" \in Kinds /\ "high" \in Kinds /\ "low" # "high" /\ \A t \in Kinds : t = "low" \/ t = "high"
  BY DEF Kinds
<1>2. ASSUME NEW t \in Kinds, NEW id \in ChunkId, id[2] <= node[id[1]].seq
      PROVE  id[2] <= node'[id[1]].seq
  <2>1. id[1] \in Nodes /\ id[2] \in Nat
    BY DEF ChunkId
  <2> DEFINE a == node[id[1]].seq
             b == node'[id[1]].seq
  <2>2. a \in Nat /\ b \in Nat /\ a <= b
    BY Zenon, <2>1, LaneInvStep
  <2>3. id[2] <= a
    BY Zenon, <1>2
  <2> HIDE DEF a, b
  <2>4. id[2] <= b
    BY <2>1, <2>2, <2>3
  <2> QED
    BY Zenon, <2>4 DEF b
<1>3. CASE SameMarks
  <2>1. MarkIds'
    BY Zenon, <1>0, <1>2, <1>3 DEF MarkIds, SameMarks
  <2>2. MarksOnce'
    BY Zenon, <1>0, <1>3 DEF MarksOnce, SameMarks
  <2>3. LowFirst'
    BY Zenon, <1>0, <1>1, <1>3 DEF LowFirst, SameMarks
  <2> QED
    BY Zenon, <2>1, <2>2, <2>3
<1>4. ASSUME NEW n \in Nodes, EmitLow(n) \/ EmitHigh(n)
      PROVE  MarkIds' /\ MarksOnce' /\ LowFirst'
  <2> DEFINE k == node[n].lane
             w == node[n].window
             x == w[Len(w)].id
             N == Len(wal) + 1
  <2>1. x \in ChunkId /\ k \in Kinds /\ AddsMark(k, x)
    BY Zenon, <1>4, EmitMarks
  <2>2. w \in Seq(Chunk) /\ Len(w) \in Nat \ {0}
    BY Zenon, <1>0, <1>4, EmitEffect
  <2>3. Len(w) \in DOMAIN w
    BY <2>2, WindowOf
  <2>4. x[1] = n /\ x[2] <= node[n].seq
    BY Zenon, <1>0, <2>3 DEF LaneInv, LaneInvOf, WindowIds
  <2>5. /\ MarkAt(wal, "high", x) = {}
        /\ k = "low" <=> MarkAt(wal, "low", x) = {}
    <3>1. IsOpen(k)
      BY Zenon, <1>1, <2>1 DEF IsOpen
    <3> QED
      BY Zenon, <1>0, <3>1 DEF LaneInv, LaneInvOf, LaneMarks
  <2>6. \A t \in Kinds, id \in ChunkId : \A p \in MarkAt(wal, t, id) : p < N
    <3>1. Len(wal) \in Nat
      BY Zenon, <1>0, WALTyped
    <3>2. \A t \in Kinds, id \in ChunkId : \A p \in MarkAt(wal, t, id) : p \in Nat /\ p <= Len(wal)
      BY Zenon, <1>0, MarksTyped
    <3> QED
      BY <3>1, <3>2
  <2> HIDE DEF w, x, N, k
  <2>7. /\ \A t \in Kinds, id \in ChunkId : t # k \/ id # x => MarkAt(wal', t, id) = MarkAt(wal, t, id)
        /\ MarkAt(wal', k, x) = MarkAt(wal, k, x) \cup {N}
        /\ MarkAt(wal, k, x) = {}
    BY Zenon, <1>1, <2>1, <2>5 DEF AddsMark, N
  <2>8. MarkIds'
    <3> SUFFICES ASSUME NEW t \in Kinds, NEW id \in ChunkId, MarkAt(wal', t, id) # {}
                 PROVE  id[2] <= node'[id[1]].seq
      BY Zenon DEF MarkIds
    <3>1. id[2] <= node[id[1]].seq
      BY Zenon, <1>0, <2>4, <2>7 DEF MarkIds
    <3> QED
      BY Zenon, <1>2, <3>1
  <2>9. MarksOnce'
    <3> SUFFICES ASSUME NEW t \in Kinds, NEW id \in ChunkId,
                        NEW p \in MarkAt(wal', t, id), NEW q \in MarkAt(wal', t, id)
                 PROVE  p = q
      BY Zenon DEF MarksOnce
    <3>1. CASE t = k /\ id = x
      BY Zenon, <2>7, <3>1
    <3>2. CASE t # k \/ id # x
      <4>1. MarkAt(wal', t, id) = MarkAt(wal, t, id)
        BY Zenon, <2>7, <3>2
      <4> QED
        BY Zenon, <1>0, <4>1 DEF MarksOnce
    <3> QED
      BY Zenon, <3>1, <3>2
  <2>10. LowFirst'
    <3> SUFFICES ASSUME NEW id \in ChunkId, NEW h \in MarkAt(wal', "high", id)
                 PROVE  \E l \in MarkAt(wal', "low", id) : l < h
      BY Zenon DEF LowFirst
    <3>1. MarkAt(wal, "low", id) \subseteq MarkAt(wal', "low", id)
      BY Zenon, <1>1, <2>7
    <3>2. CASE h \in MarkAt(wal, "high", id)
      BY Zenon, <1>0, <3>1, <3>2 DEF LowFirst
    <3>3. CASE h \notin MarkAt(wal, "high", id)
      <4>0. k = "high" /\ id = x
        BY Zenon, <1>1, <2>7, <3>3
      <4>1. k = "high" /\ id = x /\ h = N
        BY Zenon, <2>7, <3>3, <4>0
      <4>2. MarkAt(wal, "low", x) # {}
        BY Zenon, <1>1, <2>5, <4>1
      <4> QED
        BY Zenon, <1>1, <2>6, <3>1, <4>1, <4>2
    <3> QED
      BY Zenon, <3>2, <3>3
  <2> QED
    BY Zenon, <2>8, <2>9, <2>10
<1> QED
  BY Zenon, <1>3, <1>4, MarksStep

\* Rows reach the queue when the high mark of their chunk is read.
LEMMA OutMarksStep ==
  ASSUME BackfillAssumption, TypeInv, Selecting, MarksInv, Next
  PROVE  OutMarks'
<1>0. TypeOK /\ OutMarks
  BY Zenon DEF TypeInv, MarksInv
<1>1. "high" \in Kinds
  BY DEF Kinds
<1>2. \A i \in DOMAIN out : out[i].d.t = "rows" =>
        out[i].d.id \in ChunkId /\ out[i].pos \in MarkAt(wal', "high", out[i].d.id)
  <2>1. ASSUME NEW i \in DOMAIN out, out[i].d.t = "rows"
        PROVE  out[i].d.id \in ChunkId
    <3>1. out[i].d \in Delivery
      BY Zenon, <1>0, WALTyped
    <3> QED
      BY <2>1, <3>1 DEF Delivery, WALRecord
  <2>2. ASSUME NEW i \in DOMAIN out, out[i].d.t = "rows"
        PROVE  out[i].pos \in MarkAt(wal, "high", out[i].d.id)
    BY Zenon, <1>0, <2>2 DEF OutMarks
  <2>3. ASSUME NEW i \in DOMAIN out, out[i].d.t = "rows"
        PROVE  out[i].pos \in MarkAt(wal', "high", out[i].d.id)
    BY Zenon, <1>1, <2>1, <2>2, <2>3, MarksGrow
  <2> QED
    BY Zenon, <2>1, <2>3
<1>3. out \in Seq([pos : 1..Len(wal), d : Delivery])
  BY Zenon, <1>0 DEF TypeOK
<1>4. CASE out' = out
  BY Zenon, <1>2, <1>4 DEF OutMarks
<1>5. CASE out' = <<>>
  <2>1. DOMAIN out' = {}
    BY <1>5
  <2> QED
    BY Zenon, <2>1 DEF OutMarks
<1>6. CASE Deliver
  <2>1. out' = Tail(out) /\ out # <<>>
    BY Zenon, <1>6 DEF Deliver
  <2>2. \A i \in DOMAIN out' : out'[i] = out[i + 1] /\ i + 1 \in DOMAIN out
    BY SMTT(30), <1>3, <2>1, TailOf
  <2> QED
    BY Zenon, <1>2, <2>2 DEF OutMarks
<1>7. ASSUME NEW d, d \in Delivery, cur + 1 \in DOMAIN wal,
             out' = Append(out, [pos |-> cur + 1, d |-> d]),
             d.t = "rows" => cur + 1 \in MarkAt(wal', "high", d.id)
      PROVE  OutMarks'
  <2> DEFINE e == [pos |-> cur + 1, d |-> d]
  <2>1. e \in [pos : 1..Len(wal), d : Delivery] /\ e.pos = cur + 1 /\ e.d = d
    BY <1>0, <1>7, WALTyped
  <2> HIDE DEF e
  <2>2. /\ DOMAIN out' = DOMAIN out \cup {Len(out) + 1}
        /\ out'[Len(out) + 1] = e /\ \A i \in DOMAIN out : out'[i] = out[i]
    <3>1. out' = Append(out, e)
      BY Zenon, <1>7 DEF e
    <3> QED
      BY <1>3, <2>1, <3>1, AppendTo
  <2>3. ASSUME NEW i \in DOMAIN out', out'[i].d.t = "rows"
        PROVE  out'[i].pos \in MarkAt(wal', "high", out'[i].d.id)
    <3>1. CASE i \in DOMAIN out
      BY Zenon, <1>2, <2>2, <2>3, <3>1
    <3>2. CASE i = Len(out) + 1
      BY ZenonT(40), <1>7, <2>1, <2>2, <2>3, <3>2
    <3> QED
      BY Zenon, <2>2, <3>1, <3>2
  <2> QED
    BY Zenon, <2>3 DEF OutMarks
<1>8. CASE ReadChange
  <2> DEFINE r == wal[cur + 1]
  <2>1. /\ cur + 1 \in DOMAIN wal /\ r \in WALRecord
        /\ out' = Append(out, [pos |-> cur + 1, d |-> r])
    BY Zenon, <1>0, <1>8, ReadChangeEffect
  <2>2. r \in Delivery /\ r.t # "rows"
    BY <2>1 DEF Delivery, WALRecord
  <2> QED
    BY Zenon, <1>7, <2>1, <2>2
<1>9. CASE ReadWatermark
  <2> DEFINE r == wal[cur + 1]
             w == node[owner].window
  <2>1. /\ owner \in Nodes /\ cur + 1 \in DOMAIN wal /\ r \in WALRecord
        /\ \/ out' = out
           \/ \E d \in Surviving(w, r) : out' = Append(out, [pos |-> cur + 1, d |-> d])
        /\ wal' = wal
    BY Zenon, <1>0, <1>9, ReadWatermarkEffect DEF dbVars
  <2>2. w \in Seq(Chunk)
    BY Zenon, <1>0, <2>1, NodeTyped
  <2>3. ASSUME NEW d \in Surviving(w, r), out' = Append(out, [pos |-> cur + 1, d |-> d])
        PROVE  OutMarks'
    <3>1. r.t = "high" /\ d.id = r.id /\ d \in Delivery
      BY SMTT(30), <2>1, <2>2, SurvivingTyped
    <3>2. cur + 1 \in MarkAt(wal', "high", d.id)
      BY Zenon, <2>1, <3>1 DEF MarkAt
    <3> QED
      BY Zenon, <1>7, <2>1, <2>3, <3>1, <3>2
  <2> QED
    BY Zenon, <1>4, <2>1, <2>3
<1>10. \/ out' = out \/ out' = <<>> \/ Deliver \/ ReadChange \/ ReadWatermark
  <2>1. \/ Quiet \/ Change \/ ReadChange \/ ReadWatermark \/ Deliver
        \/ \E n \in Nodes : EmitLow(n) \/ EmitHigh(n)
        \/ \E n \in Nodes : StreamStarts(n) \/ StreamStops(n) \/ Crash(n)
    BY Zenon, StepKinds DEF TypeInv
  <2>2. Change => out' = out
    BY Zenon, <1>0, ChangeEffect DEF streamVars
  <2> QED
    BY Zenon, <2>1, <2>2 DEF Quiet, EmitLow, EmitHigh, StreamStarts, StreamStops, Crash, streamVars
<1> QED
  BY Zenon, <1>4, <1>5, <1>6, <1>8, <1>9, <1>10

\* A chunk that collects after a step collected before, or its low mark was
\* just read.
FollowsBy(m, w, v, d) ==
  \A i \in DOMAIN v : Collecting(v[i]) =>
    /\ i + d \in DOMAIN w /\ v[i].id = w[i + d].id /\ w[i + d].known
    /\ IF Turns(m, w[i + d].id) THEN wal[cur + 1].t = "low" ELSE Collecting(w[i + d])

\* In every step of the system, each node's collecting chunks were collecting or
\* had their low mark read just then (HandleChange, LowWatermark).
LEMMA Follows ==
  ASSUME BackfillAssumption, TypeInv, Selecting, MarksInv, Next, NEW m \in Nodes
  PROVE  \E d \in Nat : FollowsBy(m, node[m].window, node'[m].window, d)
<1>0. /\ TypeOK /\ Laned(m) /\ \A n \in Nodes : Laned(n) /\ NotDone(n)
  BY Zenon DEF TypeInv, MarksInv
<1> DEFINE w == node[m].window
<1>1. w \in Seq(Chunk)
  BY Zenon, <1>0, NodeTyped
<1>2. Len(w) \in Nat /\ DOMAIN w = 1..Len(w)
  BY Zenon, <1>1, WindowOf
<1>3. 0 \in Nat /\ \A i \in DOMAIN w : i + 0 = i
  BY <1>2
<1>4. ASSUME cur' = cur PROVE ~ReadWatermark
  <2>1. cur \in Nat
    BY Zenon, <1>0, WALTyped
  <2>2. ReadWatermark => cur' = cur + 1
    BY Zenon DEF ReadWatermark
  <2>3. cur # cur + 1
    BY <2>1
  <2> QED
    BY Zenon, <1>4, <2>2, <2>3
<1>5. CASE Sheds(m)
  <2>1. PICK u, v, d : ShedsTo(m, u, v, d)
    BY Zenon, <1>5 DEF Sheds
  <2>2. u = w /\ v = node'[m].window /\ Len(u) \in Nat /\ d \in 0..Len(u)
    BY Zenon, <2>1 DEF ShedsTo
  <2>3. d \in Nat
    BY <2>2
  <2>4. ASSUME NEW i \in DOMAIN v, Collecting(v[i])
        PROVE /\ i + d \in DOMAIN u /\ v[i].id = u[i + d].id /\ u[i + d].known
              /\ IF Turns(m, u[i + d].id) THEN wal[cur + 1].t = "low" ELSE Collecting(u[i + d])
    <3>1. i + d \in DOMAIN u /\ Keeps(m, u[i + d], v[i])
      BY Zenon, <2>1 DEF ShedsTo
    <3> QED
      BY Zenon, <2>4, <3>1 DEF Keeps, Collecting
  <2>5. FollowsBy(m, u, v, d)
    BY Zenon, <2>4 DEF FollowsBy
  <2> QED
    BY Zenon, <2>2, <2>3, <2>5
<1>6. CASE Register(m)
  <2> DEFINE e == NewChunk(m)
             v == node'[m].window
  <2>1. v = Append(w, e) /\ cur' = cur
    BY Zenon, <1>0, <1>6, RegisterEffect DEF Becomes, streamVars
  <2>2. e \in Chunk
    BY Zenon, <1>0, NewChunkTyped
  <2>3. ~e.collecting
    BY DEF NewChunk
  <2> HIDE DEF e, w, v
  <2>4. /\ DOMAIN v = DOMAIN w \cup {Len(w) + 1}
        /\ v[Len(w) + 1] = e /\ \A i \in DOMAIN w : v[i] = w[i]
    BY SMTT(30), <1>1, <2>1, <2>2, AppendTo
  <2>5. FollowsBy(m, w, v, 0)
    BY Zenon, <1>3, <1>4, <2>1, <2>3, <2>4 DEF FollowsBy, Collecting, Turns
  <2> QED
    BY Zenon, <1>3, <2>5 DEF w, v
<1>7. CASE EmitLow(m) \/ EmitHigh(m)
  <2>1. node'[m].window = w /\ cur' = cur
    BY ZenonT(40), <1>0, <1>7, EmitEffect DEF Becomes, streamVars
  <2>2. FollowsBy(m, w, w, 0)
    BY Zenon, <1>3, <1>4, <2>1 DEF FollowsBy, Collecting, Turns
  <2> QED
    BY Zenon, <1>3, <2>1, <2>2
<1> QED
  BY Zenon, <1>0, <1>5, <1>6, <1>7, NodeStep

\* The chunk the stream's mark opens and an older one that collects, or a
\* chunk that collects and an older one the mark opens: the WAL holds no such
\* marks.
LEMMA NoTwo ==
  ASSUME BackfillAssumption, TypeInv, MarksInv, ReadWatermark, NEW m \in Nodes, owner = m,
         NEW w, w = node[m].window, NEW a \in DOMAIN w, NEW b \in DOMAIN w, a < b,
         w[a].known, w[b].known,
         Turns(m, w[a].id) => wal[cur + 1].t = "low",
         Turns(m, w[b].id) => wal[cur + 1].t = "low",
         ~Turns(m, w[a].id) => Collecting(w[a]),
         ~Turns(m, w[b].id) => Collecting(w[b])
  PROVE  FALSE
<1>0. /\ TypeOK /\ MarksOnce /\ LowFirst /\ LaneInv(m) /\ Reading(wal, w, cur)
  BY Zenon DEF TypeInv, MarksInv
<1>1. WindowIds(m, w, node[m].seq) /\ Ordered(wal, w)
  BY Zenon, <1>0 DEF LaneInv, LaneInvOf
<1>2. cur \in Nat /\ cur + 1 \in DOMAIN wal
  BY Zenon, <1>0, WALTyped, ReadWatermarkEffect
<1> DEFINE x == w[a].id
           y == w[b].id
<1>3. x \in ChunkId /\ y \in ChunkId /\ x[2] < y[2]
  BY Zenon, <1>1 DEF WindowIds
<1>4. x # y
  <2>1. y[2] \in Nat
    BY <1>3 DEF ChunkId
  <2>2. ~(y[2] < y[2])
    BY <2>1
  <2> QED
    BY ZenonT(40), <1>3, <2>2
<1>5. \A p \in MarkAt(wal, "low", y) : \E h \in MarkAt(wal, "high", x) : h < p
  BY Zenon, <1>1 DEF Ordered
<1> HIDE DEF x, y
<1>6. \A t, id : \A p \in MarkAt(wal, t, id) : p \in Nat
  BY Zenon, <1>0, MarksTyped
<1>7. CASE Turns(m, y)
  <2>1. cur + 1 \in MarkAt(wal, "low", y) /\ ~Turns(m, x)
    BY Zenon, <1>2, <1>4, <1>7 DEF MarkAt, Turns, y
  <2>2. PICK h \in MarkAt(wal, "high", x) : h < cur + 1
    BY Zenon, <1>5, <2>1
  <2>3. h > cur
    BY Zenon, <1>0, <2>1 DEF Reading, x
  <2> QED
    BY SMTT(30), <1>2, <1>6, <2>2, <2>3
<1>8. CASE ~Turns(m, y)
  <2>1. PICK p \in MarkAt(wal, "low", y) : p <= cur
    BY Zenon, <1>0, <1>8 DEF Reading, y
  <2>2. PICK h \in MarkAt(wal, "high", x) : h < p
    BY Zenon, <1>5, <2>1
  <2>3. CASE ~Turns(m, x)
    <3>1. h > cur
      BY Zenon, <1>0, <2>3 DEF Reading, x
    <3> QED
      BY SMTT(30), <1>2, <1>6, <2>1, <2>2, <3>1
  <2>4. CASE Turns(m, x)
    <3>1. cur + 1 \in MarkAt(wal, "low", x)
      BY Zenon, <1>2, <2>4 DEF MarkAt, Turns, x
    <3>2. PICK l \in MarkAt(wal, "low", x) : l < h
      BY Zenon, <1>0, <1>3 DEF LowFirst
    <3>3. l = cur + 1
      BY Zenon, <1>0, <1>3, <3>1 DEF MarksOnce, Kinds
    <3>4. l \in Nat /\ h \in Nat /\ p \in Nat
      BY Zenon, <1>6
    <3> QED
      BY SMTT(30), <1>2, <2>1, <2>2, <3>2, <3>3, <3>4
  <2> QED
    BY Zenon, <2>3, <2>4
<1> QED
  BY Zenon, <1>7, <1>8

\* One chunk collects at a time.
LEMMA AloneStep ==
  ASSUME BackfillAssumption, TypeInv, Selecting, MarksInv, Next, NEW m \in Nodes
  PROVE  Alone(node'[m].window)
<1> DEFINE w == node[m].window
           v == node'[m].window
<1>1. PICK d \in Nat : FollowsBy(m, w, v, d)
  BY Zenon, Follows
<1>2. Alone(w)
  BY Zenon DEF MarksInv
<1>3. w \in Seq(Chunk)
  BY Zenon, NodeTyped DEF TypeInv
<1>4. DOMAIN w = 1..Len(w) /\ Len(w) \in Nat
  BY Zenon, <1>3, WindowOf
<1>5. node' \in [Nodes -> Coordinator]
  BY Zenon, WindowStep
<1>6. v \in Seq(Chunk)
  BY Zenon, <1>5 DEF Coordinator
<1>7. DOMAIN v = 1..Len(v) /\ Len(v) \in Nat
  BY Zenon, <1>6, WindowOf
<1>8. w = node[m].window
  OBVIOUS
<1> HIDE DEF w, v
<1>9. SUFFICES ASSUME NEW i \in DOMAIN v, NEW j \in DOMAIN v, Collecting(v[i]), Collecting(v[j]), i < j
               PROVE  FALSE
  <2>1. \A i, j \in DOMAIN v : ~(i < j) /\ ~(j < i) => i = j
    BY <1>7
  <2> QED
    BY Zenon, <2>1 DEF Alone, v
<1> DEFINE a == i + d
           b == j + d
<1>10. a \in DOMAIN w /\ b \in DOMAIN w
  BY Zenon, <1>1, <1>9 DEF FollowsBy
<1>11. a < b /\ a # b
  BY <1>7, <1>9
<1>12. /\ w[a].known /\ w[b].known
       /\ (Turns(m, w[a].id) => wal[cur + 1].t = "low")
       /\ (Turns(m, w[b].id) => wal[cur + 1].t = "low")
       /\ (~Turns(m, w[a].id) => Collecting(w[a]))
       /\ (~Turns(m, w[b].id) => Collecting(w[b]))
  BY Zenon, <1>1, <1>9 DEF FollowsBy
<1> HIDE DEF a, b
<1>13. CASE ReadWatermark /\ owner = m
  BY Zenon, <1>8, <1>10, <1>11, <1>12, <1>13, NoTwo
<1>14. CASE ~(ReadWatermark /\ owner = m)
  BY Zenon, <1>2, <1>10, <1>11, <1>12, <1>14 DEF Alone, Turns
<1> QED
  BY Zenon, <1>13, <1>14

\* A chunk that collects is between its marks.
LEMMA ReadingStep ==
  ASSUME BackfillAssumption, TypeInv, Selecting, MarksInv, Next, NEW m \in Nodes, owner' = m
  PROVE  Reading(wal', node'[m].window, cur')
<1>0. /\ TypeOK /\ MarksOnce /\ LowFirst /\ LaneInv(m)
      /\ owner = m => Reading(wal, node[m].window, cur)
  BY Zenon DEF TypeInv, MarksInv
<1> DEFINE w == node[m].window
           v == node'[m].window
<1>1. PICK d \in Nat : FollowsBy(m, w, v, d)
  BY Zenon, Follows
<1>2. cur \in Nat /\ cur <= Len(wal) /\ Len(wal) \in Nat /\ cur # cur + 1
  BY <1>0, WALTyped
<1>3. \A t, id : \A p \in MarkAt(wal, t, id) : p \in Nat /\ p \in DOMAIN wal /\ wal[p].t = t /\ wal[p].id = id
  BY ZenonT(40), <1>0, MarksTyped
<1>4. "low" \in Kinds /\ "high" \in Kinds
  BY DEF Kinds
<1>5. \A i \in DOMAIN w : w[i].id \in ChunkId
  BY Zenon, <1>0 DEF LaneInv, LaneInvOf, WindowIds
<1> HIDE DEF w, v
<1>6. SUFFICES ASSUME NEW i \in DOMAIN v, Collecting(v[i]), NEW x, x = w[i + d].id
               PROVE  /\ \E p \in MarkAt(wal', "low", x) : p <= cur'
                      /\ \A h \in MarkAt(wal', "high", x) : h > cur'
  BY Zenon, <1>1 DEF Reading, FollowsBy, v
<1>7. /\ x \in ChunkId /\ v[i].id = x
      /\ IF Turns(m, x) THEN wal[cur + 1].t = "low" ELSE Collecting(w[i + d])
      /\ i + d \in DOMAIN w
  BY Zenon, <1>1, <1>5, <1>6 DEF FollowsBy
<1>8. owner = m /\ ~Turns(m, x) =>
        (\E p \in MarkAt(wal, "low", x) : p <= cur) /\ (\A h \in MarkAt(wal, "high", x) : h > cur)
  BY Zenon, <1>0, <1>6, <1>7 DEF Reading, w
<1>9. ASSUME ReadWatermark PROVE  /\ \E p \in MarkAt(wal', "low", x) : p <= cur'
                      /\ \A h \in MarkAt(wal', "high", x) : h > cur'
  <2>1. wal' = wal /\ cur' = cur + 1 /\ owner = m /\ cur + 1 \in DOMAIN wal
    BY Zenon, <1>0, <1>9, ReadWatermarkEffect DEF dbVars
  <2>2. CASE Turns(m, x)
    <3>1. cur + 1 \in MarkAt(wal, "low", x)
      BY Zenon, <1>7, <2>1, <2>2 DEF MarkAt, Turns
    <3>2. cur + 1 <= cur + 1
      BY <1>2
    <3>3. ASSUME NEW h \in MarkAt(wal, "high", x) PROVE h > cur + 1
      <4>1. PICK l \in MarkAt(wal, "low", x) : l < h
        BY Zenon, <1>0, <1>7 DEF LowFirst
      <4>2. l = cur + 1 /\ h \in Nat
        BY ZenonT(40), <1>0, <1>3, <1>4, <1>7, <3>1 DEF MarksOnce
      <4> QED
        BY SMTT(30), <1>2, <4>1, <4>2
    <3> QED
      BY Zenon, <2>1, <3>1, <3>2, <3>3
  <2>3. CASE ~Turns(m, x)
    <3>1. PICK p \in MarkAt(wal, "low", x) : p <= cur
      BY ZenonT(40), <1>8, <2>1, <2>3
    <3>2. p \in Nat
      BY Zenon, <1>3
    <3>3. p <= cur + 1
      BY SMTT(30), <1>2, <3>1, <3>2
    <3>4. ASSUME NEW h \in MarkAt(wal, "high", x) PROVE h > cur + 1
      <4>1. h > cur /\ h \in Nat
        BY Zenon, <1>3, <1>8, <2>1, <2>3
      <4>2. h # cur + 1
        <5>1. wal[h].id = x
          BY Zenon DEF MarkAt
        <5> QED
          BY Zenon, <1>9, <2>1, <2>3, <5>1 DEF Turns
      <4> QED
        BY SMTT(30), <1>2, <4>1, <4>2
    <3> QED
      BY ZenonT(40), <2>1, <3>1, <3>3, <3>4
  <2> QED
    BY Zenon, <2>2, <2>3
<1>10. ASSUME ReadChange PROVE  /\ \E p \in MarkAt(wal', "low", x) : p <= cur'
                      /\ \A h \in MarkAt(wal', "high", x) : h > cur'
  <2>1. /\ wal' = wal /\ cur' = cur + 1 /\ owner = m /\ cur + 1 \in DOMAIN wal
        /\ wal[cur + 1].t \notin {"low", "high"}
    BY Zenon, <1>0, <1>10, ReadChangeEffect DEF dbVars
  <2>2. ~Turns(m, x)
    BY Zenon, <2>1 DEF Turns, ReadWatermark
  <2>3. PICK p \in MarkAt(wal, "low", x) : p <= cur
    BY Zenon, <1>8, <2>1, <2>2
  <2>4. p \in Nat
    BY Zenon, <1>3
  <2>5. p <= cur + 1
    BY <1>2, <2>3, <2>4
  <2>6. ASSUME NEW h \in MarkAt(wal, "high", x) PROVE h > cur + 1
    <3>1. h > cur /\ h \in Nat
      BY Zenon, <1>3, <1>8, <2>1, <2>2
    <3>2. h # cur + 1
      <4>1. wal[h].t = "high"
        BY Zenon, <1>3
      <4> QED
        BY Zenon, <2>1, <4>1
    <3> QED
      BY <1>2, <3>1, <3>2
  <2> QED
    BY Zenon, <2>1, <2>3, <2>5, <2>6
<1>11. ASSUME cur' = cur, owner = m
       PROVE  /\ \E p \in MarkAt(wal', "low", x) : p <= cur'
              /\ \A h \in MarkAt(wal', "high", x) : h > cur'
  <2>1. ~Turns(m, x)
    BY Zenon, <1>2, <1>11 DEF Turns, ReadWatermark
  <2>2. PICK p \in MarkAt(wal, "low", x) : p <= cur
    BY Zenon, <1>8, <1>11, <2>1
  <2>3. p \in MarkAt(wal', "low", x)
    BY ZenonT(40), <1>4, <1>7, MarksGrow
  <2>4. Len(wal) + 1 > cur
    BY <1>2
  <2>5. ASSUME NEW h \in MarkAt(wal', "high", x) PROVE h > cur
    <3>1. h \in MarkAt(wal, "high", x) \/ h = Len(wal) + 1
      BY Zenon, <1>4, <1>7, MarksGrow
    <3> QED
      BY Zenon, <1>8, <1>11, <2>1, <2>4, <3>1
  <2> QED
    BY Zenon, <1>11, <2>2, <2>3, <2>5
<1>12. ASSUME StreamStarts(m) PROVE FALSE
  <2>1. PICK u, z : Holds(m, u, z)
    BY Zenon, <1>0, <1>12, RestartWindow
  <2>2. owner # m /\ owner' = m
    BY Zenon, <1>12 DEF StreamStarts, BackfillAssumption
  <2>3. z = v /\ \A j \in DOMAIN z : RestartsChunk(u[j], z[j])
    BY Zenon, <2>1, <2>2 DEF Holds, Stays, v
  <2> QED
    BY Zenon, <1>6, <2>3 DEF RestartsChunk, Collecting
<1>13. ReadWatermark \/ ReadChange \/ StreamStarts(m) \/ (cur' = cur /\ owner = m)
  <2>1. \/ Quiet \/ Change \/ ReadChange \/ ReadWatermark \/ Deliver
        \/ \E n \in Nodes : EmitLow(n) \/ EmitHigh(n)
        \/ \E n \in Nodes : StreamStarts(n) \/ StreamStops(n) \/ Crash(n)
    BY Zenon, StepKinds DEF TypeInv
  <2>2. Change => UNCHANGED <<cur, owner>>
    BY Zenon, <1>0, ChangeEffect DEF streamVars
  <2>3. Quiet => UNCHANGED <<cur, owner>>
    BY Zenon DEF Quiet, streamVars
  <2>4. Deliver => UNCHANGED <<cur, owner>>
    BY Zenon DEF Deliver
  <2>5. ASSUME NEW n \in Nodes, EmitLow(n) \/ EmitHigh(n) PROVE UNCHANGED <<cur, owner>>
    BY Zenon, <2>5 DEF EmitLow, EmitHigh, streamVars
  <2>6. ASSUME NEW n \in Nodes, StreamStarts(n) PROVE StreamStarts(m)
    BY Zenon, <2>6 DEF StreamStarts
  <2>7. m # None
    BY Zenon DEF BackfillAssumption
  <2>8. ASSUME NEW n \in Nodes, StreamStops(n) PROVE FALSE
    BY ZenonT(40), <2>7, <2>8 DEF StreamStops
  <2>9. ASSUME NEW n \in Nodes, Crash(n) PROVE UNCHANGED <<cur, owner>>
    BY Zenon, <2>7, <2>9 DEF Crash
  <2> QED
    BY Zenon, <2>1, <2>2, <2>3, <2>4, <2>5, <2>6, <2>8, <2>9
<1> QED
  BY ZenonT(40), <1>9, <1>10, <1>11, <1>12, <1>13

-----------------------------------------------------------------------------
(* Putting it together.                                                    *)

\* Nothing has been written to the WAL and no chunk is open at the start.
LEMMA MarksInit ==
  ASSUME BackfillAssumption, Init
  PROVE  MarksInv
<1>1. DOMAIN wal = {} /\ DOMAIN out = {} /\ owner = None
  BY DEF Init
<1>2. \A t, id : MarkAt(wal, t, id) = {}
  BY Zenon, <1>1 DEF MarkAt
<1>3. ASSUME NEW n \in Nodes
      PROVE  DOMAIN node[n].window = {} /\ node[n].lane = "idle" /\ owner # n
  <2>1. node[n] = Started(0, NotFound)
    BY Zenon DEF Init
  <2>2. node[n].window = <<>> /\ node[n].lane = "idle"
    BY SMTT(30), <2>1 DEF Started
  <2>3. DOMAIN <<>> = {}
    BY NoRows
  <2> QED
    BY Zenon, <1>1, <2>2, <2>3 DEF BackfillAssumption
<1>4. MarkIds /\ MarksOnce /\ LowFirst /\ OutMarks
  BY Zenon, <1>1, <1>2 DEF MarkIds, MarksOnce, LowFirst, OutMarks
<1>5. ~IsOpen("idle") /\ "idle" \notin {"low", "select"}
  BY DEF IsOpen
<1>6. ASSUME NEW n \in Nodes
      PROVE  LaneInv(n) /\ NotDone(n) /\ Alone(node[n].window)
  <2>1. LaneInv(n)
    BY Zenon, <1>3, <1>5 DEF LaneInv, LaneInvOf, WindowIds, LaneMarks, HighEmitted, Ordered, InFlight
  <2> QED
    BY Zenon, <1>3, <1>5, <2>1 DEF NotDone, Alone
<1> QED
  BY Zenon, <1>3, <1>4, <1>6 DEF MarksInv

\* Every step of the coordinators, the stream and the database keeps the
\* invariant of the marks.
LEMMA MarksInvStep ==
  ASSUME BackfillAssumption, TypeInv, Selecting, MarksInv, [Next]_vars
  PROVE  MarksInv'
<1>1. CASE UNCHANGED vars
  <2>1. wal' = wal /\ node' = node /\ out' = out /\ owner' = owner /\ cur' = cur
    BY Zenon, <1>1 DEF vars, dbVars, streamVars
  <2> QED
    BY Zenon, <2>1 DEF MarksInv, MarkIds, MarksOnce, LowFirst, OutMarks, LaneInv, NotDone, Newest
<1>2. CASE Next
  <2>1. MarkIds' /\ MarksOnce' /\ LowFirst' /\ OutMarks'
    BY Zenon, <1>2, WALMarksStep, OutMarksStep
  <2>2. ASSUME NEW n \in Nodes
        PROVE  /\ LaneInv(n)' /\ NotDone(n)' /\ Alone(node'[n].window)
               /\ owner' = n => Reading(wal', node'[n].window, cur')
    BY Zenon, <1>2, LaneInvStep, NotDoneStep, AloneStep, ReadingStep
  <2> QED
    BY Zenon, <2>1, <2>2 DEF MarksInv
<1> QED
  BY Zenon, <1>1, <1>2

\* What the invariant says of the windows of the lanes.
LEMMA MarksInvSays ==
  ASSUME TypeInv, MarksInv
  PROVE  ChunksDoNotOverlap /\ HeadIsInFlight
<1>1. ChunksDoNotOverlap
  BY Zenon DEF MarksInv, Alone, ChunksDoNotOverlap
<1>2. ASSUME NEW n \in Nodes, node[n].window # <<>>
      PROVE  LET head == Head(node[n].window) IN head.done \/ ~head.live \/ head.known
  <2> DEFINE w == node[n].window
  <2>1. w \in Seq(Chunk)
    BY Zenon, NodeTyped DEF TypeInv
  <2>2. InFlight(w)
    BY Zenon DEF MarksInv, LaneInv, LaneInvOf
  <2>3. Head(w) = w[1] /\ 1 \in DOMAIN w
    BY <1>2, <2>1, TailOf
  <2> QED
    BY Zenon, <2>2, <2>3 DEF InFlight
<1>3. HeadIsInFlight
  BY Zenon, <1>2 DEF HeadIsInFlight
<1> QED
  BY Zenon, <1>1, <1>3
=============================================================================
