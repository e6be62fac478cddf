--------------------------- MODULE BackfillProofs ---------------------------
(***************************************************************************)
(* The theorems about backfills, for any number of nodes, keys, chunks,    *)
(* changes and faults: types, chunks that do not overlap, a head that is   *)
(* in flight, and, when the application inserts, updates and deletes, rows *)
(* that are right in the sinks once the progress covers them.              *)
(***************************************************************************)
EXTENDS BackfillRows

-----------------------------------------------------------------------------
(* What the progress claims.                                               *)

\* The keys whose rows the sinks have, or are to get from the WAL.
GoodSet == {k \in Keys : Good(k)}

\* Everything up to the cursor is in G.
Upto(G, c) == \A k \in Keys : k <= c => k \in G

\* A chunk continues where the one before it ended, the first at the cursor c.
From(c, w, i) == IF i = 1 THEN c ELSE w[i - 1].last
Covers(c, w, i, k) ==
  k > From(c, w, i) /\ (w[i].count < ChunkSize \/ k <= w[i].last)

\* The lane selects behind the chunks it has.
Chain(c, x, w, l) ==
  /\ Going(l) => x = From(c, w, Len(w) + 1)
  /\ Begun(l) => x = From(c, w, Len(w))

\* What a chunk that is done covers is in G.
DoneTrue(G, c, w) ==
  \A i \in DOMAIN w : w[i].done => \A k \in Keys : Covers(c, w, i, k) => k \in G

\* What a chunk in flight covers is in G, in its rows, or queued.
InOut(u, id, k) ==
  \E j \in DOMAIN u : u[j].d.t = "rows" /\ u[j].d.id = id /\ k \in DOMAIN u[j].d.rows
OnWay(G, u, c, w, l) ==
  \A i \in DOMAIN w : w[i].known /\ ~(Begun(l) /\ i = Len(w)) =>
    \A k \in Keys : Covers(c, w, i, k) =>
      k \in G \/ k \in DOMAIN w[i].rows \/ InOut(u, w[i].id, k)

ClaimsIn(G, u, o, n, c, x, p, w, l) ==
  /\ Chain(c, x, w, l) /\ Upto(G, c) /\ Upto(G, p.cursor) /\ DoneTrue(G, c, w)
  /\ o = n => OnWay(G, u, c, w, l)
Claims(n) ==
  ClaimsIn(GoodSet, out, owner, n, node[n].cursor, node[n].next, node[n].cached,
           node[n].window, node[n].lane)

\* What the saved progress says.
SavedIn(G, s) == Upto(G, s.cursor) /\ (s.done => \A k \in Keys : k \in G)

\* The inductive invariant of the copy.
CopyInv ==
  /\ StreamInv /\ SavedIn(GoodSet, saved)
  /\ \A n \in Nodes : RowsInv(n) /\ Claims(n)

\* What is right stays right.
GoodKept == \A k \in Keys : k \in GoodSet => k \in GoodSet'

\* The claims of a node after a step.
LEMMA ClaimsNext ==
  ASSUME NEW n
  PROVE  Claims(n)' <=> ClaimsIn(GoodSet', out', owner', n, node'[n].cursor, node'[n].next,
                                 node'[n].cached, node'[n].window, node'[n].lane)
  BY Zenon DEF Claims

\* No key is before the first.
LEMMA FromStart ==
  ASSUME NEW G
  PROVE  Upto(G, 0)
<1>1. \A k \in Keys : ~(k <= 0)
  BY DEF Keys
<1> QED
  BY Zenon, <1>1 DEF Upto

\* Chunks that keep their ranges cover the same keys.
LEMMA SameCover ==
  ASSUME NEW w \in Seq(Chunk), NEW v, \A i \in DOMAIN w : SameRange(w[i], v[i]), NEW c
  PROVE  /\ \A i \in 1..(Len(w) + 1) : From(c, v, i) = From(c, w, i)
         /\ \A i \in DOMAIN w : \A k : Covers(c, v, i, k) <=> Covers(c, w, i, k)
<1>1. Len(w) \in Nat /\ DOMAIN w = 1..Len(w)
  BY Zenon, WindowOf
<1>2. \A i \in 1..(Len(w) + 1) : From(c, v, i) = From(c, w, i)
  <2> SUFFICES ASSUME NEW i \in 1..(Len(w) + 1), i # 1
               PROVE  v[i - 1].last = w[i - 1].last
    BY Zenon DEF From
  <2>1. i - 1 \in DOMAIN w
    BY <1>1
  <2> QED
    BY Zenon, <2>1 DEF SameRange
<1>3. \A i \in DOMAIN w : i \in 1..(Len(w) + 1)
  BY <1>1
<1> QED
  BY Zenon, <1>2, <1>3 DEF Covers, SameRange

\* The rows of a chunk leave the queue one delivery at a time: the first that
\* confirms it is the only one.
LEMMA CompletedGood ==
  ASSUME BackfillAssumption, TypeInv, MarksInv, StreamInv, NEW m \in Nodes, RowsInv(m),
         Claims(m), GoodKept, owner = m, Deliver,
         NEW w, w = node[m].window, NEW i \in DOMAIN w, w[i].known,
         out[1].d.t = "rows", out[1].d.id = w[i].id,
         NEW k \in Keys, Covers(node[m].cursor, w, i, k)
  PROVE  k \in GoodSet'
<1> DEFINE id == w[i].id
           d == out[1].d
<1>0. TypeOK /\ 1 \in DOMAIN out /\ d \in Delivery
  BY Zenon, DeliverEffect DEF TypeInv
<1>1. out[1].pos \in MarkAt(wal, "high", id) /\ out[1].pos <= cur
  BY ZenonT(40), <1>0 DEF StreamInv, QueueInv, Entries, Entry, Positions
<1>2. ~(Begun(node[m].lane) /\ i = Len(w))
  <2>1. Begun(node[m].lane) => IsOpen(node[m].lane)
    BY DEF Begun, IsOpen
  <2> QED
    BY ZenonT(40), <1>1, <2>1 DEF MarksInv, LaneInv, LaneInvOf, LaneMarks
<1>3. k \in GoodSet \/ k \in DOMAIN w[i].rows \/ InOut(out, id, k)
  BY ZenonT(40), <1>2 DEF Claims, ClaimsIn, OnWay
<1>4. k \notin DOMAIN w[i].rows
  BY Zenon, <1>1 DEF RowsInv, Sees
<1>5. ASSUME InOut(out, id, k) PROVE k \in DOMAIN d.rows
  <2>1. PICK j \in DOMAIN out : out[j].d.t = "rows" /\ out[j].d.id = id /\ k \in DOMAIN out[j].d.rows
    BY Zenon, <1>5 DEF InOut
  <2>2. out[j].pos \in MarkAt(wal, "high", id)
    BY ZenonT(40), <2>1 DEF StreamInv, QueueInv, Entries, Entry
  <2>3. id \in ChunkId
    BY Zenon, <1>0, <2>1, EntryRows
  <2>4. out[j].pos = out[1].pos
    <3>1. \A p, q \in MarkAt(wal, "high", id) : p = q
      BY Zenon, <2>3, OneMark
    <3> QED
      BY ZenonT(40), <1>1, <2>2, <3>1
  <2>5. /\ j \in Nat \ {0} /\ out[j].pos \in 1..Len(wal)
        /\ Len(wal) \in Nat
    BY ZenonT(40), <1>0, BaseTyped
  <2>6. 1 < j => out[1].pos < out[j].pos
    BY Zenon, <1>0 DEF StreamInv, QueueInv, Positions
  <2>7. j = 1
    BY SMTT(30), <2>4, <2>5, <2>6
  <2> QED
    BY ZenonT(40), <2>1, <2>7
<1>6. k \in DOMAIN d.rows => Good(k)'
  BY ZenonT(40), <1>0, DeliverStream
<1>7. Good(k)' => k \in GoodSet'
  BY Zenon DEF GoodSet
<1> QED
  BY Zenon, <1>3, <1>4, <1>5, <1>6, <1>7 DEF GoodKept

\* Queueing keeps what is queued.
LEMMA InOutGrows ==
  ASSUME TypeOK, NEW e \in [pos : 1..Len(wal), d : Delivery],
         out' = out \/ out' = Append(out, e), NEW id, NEW k
  PROVE  /\ InOut(out, id, k) => InOut(out', id, k)
         /\ out' = Append(out, e) /\ e.d.t = "rows" /\ e.d.id = id /\ k \in DOMAIN e.d.rows
              => InOut(out', id, k)
<1>1. out' = out => (InOut(out, id, k) => InOut(out', id, k))
  BY Zenon
<1>2. CASE out' = Append(out, e)
  <2>1. /\ DOMAIN out' = DOMAIN out \cup {Len(out) + 1}
        /\ out'[Len(out) + 1] = e /\ \A i \in DOMAIN out : out'[i] = out[i]
    <3>1. out \in Seq([pos : 1..Len(wal), d : Delivery])
      BY Zenon DEF TypeOK
    <3> QED
      BY SMTT(30), <1>2, <3>1, AppendTo
  <2> QED
    BY Zenon, <2>1 DEF InOut
<1> QED
  BY ZenonT(40), <1>1, <1>2

\* HandleWatermark queues the rows of the chunk at its high mark, but for the
\* keys that changed, whose changes are on the way.
LEMMA MarkedOnWay ==
  ASSUME BackfillAssumption, TypeInv, MarksInv, StreamInv, NEW m \in Nodes, RowsInv(m),
         owner = m, ReadWatermark, NEW w, w = node[m].window, NEW i \in DOMAIN w, w[i].known,
         NEW d, d.id = w[i].id, MarksChunk(w[i], d, wal[cur + 1]),
         NEW k \in Keys, k \in GoodSet \/ k \in DOMAIN w[i].rows \/ InOut(out, w[i].id, k)
  PROVE  k \in GoodSet \/ k \in DOMAIN d.rows \/ InOut(out', d.id, k)
<1> DEFINE r == wal[cur + 1]
           c == w[i]
<1>0. r = wal[cur + 1]
  BY Zenon
<1> HIDE DEF r
<1>1. TypeOK /\ w \in Seq(Chunk)
  BY Zenon, NodeTyped DEF TypeInv
<1>2. /\ cur + 1 \in DOMAIN wal /\ r \in WALRecord /\ r.t \in {"low", "high"}
      /\ \/ Surviving(w, r) = {} /\ out' = out
         \/ \E e \in Surviving(w, r) : out' = Append(out, [pos |-> cur + 1, d |-> e])
  BY ZenonT(40), <1>0, <1>1, ReadWatermarkEffect
<1>3. cur + 1 \in 1..Len(wal)
  BY SMTT(30), <1>1, <1>2, WALTyped
<1>4. ASSUME NEW e \in Surviving(w, r) PROVE [pos |-> cur + 1, d |-> e] \in [pos : 1..Len(wal), d : Delivery]
  <2>1. e \in Delivery
    BY ZenonT(40), <1>1, <1>2, SurvivingTyped
  <2> QED
    BY ZenonT(40), <1>3, <2>1
<1>5. InOut(out, d.id, k) => InOut(out', d.id, k)
  <2>1. CASE out' = out
    BY Zenon, <2>1
  <2>2. ASSUME NEW e \in Surviving(w, r), out' = Append(out, [pos |-> cur + 1, d |-> e])
        PROVE  InOut(out, d.id, k) => InOut(out', d.id, k)
    BY ZenonT(40), <1>1, <1>4, <2>2, InOutGrows
  <2> QED
    BY Zenon, <1>2, <2>1, <2>2
<1>6. CASE ~(c.id = r.id /\ r.t = "high")
  <2>1. d.rows = c.rows
    BY ZenonT(40), <1>0, <1>6 DEF MarksChunk
  <2> QED
    BY ZenonT(40), <1>5, <2>1
<1>7. CASE c.id = r.id /\ r.t = "high"
  <2> SUFFICES ASSUME k \in DOMAIN c.rows, k \notin GoodSet
               PROVE  InOut(out', d.id, k)
    BY Zenon, <1>5
  <2>1. k \notin c.seen
    <3>1. Written(wal, k) => Good(k)
      BY Zenon DEF StreamInv, KeysInv
    <3> QED
      BY Zenon, <3>1 DEF RowsInv, Holding, GoodSet
  <2>2. Surviving(w, r) # {}
    <3> DEFINE S == {x \in Range(w) : r.t = "high" /\ x.known /\ x.id = r.id}
    <3>1. c \in S
      BY Zenon, <1>7 DEF Range
    <3>2. Surviving(w, r) =
            {[t |-> "rows", id |-> r.id,
              rows |-> [y \in DOMAIN x.rows \ x.seen |-> x.rows[y]]] : x \in S}
      BY Zenon DEF Surviving
    <3> HIDE DEF S, c
    <3>3. [t |-> "rows", id |-> r.id,
           rows |-> [y \in DOMAIN c.rows \ c.seen |-> c.rows[y]]] \in Surviving(w, r)
      BY ZenonT(40), <3>1, <3>2
    <3> QED
      BY Zenon, <3>3
  <2>3. PICK e \in Surviving(w, r) : out' = Append(out, [pos |-> cur + 1, d |-> e])
    BY ZenonT(40), <1>2, <2>2
  <2>4. e.t = "rows" /\ e.id = r.id
    BY SMTT(30), <1>1, <1>2, SurvivingTyped
  <2>5. PICK j \in DOMAIN w : w[j].id = r.id /\ DOMAIN e.rows = DOMAIN w[j].rows \ w[j].seen
    BY SMTT(30), <1>1, <1>2, SurvivingTyped
  <2>6. j = i
    <3>1. \A a, b \in DOMAIN w : a < b => w[a].id[2] < w[b].id[2]
      BY Zenon DEF MarksInv, LaneInv, LaneInvOf, WindowIds
    <3>2. w[i].id = w[j].id /\ w[i].id \in ChunkId
      BY ZenonT(40), <1>7, <2>5 DEF MarksInv, LaneInv, LaneInvOf, WindowIds
    <3>3. w[i].id[2] \in Nat
      BY SMTT(30), <3>2 DEF ChunkId
    <3>4. ~(w[i].id[2] < w[i].id[2])
      BY <3>3
    <3>5. ~(i < j) /\ ~(j < i)
      BY ZenonT(40), <3>1, <3>2, <3>4
    <3>6. i \in Nat /\ j \in Nat
      BY SMTT(30), <1>1, WindowOf
    <3> QED
      BY SMTT(30), <3>5, <3>6
  <2>7. k \in DOMAIN e.rows
    BY Zenon, <2>1, <2>5, <2>6
  <2> DEFINE f == [pos |-> cur + 1, d |-> e]
  <2>8. f \in [pos : 1..Len(wal), d : Delivery] /\ out' = Append(out, f) /\ f.d = e
    BY ZenonT(40), <1>4, <2>3
  <2> HIDE DEF f
  <2> QED
    BY ZenonT(40), <1>1, <1>7, <2>4, <2>7, <2>8, InOutGrows
<1> QED
  BY Zenon, <1>6, <1>7

\* What a chunk covers stays on its way.
LEMMA OnWayStays ==
  ASSUME BackfillAssumption, TypeInv, MarksInv, StreamInv, NEW m \in Nodes, RowsInv(m),
         Claims(m), GoodKept, owner' = m,
         NEW w, w = node[m].window, NEW i \in DOMAIN w, NEW d, Stays(m, w[i], d), d.known,
         ~(Begun(node[m].lane) /\ i = Len(w)),
         NEW k \in Keys, Covers(node[m].cursor, w, i, k)
  PROVE  k \in GoodSet' \/ k \in DOMAIN d.rows \/ InOut(out', d.id, k)
<1> DEFINE c == w[i]
<1>0. TypeOK /\ d.id = c.id
  BY Zenon DEF TypeInv, Stays, SameRange
<1>1. owner = m /\ c.known => k \in GoodSet \/ k \in DOMAIN c.rows \/ InOut(out, c.id, k)
  BY ZenonT(40) DEF Claims, ClaimsIn, OnWay
<1>2. CASE d = c /\ (owner' = m => owner = m /\ cur' = cur /\ out' = out)
  BY ZenonT(40), <1>0, <1>1, <1>2 DEF GoodKept
<1>3. ~RestartsChunk(c, d)
  BY Zenon DEF RestartsChunk
<1>4. CASE owner = m /\ ReadChange /\ ObservesChunk(c, d, wal[cur + 1])
  <2> DEFINE r == wal[cur + 1]
             e == [pos |-> cur + 1, d |-> r]
  <2>1. cur + 1 \in DOMAIN wal /\ r \in WALRecord /\ out' = Append(out, e)
    BY ZenonT(40), <1>0, <1>4, ReadChangeEffect
  <2>2. cur + 1 \in 1..Len(wal)
    BY SMTT(30), <1>0, <2>1, WALTyped
  <2>3. e \in [pos : 1..Len(wal), d : Delivery]
    BY Zenon, <2>1, <2>2 DEF Delivery
  <2> HIDE DEF e
  <2>4. InOut(out, c.id, k) => InOut(out', c.id, k)
    BY ZenonT(40), <1>0, <2>1, <2>3, InOutGrows
  <2>5. c.known /\ d.rows = c.rows
    BY Zenon, <1>4 DEF ObservesChunk
  <2> QED
    BY ZenonT(40), <1>0, <1>1, <1>4, <2>4, <2>5 DEF GoodKept
<1>5. CASE owner = m /\ ReadWatermark /\ MarksChunk(c, d, wal[cur + 1])
  <2>1. c.known
    BY ZenonT(40), <1>5 DEF MarksChunk
  <2> QED
    BY ZenonT(40), <1>0, <1>1, <1>5, <2>1, MarkedOnWay DEF GoodKept
<1>6. CASE owner = m /\ Deliver /\ CompletesChunk(c, d, out[1].d)
  <2>1. c.known /\ d.rows = c.rows /\ ~(out[1].d.t = "rows" /\ out[1].d.id = c.id)
    BY Zenon, <1>6 DEF CompletesChunk
  <2>2. InOut(out, c.id, k) => InOut(out', c.id, k)
    <3> SUFFICES ASSUME InOut(out, c.id, k) PROVE InOut(out', c.id, k)
      BY Zenon
    <3>0. PICK j \in DOMAIN out :
            out[j].d.t = "rows" /\ out[j].d.id = c.id /\ k \in DOMAIN out[j].d.rows
      BY Zenon DEF InOut
    <3>1. j # 1
      BY ZenonT(40), <2>1, <3>0
    <3>2. out' = Tail(out) /\ out # <<>>
      BY Zenon, <1>0, <1>6, DeliverEffect
    <3>3. out \in Seq([pos : 1..Len(wal), d : Delivery])
      BY ZenonT(40), <1>0 DEF TypeOK
    <3>4. j - 1 \in DOMAIN out' /\ out'[j - 1] = out[j]
      BY SMTT(30), <3>1, <3>2, <3>3
    <3> QED
      BY ZenonT(40), <3>0, <3>4 DEF InOut
  <2> QED
    BY Zenon, <1>0, <1>1, <1>6, <2>1, <2>2 DEF GoodKept
<1> QED
  BY ZenonT(40), <1>2, <1>3, <1>4, <1>5, <1>6 DEF Stays

\* The chunks stay.
LEMMA ClaimsHeld ==
  ASSUME BackfillAssumption, TypeInv, MarksInv, StreamInv, NEW m \in Nodes, RowsInv(m),
         Claims(m), GoodKept, NEW w, NEW v, Holds(m, w, v)
  PROVE  Claims(m)'
<1> DEFINE c == node[m].cursor
           l == node[m].lane
           k == node'[m].lane
<1>1. /\ w = node[m].window /\ v = node'[m].window /\ w \in Seq(Chunk)
      /\ Len(v) = Len(w) /\ DOMAIN v = DOMAIN w
      /\ node'[m].cursor = c /\ node'[m].next = node[m].next
      /\ node'[m].cached \in {node[m].cached, NotFound}
      /\ (Begun(k) <=> Begun(l)) /\ (Going(k) <=> Going(l))
      /\ \A i \in DOMAIN w : Stays(m, w[i], v[i]) /\ SameRange(w[i], v[i])
  BY Zenon DEF Holds, Moves, Stays
<1>2. /\ Chain(c, node[m].next, w, l) /\ Upto(GoodSet, c) /\ Upto(GoodSet, node[m].cached.cursor)
      /\ DoneTrue(GoodSet, c, w)
  BY ZenonT(40), <1>1 DEF Claims, ClaimsIn
<1>3. /\ \A i \in 1..(Len(w) + 1) : From(c, v, i) = From(c, w, i)
      /\ \A i \in DOMAIN w : \A y : Covers(c, v, i, y) <=> Covers(c, w, i, y)
  <2>1. w \in Seq(Chunk) /\ \A i \in DOMAIN w : SameRange(w[i], v[i])
    BY Zenon, <1>1
  <2> HIDE DEF c
  <2> QED
    BY SMTT(30), <2>1, SameCover
<1>4. Chain(c, node[m].next, v, k)
  <2>1. Len(w) + 1 \in 1..(Len(w) + 1) /\ (Begun(l) => Len(w) \in 1..(Len(w) + 1))
    <3>1. Begun(l) => w # <<>>
      BY Zenon, <1>1 DEF TypeInv, Laned, LanedAs, Begun
    <3> QED
      BY SMTT(30), <1>1, <3>1, SeqOf
  <2> QED
    BY ZenonT(40), <1>1, <1>2, <1>3, <2>1 DEF Chain
<1>5. Upto(GoodSet', c) /\ Upto(GoodSet', node'[m].cached.cursor)
  <2>1. NotFound.cursor = 0
    BY Zenon DEF NotFound
  <2> QED
    BY ZenonT(40), <1>1, <1>2, <2>1, FromStart DEF Upto, GoodKept
<1>6. DoneTrue(GoodSet', c, v)
  <2> SUFFICES ASSUME NEW i \in DOMAIN w, v[i].done, NEW y \in Keys, Covers(c, w, i, y)
               PROVE  y \in GoodSet'
    BY Zenon, <1>1, <1>3 DEF DoneTrue
  <2>1. CASE w[i].done
    BY ZenonT(40), <1>2, <2>1 DEF DoneTrue, GoodKept
  <2>2. CASE ~w[i].done
    <3>1. /\ owner = m /\ Deliver /\ w[i].known
          /\ out[1].d.t = "rows" /\ out[1].d.id = w[i].id
      BY Zenon, <1>1, <2>2
         DEF Stays, RestartsChunk, ObservesChunk, MarksChunk, CompletesChunk
    <3> QED
      BY ZenonT(40), <1>1, <3>1, CompletedGood
  <2> QED
    BY Zenon, <2>1, <2>2
<1>7. ASSUME owner' = m PROVE OnWay(GoodSet', out', c, v, k)
  <2> SUFFICES ASSUME NEW i \in DOMAIN w, v[i].known, ~(Begun(l) /\ i = Len(w)),
                      NEW y \in Keys, Covers(c, w, i, y)
               PROVE  y \in GoodSet' \/ y \in DOMAIN v[i].rows \/ InOut(out', v[i].id, y)
    BY Zenon, <1>1, <1>3 DEF OnWay
  <2> QED
    BY Zenon, <1>1, <1>7, OnWayStays
<1> QED
  BY ZenonT(40), <1>1, <1>4, <1>5, <1>6, <1>7, ClaimsNext DEF ClaimsIn

\* A new chunk continues where the last one ended.
LEMMA ClaimsRegistered ==
  ASSUME BackfillAssumption, TypeInv, NEW m \in Nodes, Claims(m), GoodKept, Register(m)
  PROVE  Claims(m)'
<1> DEFINE w == node[m].window
           c == node[m].cursor
           x == node[m].next
           e == NewChunk(m)
           v == Append(w, e)
           q == node[m].seq + 1
           N == Len(w) + 1
<1>0. TypeOK
  BY Zenon DEF TypeInv
<1>1. /\ Becomes(m, v, "low", q, c, x, node[m].cached, node[m].exhausted)
      /\ node[m].lane = "register" /\ UNCHANGED streamVars
  BY ZenonT(40), <1>0, RegisterEffect
<1>2. w \in Seq(Chunk) /\ e \in Chunk /\ ~e.done /\ v = Append(w, e)
  BY ZenonT(40), <1>0, NodeTyped, NewChunkTyped DEF NewChunk
<1>3. /\ Chain(c, x, w, "register") /\ Upto(GoodSet, c) /\ Upto(GoodSet, node[m].cached.cursor)
      /\ DoneTrue(GoodSet, c, w)
      /\ owner = m => OnWay(GoodSet, out, c, w, "register")
  BY ZenonT(40), <1>1 DEF Claims, ClaimsIn
<1> HIDE DEF w, v, e, c, x, q
<1>4. /\ Len(v) = N /\ DOMAIN v = DOMAIN w \cup {N} /\ v[N] = e
      /\ \A i \in DOMAIN w : v[i] = w[i]
      /\ Len(w) \in Nat /\ DOMAIN w = 1..Len(w)
  BY SMTT(30), <1>2, AppendTo, WindowOf
<1>5. \A i \in DOMAIN v : From(c, v, i) = From(c, w, i)
  <2>1. \A i \in DOMAIN v : i # 1 => i - 1 \in DOMAIN w
    BY <1>4
  <2> QED
    BY Zenon, <1>4, <2>1 DEF From
<1>6. ~Begun("register") /\ Going("register") /\ Begun("low") /\ ~Going("low") /\ N \in DOMAIN v
  BY Zenon, <1>4 DEF Begun, Going
<1>7. Chain(c, x, v, "low")
  BY ZenonT(40), <1>3, <1>4, <1>5, <1>6 DEF Chain
<1>8. \A i \in DOMAIN w : \A k : Covers(c, v, i, k) <=> Covers(c, w, i, k)
  BY ZenonT(40), <1>4, <1>5 DEF Covers
<1>9. DoneTrue(GoodSet', c, v)
  BY ZenonT(40), <1>2, <1>3, <1>4, <1>8 DEF DoneTrue, GoodKept
<1>10. owner' = m => OnWay(GoodSet', out', c, v, "low")
  BY ZenonT(40), <1>1, <1>3, <1>4, <1>6, <1>8 DEF OnWay, GoodKept, streamVars
<1>11. Upto(GoodSet', c) /\ Upto(GoodSet', node[m].cached.cursor)
  BY ZenonT(40), <1>3 DEF Upto, GoodKept
<1>12. /\ node'[m].window = v /\ node'[m].lane = "low" /\ node'[m].cursor = c
       /\ node'[m].next = x /\ node'[m].cached = node[m].cached
  BY ZenonT(40), <1>1 DEF Becomes
<1> QED
  BY Zenon, <1>7, <1>9, <1>10, <1>11, <1>12, ClaimsNext DEF ClaimsIn

\* SelectChunk leaves out only keys without a row.
LEMMA ClaimsSelected ==
  ASSUME BackfillAssumption, TypeInv, Selecting, StreamInv, NEW m \in Nodes, Claims(m),
         GoodKept, Select(m)
  PROVE  Claims(m)'
<1>0. TypeOK /\ Laned(m) /\ node[m].next \in 0..NumKeys
  BY Zenon, NodeTyped DEF TypeInv
<1>1. PICK w, v, K : Fills(m, w, v, K) /\ FillsChunk(w[Len(w)], v[Len(w)], K)
  BY ZenonT(40), <1>0, SelectStep
<1> DEFINE c == node[m].cursor
           x == node[m].next
           N == Len(w)
           d == v[N]
           l == IF K = {} THEN "run" ELSE "high"
<1>2. /\ w = node[m].window /\ K = Selected(x) /\ N \in Nat \ {0}
      /\ v = node'[m].window /\ node'[m].lane = l /\ node'[m].cursor = c
      /\ node'[m].next = LastCursor(K) /\ node'[m].cached = node[m].cached
      /\ node[m].lane = "select" /\ UNCHANGED streamVars
      /\ w \in Seq(Chunk) /\ v \in Seq(Chunk) /\ Len(v) = N
      /\ \A i \in 1..N : i # N => v[i] = w[i]
  BY ZenonT(40), <1>1 DEF Fills, Becomes
<1>3. /\ DOMAIN w = 1..N /\ DOMAIN v = 1..N /\ N \in DOMAIN w /\ N + 1 # 1 /\ (N + 1) - 1 = N
      /\ \A i \in 1..N : i # 1 => i - 1 \in 1..N /\ i - 1 # N
  <2>1. DOMAIN w = 1..N /\ DOMAIN v = 1..N
    BY ZenonT(40), <1>2, WindowOf
  <2> QED
    BY SMTT(30), <1>2, <2>1
<1>4. /\ d.id = w[N].id /\ d.rows = [k \in K |-> table[k]] /\ d.count = Cardinality(K)
      /\ d.last = LastCursor(K) /\ (d.done <=> K = {})
  BY Zenon, <1>1 DEF FillsChunk
<1>5. ~Begun(l) /\ Going(l) /\ Begun("select")
  BY DEF Begun, Going
<1>6. /\ x = From(c, w, N) /\ Upto(GoodSet, c) /\ Upto(GoodSet, node[m].cached.cursor)
      /\ DoneTrue(GoodSet, c, w) /\ (owner = m => OnWay(GoodSet, out, c, w, "select"))
  BY Zenon, <1>2, <1>5 DEF Claims, ClaimsIn, Chain
<1>7. \A i \in 1..N : From(c, v, i) = From(c, w, i)
  BY Zenon, <1>2, <1>3 DEF From
<1>8. From(c, v, N + 1) = d.last
  BY ZenonT(40), <1>3 DEF From
<1>9. \A i \in 1..N : i # N => \A k : Covers(c, v, i, k) <=> Covers(c, w, i, k)
  BY Zenon, <1>2, <1>7 DEF Covers
<1>10. ASSUME NEW k \in Keys, Covers(c, v, N, k) PROVE k \in GoodSet \/ k \in K
  <2>1. k > x /\ (Cardinality(K) < ChunkSize \/ k <= LastCursor(K))
    <3>1. From(c, v, N) = x
      BY Zenon, <1>3, <1>6, <1>7
    <3>2. k > From(c, v, N) /\ (v[N].count < ChunkSize \/ k <= v[N].last)
      BY ZenonT(40), <1>10 DEF Covers
    <3> QED
      BY ZenonT(40), <1>4, <3>1, <3>2
  <2>2. table[k] # 0 => k \in K
    BY ZenonT(40), <1>0, <1>2, <2>1 DEF Selecting
  <2>3. Good(k) \/ sink[k] = 0
    BY Zenon DEF StreamInv, KeysInv
  <2> QED
    BY ZenonT(40), <2>2, <2>3 DEF Good, GoodSet
<1> HIDE DEF c, x, N, d, l
<1>11. DoneTrue(GoodSet', c, v)
  <2> SUFFICES ASSUME NEW i \in 1..N, v[i].done, NEW k \in Keys, Covers(c, v, i, k)
               PROVE  k \in GoodSet
    BY ZenonT(40), <1>3 DEF DoneTrue, GoodKept
  <2>1. CASE i = N
    BY Zenon, <1>4, <1>10, <2>1 DEF d
  <2>2. CASE i # N
    BY ZenonT(40), <1>2, <1>3, <1>6, <1>9, <2>2 DEF DoneTrue
  <2> QED
    BY Zenon, <2>1, <2>2
<1>12. ASSUME owner' = m PROVE OnWay(GoodSet', out', c, v, l)
  <2>0. owner = m /\ out' = out
    BY Zenon, <1>2, <1>12 DEF streamVars
  <2> SUFFICES ASSUME NEW i \in 1..N, v[i].known, NEW k \in Keys, Covers(c, v, i, k)
               PROVE  k \in GoodSet \/ k \in DOMAIN v[i].rows \/ InOut(out, v[i].id, k)
    BY ZenonT(40), <1>3, <2>0 DEF OnWay, GoodKept
  <2>1. CASE i = N
    <3>1. DOMAIN d.rows = K
      BY Zenon, <1>4
    <3> QED
      BY Zenon, <1>10, <2>1, <3>1 DEF d
  <2>2. CASE i # N
    BY ZenonT(40), <1>2, <1>3, <1>6, <1>9, <2>0, <2>2 DEF OnWay, N
  <2> QED
    BY Zenon, <2>1, <2>2
<1>13. Upto(GoodSet', c) /\ Upto(GoodSet', node[m].cached.cursor)
  BY Zenon, <1>6 DEF Upto, GoodKept
<1>14. Chain(c, LastCursor(K), v, l)
  BY Zenon, <1>2, <1>4, <1>5, <1>8 DEF Chain
<1> QED
  BY ZenonT(40), <1>2, <1>11, <1>12, <1>13, <1>14, ClaimsNext DEF ClaimsIn

\* What the progress says when the head of the window is done.
LEMMA HeadClaims ==
  ASSUME BackfillAssumption, TypeInv, NEW m \in Nodes, Claims(m), GoodKept, HeadDone(m),
         NEW head, head = node[m].window[1]
  PROVE  SavedIn(GoodSet', Reached(head))
<1> DEFINE w == node[m].window
           c == node[m].cursor
<1>0. TypeOK /\ Laned(m)
  BY Zenon DEF TypeInv
<1>1. head.done /\ w \in Seq(Chunk) /\ w # <<>>
  BY Zenon, <1>0, HeadDoneEffect
<1>2. 1 \in DOMAIN w /\ head \in Chunk
  BY SMTT(30), <1>1, SeqOf
<1>3. /\ Upto(GoodSet, c)
      /\ \A k \in Keys : k > c /\ (head.count < ChunkSize \/ k <= head.last) => k \in GoodSet
  BY ZenonT(40), <1>1, <1>2 DEF Claims, ClaimsIn, DoneTrue, Covers, From
<1>4. \A k \in Keys : k <= c \/ k > c
  <2>1. c \in 0..NumKeys /\ NumKeys \in Nat
    BY ZenonT(40), <1>0, NodeTyped DEF BackfillAssumption
  <2> QED
    BY SMTT(30), <2>1 DEF Keys
<1>5. \A k \in Keys : head.count < ChunkSize \/ k <= head.last => k \in GoodSet'
  BY Zenon, <1>3, <1>4 DEF Upto, GoodKept
<1>6. CASE head.count < ChunkSize
  <2>1. Reached(head).cursor = 0
    BY ZenonT(40), <1>6 DEF Reached
  <2> QED
    BY Zenon, <1>5, <1>6, <2>1, FromStart DEF SavedIn
<1>7. CASE ~(head.count < ChunkSize)
  <2>1. Reached(head).cursor = head.last /\ ~Reached(head).done
    BY Zenon, <1>7 DEF Reached
  <2> QED
    BY Zenon, <1>5, <2>1 DEF SavedIn, Upto
<1> QED
  BY Zenon, <1>6, <1>7

\* The head leaves the window: the next chunk continues at the new cursor.
LEMMA ClaimsHeadDone ==
  ASSUME BackfillAssumption, TypeInv, NEW m \in Nodes, Claims(m), GoodKept, HeadDone(m)
  PROVE  Claims(m)'
<1> DEFINE w == node[m].window
           c == node[m].cursor
           x == node[m].next
           head == w[1]
           r == Reached(head)
           v == Tail(w)
           a == head.last
<1>0. TypeOK /\ Laned(m)
  BY Zenon DEF TypeInv
<1>1. /\ node[m].lane = "run" /\ w \in Seq(Chunk) /\ w # <<>>
      /\ head.count < ChunkSize =>
           Becomes(m, <<>>, "idle", node[m].seq, 0, x, r, node[m].exhausted)
      /\ ~(head.count < ChunkSize) =>
           Becomes(m, v, "run", node[m].seq, a, x, r, node[m].exhausted)
      /\ UNCHANGED streamVars
  BY ZenonT(40), <1>0, HeadDoneEffect
<1>2. Upto(GoodSet', r.cursor)
  BY Zenon, HeadClaims DEF SavedIn
<1>3. /\ x = From(c, w, Len(w) + 1) /\ DoneTrue(GoodSet, c, w)
      /\ (owner = m => OnWay(GoodSet, out, c, w, "run"))
  <2>1. Going("run")
    BY DEF Going
  <2> QED
    BY Zenon, <1>1, <2>1 DEF Claims, ClaimsIn, Chain
<1>4. ~Begun("run") /\ ~Begun("idle") /\ ~Going("idle")
  BY DEF Begun, Going
<1>5. CASE head.count < ChunkSize
  <2>1. DOMAIN <<>> = {}
    BY NoneOf
  <2>2. /\ Chain(0, x, <<>>, "idle") /\ DoneTrue(GoodSet', 0, <<>>)
        /\ OnWay(GoodSet', out', 0, <<>>, "idle")
    BY ZenonT(40), <1>4, <2>1 DEF Chain, DoneTrue, OnWay
  <2>3. Upto(GoodSet', 0)
    BY Zenon, FromStart
  <2> QED
    BY Zenon, <1>1, <1>2, <1>5, <2>2, <2>3, ClaimsNext DEF ClaimsIn, Becomes
<1>6. CASE ~(head.count < ChunkSize)
  <2>1. r.cursor = a
    BY ZenonT(40), <1>6 DEF Reached
  <2> HIDE DEF r
  <2>2. /\ Len(w) \in Nat \ {0} /\ Len(v) = Len(w) - 1 /\ DOMAIN v = 1..Len(v)
        /\ \A i \in DOMAIN v : v[i] = w[i + 1] /\ i + 1 \in DOMAIN w
    <3>1. v = Tail(w)
      BY Zenon
    <3> HIDE DEF w, v
    <3> QED
      BY SMTT(30), <1>1, <3>1, TailOf, SeqOf
  <2> HIDE DEF w, v, c, x
  <2>3. \A i \in 1..(Len(v) + 1) : From(a, v, i) = From(c, w, i + 1)
    <3> SUFFICES ASSUME NEW i \in 1..(Len(v) + 1)
                 PROVE  From(a, v, i) = From(c, w, i + 1)
      BY Zenon
    <3>1. i + 1 # 1 /\ (i + 1) - 1 = i /\ (i # 1 => i - 1 \in DOMAIN v /\ (i - 1) + 1 = i)
      BY SMTT(30), <2>2
    <3>2. From(c, w, i + 1) = w[i].last
      BY ZenonT(40), <3>1 DEF From
    <3>3. i # 1 => v[i - 1].last = w[i].last
      BY ZenonT(40), <2>2, <3>1
    <3> QED
      BY ZenonT(40), <3>2, <3>3 DEF From
  <2>4. /\ \A i \in DOMAIN v : i \in 1..(Len(v) + 1)
        /\ Len(v) + 1 \in 1..(Len(v) + 1) /\ (Len(v) + 1) + 1 = Len(w) + 1
    BY SMTT(30), <2>2
  <2>5. \A i \in DOMAIN v : \A k : Covers(a, v, i, k) <=> Covers(c, w, i + 1, k)
    BY Zenon, <2>2, <2>3, <2>4 DEF Covers
  <2>6. Chain(a, x, v, "run")
    BY Zenon, <1>3, <1>4, <2>3, <2>4 DEF Chain
  <2>7. DoneTrue(GoodSet', a, v)
    BY Zenon, <1>3, <2>2, <2>5 DEF DoneTrue, GoodKept
  <2>8. owner' = m => OnWay(GoodSet', out', a, v, "run")
    BY ZenonT(40), <1>1, <1>3, <1>4, <2>2, <2>5 DEF OnWay, GoodKept, streamVars
  <2> QED
    BY Zenon, <1>1, <1>2, <1>6, <2>1, <2>6, <2>7, <2>8, ClaimsNext DEF ClaimsIn, Becomes
<1> QED
  BY ZenonT(40), <1>5, <1>6

\* A lane that drops its chunks starts from progress that is right.
LEMMA ClaimsDropped ==
  ASSUME NEW m, Claims(m), SavedIn(GoodSet, saved), GoodKept, Drops(m)
  PROVE  Claims(m)'
<1> DEFINE c == node'[m].cursor
           l == node'[m].lane
<1>1. /\ Upto(GoodSet, saved.cursor) /\ Upto(GoodSet, node[m].cached.cursor)
      /\ Upto(GoodSet, node[m].cursor) /\ Upto(GoodSet, 0)
  BY ZenonT(40), FromStart DEF Claims, ClaimsIn, SavedIn
<1>2. Upto(GoodSet', c) /\ Upto(GoodSet', node'[m].cached.cursor)
  <2>1. Upto(GoodSet, c) /\ Upto(GoodSet, node'[m].cached.cursor)
    BY Zenon, <1>1 DEF Drops
  <2> QED
    BY ZenonT(40), <2>1 DEF Upto, GoodKept
<1>3. DOMAIN <<>> = {} /\ Len(<<>>) + 1 = 1
  BY NoneOf
<1>4. ~Begun(l)
  <2>1. Begun(l) => IsOpen(l)
    BY DEF Begun, IsOpen
  <2> QED
    BY ZenonT(40), <2>1 DEF Drops
<1>5. /\ Chain(c, node'[m].next, <<>>, l) /\ DoneTrue(GoodSet', c, <<>>)
      /\ OnWay(GoodSet', out', c, <<>>, l)
  BY Zenon, <1>3, <1>4 DEF Chain, From, DoneTrue, OnWay, Drops
<1>6. node'[m].window = <<>>
  BY Zenon DEF Drops
<1> QED
  BY Zenon, <1>2, <1>5, <1>6, ClaimsNext DEF ClaimsIn

\* The saved progress is only ever what the head of a window was, or nothing.
LEMMA SavedStep ==
  ASSUME BackfillAssumption, TypeInv, Selecting, SavedIn(GoodSet, saved), GoodKept, Next,
         \A n \in Nodes : Claims(n)
  PROVE  SavedIn(GoodSet', saved')
<1>1. SavedIn(GoodSet', saved)
  BY Zenon DEF SavedIn, Upto, GoodKept
<1>2. SavedIn(GoodSet', Pending)
  <2>1. Pending.cursor = 0 /\ ~Pending.done
    BY Zenon DEF Pending
  <2> QED
    BY Zenon, <2>1, FromStart DEF SavedIn
<1>3. ASSUME NEW n \in Nodes, HeadDone(n) PROVE SavedIn(GoodSet', saved')
  <2> DEFINE r == Reached(node[n].window[1])
  <2>1. SavedIn(GoodSet', r)
    BY Zenon, <1>3, HeadClaims
  <2>2. saved' \in {saved, r}
    BY Zenon, <1>3, HeadDoneEffect DEF TypeInv
  <2> QED
    BY ZenonT(40), <1>1, <2>1, <2>2
<1> QED
  BY Zenon, <1>1, <1>2, <1>3, WindowStep

\* Every step keeps the invariant of the copy, as long as the application
\* inserts, updates and deletes.
LEMMA CopyStep ==
  ASSUME BackfillAssumption, TypeInv, Selecting, MarksInv, Ops \subseteq {"write"}, CopyInv,
         [Next]_vars
  PROVE  CopyInv'
<1>0. /\ StreamInv /\ SavedIn(GoodSet, saved)
      /\ \A n \in Nodes : RowsInv(n) /\ Claims(n)
  BY Zenon DEF CopyInv
<1>1. CASE Next
  <2>1. StreamInv' /\ \A k \in Keys : Good(k) => Good(k)'
    BY ZenonT(40), <1>0, <1>1, StreamStep
  <2>2. GoodKept
    BY Zenon, <2>1 DEF GoodKept, GoodSet
  <2>3. ASSUME NEW m \in Nodes PROVE Claims(m)'
    BY Zenon, <1>0, <1>1, <2>2, WindowStep, ClaimsHeld, ClaimsRegistered, ClaimsSelected,
       ClaimsHeadDone, ClaimsDropped DEF Shape
  <2>4. ASSUME NEW m \in Nodes PROVE RowsInv(m)'
    BY Zenon, <1>0, <1>1, RowsInvStep
  <2>5. SavedIn(GoodSet', saved')
    BY ZenonT(40), <1>0, <1>1, <2>2, SavedStep
  <2> QED
    BY Zenon, <2>1, <2>3, <2>4, <2>5 DEF CopyInv
<1>2. CASE UNCHANGED vars
  <2>1. /\ Quiet /\ wal' = wal /\ table' = table /\ slot' = slot /\ owner' = owner /\ cur' = cur
        /\ out' = out /\ sink' = sink /\ node' = node /\ saved' = saved
    BY ZenonT(40), <1>2 DEF vars, dbVars, streamVars, Quiet
  <2>2. StreamInv'
    BY Zenon, <1>0, <2>1, QuietStream
  <2>3. GoodSet' = GoodSet
    BY Zenon, <2>1 DEF GoodSet, Good, Base
  <2>4. \A n \in Nodes : RowsInv(n)' /\ Claims(n)'
    BY Zenon, <1>0, <2>1, <2>3, RowsInvIs, ClaimsNext DEF Claims
  <2> QED
    BY ZenonT(40), <1>0, <2>1, <2>2, <2>3, <2>4 DEF CopyInv
<1> QED
  BY Zenon, <1>1, <1>2

\* Nothing is copied, queued or written yet.
LEMMA CopyInit ==
  ASSUME BackfillAssumption, Init
  PROVE  CopyInv
<1>1. /\ wal = <<>> /\ out = <<>> /\ owner = None /\ DOMAIN <<>> = {}
      /\ slot = -1 /\ saved = NotFound
  BY SMTT(30), NoneOf DEF Init
<1>2. \A k \in Keys : sink[k] = 0
  BY Zenon DEF Init
<1>3. StreamInv
  BY Zenon, <1>1, <1>2
     DEF StreamInv, OnlyWrites, LastWrite, QueueInv, Positions, Entries, KeysInv, Written
<1>4. NotFound.cursor = 0 /\ ~NotFound.done
  BY Zenon DEF NotFound
<1>5. SavedIn(GoodSet, saved)
  BY ZenonT(40), <1>1, <1>4, FromStart DEF SavedIn
<1>6. ASSUME NEW n \in Nodes PROVE RowsInv(n) /\ Claims(n)
  <2> DEFINE c == Started(0, NotFound)
  <2>1. node[n] = c
    BY Zenon DEF Init
  <2>2. c.window = <<>> /\ c.lane = "idle" /\ c.cursor = 0 /\ c.cached = NotFound
    BY Zenon DEF Started
  <2> HIDE DEF c
  <2>3. ~Begun("idle") /\ ~Going("idle")
    BY DEF Begun, Going
  <2>4. DOMAIN node[n].window = {} /\ ~Begun(node[n].lane) /\ ~Going(node[n].lane)
    BY Zenon, <1>1, <2>1, <2>2, <2>3
  <2>5. RowsInv(n)
    BY Zenon, <2>4 DEF RowsInv, Fresh
  <2>6. Upto(GoodSet, node[n].cursor) /\ Upto(GoodSet, node[n].cached.cursor)
    BY Zenon, <1>4, <2>1, <2>2, FromStart
  <2> QED
    BY Zenon, <2>4, <2>5, <2>6 DEF Claims, ClaimsIn, Chain, DoneTrue, OnWay
<1> QED
  BY Zenon, <1>3, <1>5, <1>6 DEF CopyInv

\* Once the stream has caught up no change is to come.
LEMMA CopyCurrent ==
  ASSUME TypeOK, CopyInv
  PROVE  CopiedRowsAreCurrent
<1> SUFFICES ASSUME CaughtUp, NEW k \in Keys, Covered(k)
             PROVE  sink[k] = table[k]
  BY Zenon DEF CopiedRowsAreCurrent
<1>1. k \in GoodSet
  BY Zenon DEF CopyInv, SavedIn, Upto, Covered
<1>2. Base = Len(wal)
  BY Zenon DEF Base, CaughtUp
<1>3. \A q \in DOMAIN wal : ~(q > Len(wal))
  <2>1. wal \in Seq(WALRecord)
    BY Zenon DEF TypeOK
  <2> QED
    BY SMTT(30), <2>1, SeqOf
<1>4. ~WriteAfter(wal, k, Base)
  BY ZenonT(40), <1>2, <1>3 DEF WriteAfter
<1> QED
  BY Zenon, <1>1, <1>4 DEF GoodSet, Good

-----------------------------------------------------------------------------
(* What SelectChunk returns.  The facts about cardinalities come with an   *)
(* INSTANCE of their module, which has its own copy of Cardinality; Count  *)
(* and Counting say that it is the same.                                   *)

Count(S) == Cardinality(S)
Counting(S) ==
  LET CS[T \in SUBSET S] == IF T = {} THEN 0 ELSE 1 + CS[T \ {CHOOSE x : x \in T}]
  IN  CS[S]

\* Cardinality counts the elements one by one.
LEMMA CountIs ==
  ASSUME NEW S
  PROVE  Count(S) = Counting(S)
BY Zenon DEF Count, Counting, Cardinality

\* K leaves out no row past the cursor up to its last key, and none when short.
Ahead(K, from) ==
  /\ Count(K) \in Nat /\ LastCursor(K) \in 0..NumKeys
  /\ \A k \in Keys :
       /\ k > from /\ table[k] # 0
       /\ Count(K) < ChunkSize \/ k <= LastCursor(K)
       => k \in K

\* Selecting, one cursor at a time.
LEMMA SelectingIs ==
  ASSUME \A from \in 0..NumKeys : Ahead(Selected(from), from)
  PROVE  Selecting
BY Zenon DEF Selecting, Ahead, Count

\* The rows up to a key, from the cursor on.
Before(from, k) == {j \in (from + 1)..k : table[j] # 0}

\* The keys of a chunk.
LEMMA SelectedIs ==
  ASSUME NEW from
  PROVE  /\ Selected(from) \in SUBSET Keys
         /\ \A k \in Keys :
              k \in Selected(from) <=>
                k > from /\ table[k] # 0 /\ Count(Before(from, k)) <= ChunkSize
BY Zenon DEF Selected, Before, Count

LOCAL INSTANCE FiniteSetTheorems
LOCAL INSTANCE WellFoundedInduction

\* The two counts agree.
LEMMA SameCount ==
  ASSUME NEW S
  PROVE  Cardinality(S) = Count(S)
<1>1. Cardinality(S) = Counting(S)
  BY ZenonT(40) DEF Counting, Cardinality
<1> QED
  BY Zenon, <1>1, CountIs

\* A set of naturals has a least element.
LEMMA LeastNat ==
  ASSUME NEW T \in SUBSET Nat, T # {}
  PROVE  \E x \in T : \A y \in T : x <= y
<1> DEFINE R == OpToRel(<, Nat)
<1>1. IsWellFoundedOn(R, Nat)
  BY ZenonT(40), NatLessThanWellFounded
<1>2. \A x, y \in Nat : x < y => <<x, y>> \in R
  BY DEF OpToRel
<1> HIDE DEF R
<1>3. PICK x \in T : \A y \in T : ~ (<<y, x>> \in R)
  BY Zenon, <1>1, WFMin
<1>4. \A y \in T : ~(y < x)
  BY Zenon, <1>2, <1>3
<1> QED
  BY SMTT(30), <1>4

\* The last key of a set of keys.
LEMMA LastKey ==
  ASSUME BackfillAssumption, NEW K \in SUBSET Keys, K # {}
  PROVE  Max(K) \in K /\ \A k \in K : k <= Max(K)
<1> DEFINE T == {NumKeys - k : k \in K}
<1>1. T \in SUBSET Nat /\ T # {}
  <2>1. \A k \in K : NumKeys - k \in Nat
    BY DEF Keys, BackfillAssumption
  <2> QED
    BY ZenonT(40), <2>1
<1>2. PICK x \in T : \A y \in T : x <= y
  BY Zenon, <1>1, LeastNat
<1>3. PICK m \in K : x = NumKeys - m
  BY SMTT(30), <1>2
<1>4. \A k \in K : m >= k
  BY SMTT(30), <1>2, <1>3 DEF Keys, BackfillAssumption
<1>5. \E z \in K : \A k \in K : z >= k
  BY <1>4
<1>6. Max(K) \in K /\ \A k \in K : Max(K) >= k
  BY ZenonT(40), <1>5 DEF Max
<1> QED
  BY <1>6 DEF Keys, BackfillAssumption

\* What SelectChunk returns.
LEMMA SelectingAlways ==
  ASSUME BackfillAssumption
  PROVE  Selecting
<1> SUFFICES ASSUME NEW from \in 0..NumKeys
             PROVE  Ahead(Selected(from), from)
  BY Zenon, SelectingIs
<1> DEFINE K == Selected(from)
           R(k) == Before(from, k)
<1>0. NumKeys \in Nat /\ ChunkSize \in Nat /\ from \in Nat
  BY DEF BackfillAssumption
<1>1. /\ K \in SUBSET Keys
      /\ \A k \in Keys : k \in K <=> k > from /\ table[k] # 0 /\ Cardinality(R(k)) <= ChunkSize
  BY ZenonT(40), SelectedIs, SameCount
<1> HIDE DEF K
<1>2. IsFiniteSet(Keys)
  BY SMTT(30), <1>0, FS_Interval DEF Keys
<1>3. IsFiniteSet(K)
  BY Zenon, <1>1, <1>2, FS_Subset
<1>4. Cardinality(K) \in Nat
  BY Zenon, <1>3, FS_CardinalityType
<1>5. \A k \in Keys : IsFiniteSet(R(k)) /\ Cardinality(R(k)) \in Nat
  <2>1. \A k \in Keys : R(k) \in SUBSET Keys
    BY SMTT(30), <1>0 DEF Keys, Before
  <2> QED
    BY Zenon, <1>2, <2>1, FS_Subset, FS_CardinalityType
<1>6. K # {} => Max(K) \in K /\ \A k \in K : k <= Max(K)
  BY ZenonT(40), <1>1, LastKey
<1>7. LastCursor(K) \in 0..NumKeys
  <2>1. CASE K = {}
    BY SMTT(30), <1>0, <2>1 DEF LastCursor
  <2>2. CASE K # {}
    <3>1. LastCursor(K) = Max(K) /\ Max(K) \in Keys
      BY ZenonT(40), <1>1, <1>6, <2>2 DEF LastCursor
    <3> QED
      BY SMTT(30), <1>0, <3>1 DEF Keys
  <2> QED
    BY Zenon, <2>1, <2>2
<1>8. ASSUME NEW k \in Keys, k > from, table[k] # 0, k <= LastCursor(K)
      PROVE  k \in K
  <2>1. K # {}
    <3>1. k <= 0 => FALSE
      BY DEF Keys
    <3> QED
      BY ZenonT(40), <1>8, <3>1 DEF LastCursor
  <2> DEFINE m == Max(K)
  <2>2. m \in K /\ m \in Keys /\ k <= m /\ Cardinality(R(m)) <= ChunkSize
    BY ZenonT(40), <1>1, <1>6, <1>8, <2>1 DEF LastCursor
  <2> HIDE DEF m
  <2>3. R(k) \subseteq R(m)
    BY SMTT(30), <1>0, <2>2 DEF Keys, Before
  <2>4. Cardinality(R(k)) <= Cardinality(R(m))
    BY ZenonT(40), <1>5, <2>2, <2>3, FS_Subset
  <2>5. Cardinality(R(k)) \in Nat /\ Cardinality(R(m)) \in Nat
    BY ZenonT(40), <1>5, <2>2
  <2> HIDE DEF R
  <2>6. Cardinality(R(k)) <= ChunkSize
    BY SMTT(30), <1>0, <2>2, <2>4, <2>5
  <2> QED
    BY ZenonT(40), <1>1, <1>8, <2>6
<1>9. ASSUME NEW k \in Keys, k > from, table[k] # 0, Cardinality(K) < ChunkSize
      PROVE  k \in K
  <2> SUFFICES ASSUME k \notin K PROVE FALSE
    BY Zenon
  <2> DEFINE T == {j \in Keys : j > from /\ table[j] # 0 /\ j \notin K}
  <2>1. T \in SUBSET Nat /\ T # {}
    BY SMTT(30), <1>9 DEF Keys
  <2>2. PICK x \in T : \A y \in T : x <= y
    BY ZenonT(40), <2>1, LeastNat
  <2>3. x \in Keys /\ x > from /\ table[x] # 0 /\ x \notin K
    BY Zenon
  <2>4. R(x) \subseteq K \cup {x}
    <3> SUFFICES ASSUME NEW j \in R(x), j # x PROVE j \in K
      BY Zenon
    <3>1. j \in Keys /\ j > from /\ table[j] # 0 /\ ~(x <= j)
      BY SMTT(30), <1>0, <2>3 DEF Keys, Before
    <3> QED
      BY ZenonT(40), <2>2, <3>1
  <2>5. IsFiniteSet(K \cup {x}) /\ Cardinality(K \cup {x}) = Cardinality(K) + 1
    BY ZenonT(40), <1>3, <2>3, FS_AddElement
  <2>6. Cardinality(R(x)) <= Cardinality(K \cup {x})
    BY ZenonT(40), <2>4, <2>5, FS_Subset
  <2>7. Cardinality(R(x)) \in Nat
    BY ZenonT(40), <1>5, <2>3
  <2> HIDE DEF R, T
  <2>8. Cardinality(R(x)) <= ChunkSize
    BY SMTT(30), <1>0, <1>4, <1>9, <2>5, <2>6, <2>7
  <2> QED
    BY ZenonT(40), <1>1, <2>3, <2>8
<1> QED
  BY Zenon, <1>4, <1>7, <1>8, <1>9, SameCount DEF K, Ahead

-----------------------------------------------------------------------------
(* The theorems.                                                           *)

\* The types, the lanes and the marks, always.
THEOREM Invariance == Spec => [](TypeInv /\ MarksInv)
<1>1. Init => TypeInv /\ MarksInv
  BY Zenon, BackfillAssumption, TypeInit, MarksInit
<1>2. TypeInv /\ MarksInv /\ [Next]_vars => (TypeInv /\ MarksInv)'
  BY ZenonT(40), BackfillAssumption, SelectingAlways, TypeInvStep, MarksInvStep
<1> QED
  BY <1>1, <1>2, PTL DEF Spec

\* The state stays in its types: chunk ids, WAL positions, progress and
\* windows, whatever fails, restarts or is replayed.
THEOREM TypeCorrect == Spec => []TypeOK
<1>1. TypeInv /\ MarksInv => TypeOK
  BY Zenon DEF TypeInv
<1> QED
  BY <1>1, Invariance, PTL

\* At most one chunk of a table is between its watermarks, on every node.
THEOREM NoOverlap == Spec => []ChunksDoNotOverlap
<1>1. TypeInv /\ MarksInv => ChunksDoNotOverlap
  BY Zenon, MarksInvSays
<1> QED
  BY <1>1, Invariance, PTL

\* The head a lane waits on is done, restarted or in flight.
THEOREM HeadInFlight == Spec => []HeadIsInFlight
<1>1. TypeInv /\ MarksInv => HeadIsInFlight
  BY Zenon, MarksInvSays
<1> QED
  BY <1>1, Invariance, PTL

\* When the application inserts, updates and deletes, a row the saved progress
\* covers is right in the sinks once the stream has caught up: for any number
\* of nodes, keys, changes, crashes, broken streams and replays.
THEOREM Copied ==
  ASSUME Ops \subseteq {"write"}
  PROVE  Spec => []CopiedRowsAreCurrent
<1>1. Init => TypeInv /\ MarksInv /\ CopyInv
  BY Zenon, BackfillAssumption, TypeInit, MarksInit, CopyInit
<1>2. TypeInv /\ MarksInv /\ CopyInv /\ [Next]_vars => (TypeInv /\ MarksInv /\ CopyInv)'
  BY Zenon, BackfillAssumption, SelectingAlways, TypeInvStep, MarksInvStep, CopyStep
<1>3. TypeInv /\ MarksInv /\ CopyInv => CopiedRowsAreCurrent
  BY Zenon, CopyCurrent DEF TypeInv
<1> QED
  BY <1>1, <1>2, <1>3, PTL DEF Spec
=============================================================================
