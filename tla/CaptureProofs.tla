--------------------------- MODULE CaptureProofs ---------------------------
(***************************************************************************)
(* Proofs about the capture: the diffs of descriptions compose, whatever   *)
(* the tables and however the stream goes back and forth; the backfill     *)
(* skips no table a sink would take rows of, whatever the configuration;   *)
(* every sink is handed the rows as they were written, and all of them     *)
(* before their position is confirmed.                                     *)
(***************************************************************************)
EXTENDS Capture, TLAPS

------------------------------------------------------------------------------
(* Sequences. *)

\* ElementOf: the elements of a sequence.
LEMMA ElementOf ==
  ASSUME NEW S, NEW s \in Seq(S), NEW i \in 1..Len(s)
  PROVE  s[i] \in S
OBVIOUS

\* LengthOf: its length.
LEMMA LengthOf ==
  ASSUME NEW S, NEW s \in Seq(S)
  PROVE  Len(s) \in Nat
OBVIOUS

\* AppendOf: a sequence and one more element.
LEMMA AppendOf ==
  ASSUME NEW S, NEW s \in Seq(S), NEW e \in S
  PROVE  /\ Append(s, e) \in Seq(S) /\ Len(Append(s, e)) = Len(s) + 1
         /\ \A i \in 1..Len(s) : Append(s, e)[i] = s[i]
         /\ Append(s, e)[Len(s) + 1] = e
OBVIOUS

\* JoinOf: one sequence after another.
LEMMA JoinOf ==
  ASSUME NEW S, NEW s \in Seq(S), NEW t \in Seq(S)
  PROVE  /\ s \o t \in Seq(S) /\ Len(s \o t) = Len(s) + Len(t)
         /\ \A i \in 1..Len(s) : (s \o t)[i] = s[i]
         /\ \A i \in 1..Len(t) : (s \o t)[Len(s) + i] = t[i]
OBVIOUS

\* PartOf: a part of a sequence.
LEMMA PartOf ==
  ASSUME NEW S, NEW s \in Seq(S), NEW m \in 0..Len(s)
  PROVE  /\ SubSeq(s, Len(s) - m + 1, Len(s)) \in Seq(S)
         /\ Len(SubSeq(s, Len(s) - m + 1, Len(s))) = m
OBVIOUS

\* ChangeOf: a sequence with another element at one place.
LEMMA ChangeOf ==
  ASSUME NEW S, NEW s \in Seq(S), NEW i \in 1..Len(s), NEW e \in S
  PROVE  /\ [s EXCEPT ![i] = e] \in Seq(S) /\ Len([s EXCEPT ![i] = e]) = Len(s)
         /\ \A j \in 1..Len(s) : [s EXCEPT ![i] = e][j] = IF j = i THEN e ELSE s[j]
OBVIOUS

\* SequenceOf: a function on the first numbers is a sequence.
LEMMA SequenceOf ==
  ASSUME NEW S, NEW n \in Nat, NEW f \in [1..n -> S]
  PROVE  f \in Seq(S) /\ Len(f) = n
OBVIOUS

------------------------------------------------------------------------------
(* The diff of two descriptions. *)

\* FollowsDiff: applying the change diffRelation reports to what was known of
\* the earlier description gives the later one.
LEMMA FollowsDiff ==
  ASSUME NEW r, NEW prev, NEW cur, Profile(prev) # None
  PROVE  Follow(Profile(prev), DiffRelation(r, prev, cur)) = Profile(cur)
<1> DEFINE F == Follow(Profile(prev), DiffRelation(r, prev, cur))
           T == ColumnDefs(cur, ColumnNames(cur))
<1>1. /\ F.table = cur.table /\ F.keys = KeyColumns(cur) /\ F.ident = cur.ident
      /\ F = [table |-> F.table, types |-> F.types, keys |-> F.keys, ident |-> F.ident]
  BY ZenonT(40) DEF Follow, DiffRelation
<1>2. F.types = [c \in ColumnNames(cur) |-> TypeOf(cur, c)]
  BY Zenon DEF Follow, DiffRelation, Profile, ColumnDefs, Added, Dropped, Retyped
<1> QED
  BY <1>1, <1>2 DEF Profile, ColumnDefs

\* SilentDiff: when diffRelation finds no kind of change, what a consumer sees
\* of the two descriptions is the same.
LEMMA SilentDiff ==
  ASSUME NEW prev, NEW cur, Kinds(prev, cur) = {}
  PROVE  Profile(prev) = Profile(cur)
<1>1. /\ prev.table = cur.table /\ Added(prev, cur) = {} /\ Dropped(prev, cur) = {}
      /\ Retyped(prev, cur) = {} /\ prev.ident = cur.ident
      /\ KeyColumns(prev) = KeyColumns(cur)
  BY Zenon DEF Kinds
<1>2. ColumnNames(prev) = ColumnNames(cur)
  BY Zenon, <1>1 DEF Added, Dropped
<1>3. \A c \in ColumnNames(cur) : TypeOf(prev, c) = TypeOf(cur, c)
  BY <1>1, <1>2 DEF Retyped
<1> QED
  BY <1>1, <1>2, <1>3 DEF Profile, ColumnDefs

------------------------------------------------------------------------------
(* The consumer of the schema stream. *)

\* The cache holds what the session described, and a consumer that missed no
\* change knows the cache.
Following ==
  \A r \in Relations :
    /\ told[r] # None => told[r] = relations[r]
    /\ relations[r] # None => known[r] \in {None, Profile(relations[r])}

Shaped ==
  /\ told = [r \in Relations |-> told[r]]
  /\ relations = [r \in Relations |-> relations[r]]
  /\ known = [r \in Relations |-> known[r]]

\* FollowingDescribes: a relation message keeps the consumer in step.
LEMMA FollowingDescribes ==
  ASSUME Shaped, Following, NEW x, Describe(x)
  PROVE  Shaped' /\ Following'
<1>0. CASE x \notin Relations
  <2>1. UNCHANGED <<told, relations, known>>
    BY ZenonT(40), <1>0 DEF Describe, Published, Shaped
  <2> QED
    BY <2>1 DEF Shaped, Following
<1>1. CASE x \in Relations
  <2> DEFINE d == wal[at].shapes[x]
             prev == relations[x]
  <2>1. /\ told' = [told EXCEPT ![x] = d]
        /\ relations' = [relations EXCEPT ![x] = d]
        /\ \/ known' = [known EXCEPT ![x] = Profile(d)]
           \/ prev # None /\ Kinds(prev, d) = {} /\ known' = known
           \/ /\ prev # None
              /\ known' = [known EXCEPT ![x] = Follow(known[x], DiffRelation(x, prev, d))]
           \/ known' = [known EXCEPT ![x] = None]
    BY DEF Describe, Published, Shaped
  <2>2. Shaped'
    BY ZenonT(40), <2>1 DEF Shaped
  <2>3. known'[x] \in {None, Profile(d)}
    <3>1. CASE known' = [known EXCEPT ![x] = Profile(d)]
      BY <1>1, <3>1 DEF Shaped
    <3>2. CASE prev # None /\ Kinds(prev, d) = {} /\ known' = known
      BY <1>1, <3>2, SilentDiff DEF Following
    <3>3. CASE /\ prev # None
               /\ known' = [known EXCEPT ![x] = Follow(known[x], DiffRelation(x, prev, d))]
      <4>1. known'[x] = Follow(known[x], DiffRelation(x, prev, d))
        BY <1>1, <3>3 DEF Shaped
      <4>2. CASE known[x] = None
        BY <4>1, <4>2 DEF Follow
      <4>3. CASE known[x] # None
        <5>1. known[x] = Profile(prev)
          BY <1>1, <3>3, <4>3 DEF Following
        <5> QED
          BY <4>1, <4>3, <5>1, FollowsDiff
      <4> QED
        BY <4>2, <4>3
    <3>4. CASE known' = [known EXCEPT ![x] = None]
      BY <1>1, <3>4 DEF Shaped
    <3> QED
      BY SMTT(30), <2>1, <3>1, <3>2, <3>3, <3>4
  <2>4. ASSUME NEW r \in Relations
        PROVE  /\ told'[r] # None => told'[r] = relations'[r]
               /\ relations'[r] # None => known'[r] \in {None, Profile(relations'[r])}
    <3>1. CASE r = x
      BY <2>1, <2>3, <3>1 DEF Shaped
    <3>2. CASE r # x
      <4>1. told'[r] = told[r] /\ relations'[r] = relations[r] /\ known'[r] = known[r]
        BY Zenon, <2>1, <3>2 DEF Shaped
      <4> QED
        BY <4>1 DEF Following
    <3> QED
      BY <3>1, <3>2
  <2> QED
    BY <2>2, <2>4 DEF Following
<1> QED
  BY <1>0, <1>1

\* FollowingHolds: every step keeps the consumer in step.
LEMMA FollowingHolds ==
  ASSUME Shaped, Following, [Next]_vars
  PROVE  Shaped' /\ Following'
<1>1. CASE UNCHANGED <<told, relations, known>>
  BY <1>1 DEF Shaped, Following
<1>2. ASSUME NEW r, Describe(r)
      PROVE  Shaped' /\ Following'
  BY <1>2, FollowingDescribes
<1>3. ASSUME NEW p, Reconnect(p)
      PROVE  Shaped' /\ Following'
  BY <1>3 DEF Reconnect, Resume, Shaped, Following
<1>4. ASSUME NEW p, Restart(p)
      PROVE  Shaped' /\ Following'
  BY <1>4 DEF Restart, Resume, Shaped, Following
<1>5. \/ UNCHANGED <<told, relations, known>>
      \/ \E r : Describe(r)
      \/ Reconnect(slot + 1) \/ Restart(slot + 1)
  BY Zenon DEF Next, vars, decoderVars, sourceVars, captureVars, Alter, Write, Receive,
         Row, Deliver, Confirm, Disconnects, Crashes, Ends
<1> QED
  BY <1>1, <1>2, <1>3, <1>4, <1>5

\* Diffs: on every behaviour a consumer that applies the published changes
\* knows the description the server sends rows under.
THEOREM Diffs == Spec => []ReportsFollow
<1>1. Init => Shaped /\ Following
  BY DEF Init, DecoderInit, Shaped, Following
<1>2. Shaped /\ Following /\ [Next]_vars => (Shaped /\ Following)'
  BY FollowingHolds
<1>3. Following => ReportsFollow
  BY DEF Following, ReportsFollow
<1> QED
  BY <1>1, <1>2, <1>3, PTL DEF Spec

------------------------------------------------------------------------------
(* The tables the backfill skips. *)

Sink(k) ==
  /\ k.global.filter \in Filters \cup {NoFilter}
  /\ \A n \in DOMAIN k.tables : k.tables[n].spec.filter \in Filters \cup {NoFilter}

\* HideRow: what a step of a chain leaves of a row is a row.
LEMMA HideRow ==
  ASSUME NEW spec, NEW row \in Rows
  PROVE  Hide(spec, row) \in Rows
<1>1. PICK D \in SUBSET Columns : row \in [D -> Values]
  BY DEF Rows
<1>2. \A c \in D \ spec.drop : MaskColumn(spec, c, row[c]) \in Values
  BY ZenonT(40), <1>1, RoutingAssumption DEF MaskColumn, RoutingAssumption
<1>3. Hide(spec, row) \in [D \ spec.drop -> Values]
  BY <1>1, <1>2 DEF Hide
<1> QED
  BY <1>3 DEF Rows

\* RejectsSoundly: a chain that rejects all rows of an operation lets none
\* through.
LEMMA RejectsSoundly ==
  ASSUME NEW spec, spec.filter \in Filters \cup {NoFilter}, NEW e,
         e.op \in Ops, e.table \in Tables, e.new \in Rows, e.old \in Rows,
         RejectsAll(spec, e.table, e.op)
  PROVE  EvalFilter(spec, e) # "true"
BY Zenon, RoutingAssumption DEF RoutingAssumption, RejectsAll, EvalFilter

\* ChainFilter: a table's chain comes from the configuration.
LEMMA ChainFilter ==
  ASSUME NEW k, Sink(k), NEW t
  PROVE  TableChain(k, t).filter \in Filters \cup {NoFilter}
<1>1. CASE t \in TableTransforms(k)
  BY <1>1 DEF TableChain, TableTransforms, Sink
<1>2. CASE t \notin TableTransforms(k) /\ Bare(t) \in TableTransforms(k)
  BY <1>2 DEF TableChain, TableTransforms, Sink
<1>3. CASE t \notin TableTransforms(k) /\ Bare(t) \notin TableTransforms(k)
  BY <1>3 DEF TableChain, ZeroSpec
<1> QED
  BY SMTT(30), <1>1, <1>2, <1>3

\* UnwantedDrops: a mirroring sink that does not want an operation of a table
\* is handed no event of it.
LEMMA UnwantedDrops ==
  ASSUME NEW c, NEW s, s # OutboxSink, Sink(c.sinks[s]),
         NEW t \in Tables, NEW op \in Ops, NEW new \in Rows, NEW old \in Rows,
         ~Wants(c, s, t, op)
  PROVE  Route(c, s, [op |-> op, table |-> t, new |-> new, old |-> old]).verdict
           # "keep"
<1> DEFINE e == [op |-> op, table |-> t, new |-> new, old |-> old]
           k == c.sinks[s]
           mid == Rewrite(k.global, e)
           chain == TableChain(k, t)
           out == TransformProcess(k, e)
<1>1. CASE t = c.outbox
  BY <1>1 DEF Route
<1>2. CASE ~ShouldProcess(k, t)
  BY <1>2 DEF Route
<1>3. CASE RejectsAll(k.global, t, op)
  <2>1. EvalFilter(k.global, e) # "true"
    BY <1>3, RejectsSoundly DEF Sink
  <2>2. out.verdict # "keep"
    BY <2>1 DEF TransformProcess, Stop
  <2> QED
    BY <2>2 DEF Route
<1>4. CASE RejectsAll(chain, t, op)
  <2>1. /\ mid.op = op /\ mid.table = t
        /\ mid.new = Hide(k.global, new) /\ mid.old = Hide(k.global, old)
    BY DEF Rewrite
  <2>2. EvalFilter(chain, mid) # "true"
    BY ZenonT(40), <1>4, <2>1, HideRow, ChainFilter, RejectsSoundly
  <2>3. out.verdict # "keep"
    BY <2>2 DEF TransformProcess, Stop
  <2> QED
    BY <2>3 DEF Route
<1> QED
  BY SMTT(30), <1>1, <1>2, <1>3, <1>4 DEF Wants

\* SkipLosesNothing: whatever the configuration, no READ row of a table that
\* the backfill does not copy reaches a sink.
LEMMA SkipLosesNothing ==
  ASSUME NEW c \in Configurations, NEW t \in Tables, NEW row \in Rows, ~Copied(c, t)
  PROVE  ~Reaches(c, [op |-> "read", table |-> t, new |-> row, old |-> NoRow])
<1> DEFINE e == [op |-> "read", table |-> t, new |-> row, old |-> NoRow]
<1> SUFFICES ASSUME Admits(c, e), NEW s \in SinkNames(c),
                    Route(c, s, e).verdict = "keep"
             PROVE  FALSE
  BY DEF Reaches
<1>1. NoRow \in Rows
  <2>1. NoRow \in [{} -> Values] /\ {} \in SUBSET Columns
    BY DEF NoRow
  <2> QED
    BY Zenon, <2>1 DEF Rows
<1>2. s # OutboxSink
  BY DEF Route, OutboxWants
<1>3. s \in DOMAIN c.sinks
  BY <1>2 DEF SinkNames
<1>4. Sink(c.sinks[s])
  BY ZenonT(40), <1>3, CaptureAssumption DEF CaptureAssumption, Sink
<1>5. Wants(c, s, t, "read")
  BY SMTT(30), <1>1, <1>2, <1>4, UnwantedDrops DEF Ops
<1>6. t # c.outbox
  BY <1>2, <1>5 DEF Wants
<1>7. ~Named(c.excluded \cup {c.outbox}, t)
  BY ZenonT(40), <1>6, RoutingAssumption, CaptureAssumption
     DEF RoutingAssumption, CaptureAssumption, Named, Admits, Bare
<1> QED
  BY <1>5, <1>7 DEF Copied

Typed == cfg \in Configurations /\ shape \in [Relations -> Descriptions]

\* Redescribed: DDL leads from a description to a description.
LEMMA Redescribed ==
  ASSUME NEW d \in Descriptions, NEW x \in Alterations(d)
  PROVE  x \in Descriptions
<1> DEFINE Cols == [name : Columns, type : Types]
<1>1. /\ d.cols \in Seq(Cols) /\ d.table \in Tables /\ d.pk \in SUBSET Columns
      /\ d.ident \in {"d", "f"}
  BY DEF Descriptions
<1>2. \A i \in 1..Len(d.cols) : d.cols[i] \in Cols
  BY Zenon, <1>1, ElementOf
<1>3. CASE \E t \in Names : x = [d EXCEPT !.table = t]
  BY Zenon, <1>3, CaptureAssumption DEF CaptureAssumption, Descriptions
<1>4. CASE \E cols \in Seq(Cols) : x = [d EXCEPT !.cols = cols]
  BY <1>4 DEF Descriptions
<1>5. CASE x = [d EXCEPT !.ident = IF d.ident = "d" THEN "f" ELSE "d"]
  BY <1>5 DEF Descriptions
<1>6. CASE \E i \in 1..Len(d.cols) : x = [d EXCEPT !.pk = {d.cols[i].name}]
  <2>1. PICK i \in 1..Len(d.cols) : x = [d EXCEPT !.pk = {d.cols[i].name}]
    BY Zenon, <1>6
  <2>2. {d.cols[i].name} \in SUBSET Columns
    BY <1>2
  <2> QED
    BY <2>1, <2>2 DEF Descriptions
<1>7. ASSUME NEW c \in Alterable
      PROVE  Append(d.cols, [name |-> c, type |-> "text"]) \in Seq(Cols)
  BY <1>1, CaptureAssumption DEF CaptureAssumption, Types
<1>8. ASSUME NEW i \in 1..Len(d.cols)
      PROVE  Without(d.cols, i) \in Seq(Cols)
  <2> DEFINE n == Len(d.cols)
  <2>1. n \in Nat /\ n - 1 \in Nat
    <3>1. n \in Nat
      BY Zenon, <1>1, LengthOf
    <3> QED
      BY <3>1
  <2>2. \A j \in 1..n - 1 : (IF j < i THEN j ELSE j + 1) \in 1..n
    BY <2>1
  <2>3. Without(d.cols, i) \in [1..n - 1 -> Cols]
    BY Zenon, <1>2, <2>2 DEF Without
  <2> QED
    BY Zenon, <2>1, <2>3, SequenceOf
<1>9. ASSUME NEW i \in 1..Len(d.cols)
      PROVE  [d.cols EXCEPT ![i].type = "int"] \in Seq(Cols)
  <2>1. [d.cols[i] EXCEPT !.type = "int"] \in Cols
    BY <1>2 DEF Types
  <2> QED
    BY <1>1, <2>1, ChangeOf
<1>10. \/ \E t \in Names : x = [d EXCEPT !.table = t]
       \/ \E c \in Alterable :
            x = [d EXCEPT !.cols = Append(d.cols, [name |-> c, type |-> "text"])]
       \/ \E i \in 1..Len(d.cols) : x = [d EXCEPT !.cols = Without(d.cols, i)]
       \/ \E i \in 1..Len(d.cols) :
            x = [d EXCEPT !.cols = [d.cols EXCEPT ![i].type = "int"]]
       \/ x = [d EXCEPT !.ident = IF d.ident = "d" THEN "f" ELSE "d"]
       \/ \E i \in 1..Len(d.cols) : x = [d EXCEPT !.pk = {d.cols[i].name}]
  BY Zenon, <1>1 DEF Alterations
<1> QED
  BY Zenon, <1>3, <1>4, <1>5, <1>6, <1>7, <1>8, <1>9, <1>10

\* ReadRowsAreRows: rows of a described table are rows.
LEMMA ReadRowsAreRows ==
  ASSUME NEW d \in Descriptions, NEW row \in ReadRows(d)
  PROVE  row \in Rows
<1> DEFINE Cols == [name : Columns, type : Types]
<1>1. d.cols \in Seq(Cols)
  BY DEF Descriptions
<1>2. \A i \in 1..Len(d.cols) : d.cols[i] \in Cols
  BY Zenon, <1>1, ElementOf
<1>3. \A i \in 1..Len(d.cols) : d.cols[i].name \in Columns /\ d.cols[i].type \in Types
  BY <1>2
<1>4. ColumnNames(d) \in SUBSET Columns
  BY <1>3 DEF ColumnNames
<1>5. \A c \in ColumnNames(d) : TypeOf(d, c) \in Types
  <2> TAKE c \in ColumnNames(d)
  <2> DEFINE i == CHOOSE j \in 1..Len(d.cols) : d.cols[j].name = c
  <2>1. \E j \in 1..Len(d.cols) : d.cols[j].name = c
    BY DEF ColumnNames
  <2>2. i \in 1..Len(d.cols)
    BY <2>1
  <2> QED
    BY ZenonT(40), <1>3, <2>2 DEF TypeOf
<1>6. \A c \in ColumnNames(d) : <<c, TypeOf(d, c)>> \in Values /\ Null \in Values
  BY ZenonT(40), <1>4, <1>5, CaptureAssumption, RoutingAssumption
     DEF CaptureAssumption, RoutingAssumption
<1>7. row \in [ColumnNames(d) -> Values]
  BY Zenon, <1>6 DEF ReadRows
<1> QED
  BY <1>4, <1>7 DEF Rows

\* Skips: on every behaviour, under every configuration, the tables the
\* backfill skips have no rows a sink would be handed.
THEOREM Skips == Spec => []SkippedIsUnwanted
<1>1. Init => Typed
  BY CaptureAssumption DEF CaptureAssumption, Init, DecoderInit, Typed, Relations
<1>2. Typed /\ [Next]_vars => Typed'
  <2> SUFFICES ASSUME Typed, [Next]_vars PROVE Typed'
    OBVIOUS
  <2>1. CASE UNCHANGED <<cfg, shape>>
    BY <2>1 DEF Typed
  <2>2. CASE Alter /\ UNCHANGED cfg
    <3>1. PICK r \in Altered : \E d \in Alterations(shape[r]) :
            shape' = [shape EXCEPT ![r] = d]
      BY Zenon, <2>2 DEF Alter
    <3>2. CASE r \in Relations
      BY SMTT(30), <2>2, <3>1, <3>2, Redescribed DEF Typed
    <3>3. CASE r \notin Relations
      BY Zenon, <2>2, <3>1, <3>3 DEF Typed
    <3> QED
      BY <3>2, <3>3
  <2>3. UNCHANGED <<cfg, shape>> \/ (Alter /\ UNCHANGED cfg)
    BY Zenon DEF Next, vars, decoderVars, sourceVars, captureVars, Write, Receive,
           Describe, Row, Deliver, Confirm, Disconnects, Crashes, Ends, Reconnect,
           Restart, Resume
  <2> QED
    BY <2>1, <2>2, <2>3
<1>3. Typed => SkippedIsUnwanted
  <2> SUFFICES ASSUME Typed, NEW r \in Relations, ~Copied(cfg, shape[r].table),
                      NEW row \in ReadRows(shape[r])
               PROVE  ~Reaches(cfg, [op |-> "read", table |-> shape[r].table,
                                     new |-> row, old |-> NoRow])
    BY DEF SkippedIsUnwanted
  <2>1. shape[r] \in Descriptions /\ cfg \in Configurations
    BY DEF Typed
  <2>2. shape[r].table \in Tables
    BY <2>1 DEF Descriptions
  <2>3. row \in Rows
    BY <2>1, ReadRowsAreRows
  <2> QED
    BY SMTT(30), <2>1, <2>2, <2>3, SkipLosesNothing
<1> QED
  BY <1>1, <1>2, <1>3, PTL DEF Spec

------------------------------------------------------------------------------
(* The records of the WAL. *)

Cell == [kind : {"text", "null", "toast"}, text : Columns]

\* A tuple is empty or has a cell for every column.
Fits(t, d) ==
  /\ t \in Seq(Cell) /\ Len(t) \in {0, Len(d.cols)}
  /\ \A i \in 1..Len(t) : t[i].text = d.cols[i].name

Records ==
  [op : Ops, rels : Seq(Relations), shapes : [Relations -> Descriptions],
   new : Seq(Cell), old : Seq(Cell)]

\* A record has tuples for the columns of its tables: a new row for an insert
\* and an update only.
Sound(rec) ==
  /\ rec \in Records
  /\ \A i \in 1..Len(rec.rels) :
       LET d == rec.shapes[rec.rels[i]]
       IN  /\ d \in Descriptions /\ Tabular(d)
           /\ Fits(rec.new, d) /\ Fits(rec.old, d)
           /\ Len(rec.new) = IF rec.op \in {"insert", "update"} THEN Len(d.cols) ELSE 0

\* Columns: the columns of a description.
LEMMA ColumnsOf ==
  ASSUME NEW d \in Descriptions
  PROVE  /\ d.cols \in Seq([name : Columns, type : Types]) /\ Len(d.cols) \in Nat
         /\ \A i \in 1..Len(d.cols) : d.cols[i].name \in Columns /\ d.cols[i].type \in Types
         /\ d.table \in Tables /\ d.pk \subseteq Columns
         /\ ColumnNames(d) \subseteq Columns
<1> DEFINE Cols == [name : Columns, type : Types]
<1>1. d.cols \in Seq(Cols) /\ d.table \in Tables /\ d.pk \in SUBSET Columns
  BY DEF Descriptions
<1>2. Len(d.cols) \in Nat /\ \A i \in 1..Len(d.cols) : d.cols[i] \in Cols
  BY Zenon, <1>1, ElementOf, LengthOf
<1>3. \A i \in 1..Len(d.cols) : d.cols[i].name \in Columns /\ d.cols[i].type \in Types
  BY <1>2
<1> QED
  BY Zenon, <1>1, <1>2, <1>3 DEF ColumnNames

\* FullFits: the tuples PostgreSQL writes for a table fit its description.
LEMMA FullFits ==
  ASSUME NEW d \in Descriptions, NEW odd, NEW kind \in {"text", "null", "toast"}
  PROVE  Fits(FullTuple(d, odd, kind), d) /\ Len(FullTuple(d, odd, kind)) = Len(d.cols)
<1> DEFINE t == FullTuple(d, odd, kind)
           n == Len(d.cols)
<1>1. n \in Nat /\ \A i \in 1..n : d.cols[i].name \in Columns
  BY Zenon, ColumnsOf
<1>2. t = [i \in 1..n |-> [kind |-> IF d.cols[i].name \in odd THEN kind ELSE "text",
                           text |-> d.cols[i].name]]
  BY Zenon DEF FullTuple
<1> HIDE DEF t, n
<1>3. t \in [1..n -> Cell]
  BY <1>1, <1>2 DEF Cell
<1>4. t \in Seq(Cell) /\ Len(t) = n
  BY <1>1, <1>3
<1>5. \A i \in 1..n : t[i].text = d.cols[i].name
  BY <1>2
<1> QED
  BY Zenon, <1>4, <1>5 DEF Fits, t, n

\* NothingFits: the empty tuple fits.
LEMMA NothingFits ==
  ASSUME NEW d
  PROVE  Fits(<<>>, d) /\ Len(<<>>) = 0
BY DEF Fits

Shapes == shape \in [Relations -> Descriptions] /\ \A r \in Relations : Tabular(shape[r])

\* RecordIs: what a record consists of.
LEMMA RecordIs ==
  ASSUME NEW op, NEW rels, NEW new, NEW old
  PROVE  /\ Record(op, rels, new, old).op = op
         /\ Record(op, rels, new, old).rels = rels
         /\ Record(op, rels, new, old).shapes = shape
         /\ Record(op, rels, new, old).new = new
         /\ Record(op, rels, new, old).old = old
BY DEF Record

\* OneSound: a row change of a table is sound.
LEMMA OneSound ==
  ASSUME Shapes, NEW r \in Relations, NEW op \in Ops, NEW new, NEW old,
         Fits(new, shape[r]), Fits(old, shape[r]),
         Len(new) = IF op \in {"insert", "update"} THEN Len(shape[r].cols) ELSE 0
  PROVE  Sound(Record(op, <<r>>, new, old))
<1> DEFINE rec == Record(op, <<r>>, new, old)
<1>1. rec.op = op /\ rec.rels = <<r>> /\ rec.shapes = shape /\ rec.new = new /\ rec.old = old
  BY RecordIs
<1>2. shape[r] \in Descriptions /\ Tabular(shape[r])
  BY Zenon DEF Shapes
<1> HIDE DEF rec
<1>3. rec.rels \in Seq(Relations) /\ \A i \in 1..Len(rec.rels) : rec.rels[i] = r
  BY <1>1
<1>4. \A i \in 1..Len(rec.rels) : rec.shapes[rec.rels[i]] = shape[r]
  BY Zenon, <1>1, <1>3
<1>5. rec \in Records
  BY <1>3 DEF Records, rec, Record, Shapes, Fits
<1>6. Sound(rec)
  BY Zenon, <1>1, <1>2, <1>3, <1>4, <1>5 DEF Sound
<1> QED
  BY Zenon, <1>6 DEF rec

\* WriteSound: the records the database writes are sound.
LEMMA WriteSound ==
  ASSUME Shapes, Write
  PROVE  \E rec : Sound(rec) /\ wal' = Append(wal, rec)
<1>1. PICK rec : /\ wal' = Append(wal, rec)
                 /\ rec \in Truncates \/ \E r \in Relations : rec \in RowChanges(r)
  BY Zenon DEF Write
<1>2. CASE rec \in Truncates
  <2>0. PICK rels \in [1..Cardinality(Relations) -> Relations] :
          rec = Record("truncate", rels, <<>>, <<>>)
    BY Zenon, <1>2 DEF Truncates
  <2>1. /\ rec.op = "truncate" /\ rec.rels = rels /\ rec.shapes = shape
        /\ rec.new = <<>> /\ rec.old = <<>>
    BY <2>0, RecordIs
  <2>9. rels \in Seq(Relations)
    BY Zenon, SequenceOf, CaptureAssumption DEF CaptureAssumption
  <2>2. \A i \in 1..Len(rec.rels) : rec.rels[i] \in Relations
    BY Zenon, <2>1, <2>9, ElementOf
  <2>3. \A i \in 1..Len(rec.rels) : rec.shapes[rec.rels[i]] \in Descriptions /\ Tabular(rec.shapes[rec.rels[i]])
    BY Zenon, <2>1, <2>2 DEF Shapes
  <2>4. rec.op \in Ops /\ rec.op \notin {"insert", "update"}
    BY <2>1 DEF Ops
  <2>5. rec \in Records
    BY <2>0, <2>4, <2>9 DEF Records, Record, Shapes, Ops
  <2>6. Sound(rec)
    BY Zenon, <2>1, <2>3, <2>4, <2>5, NothingFits DEF Sound
  <2> QED
    BY Zenon, <1>1, <2>6
<1>3. CASE \E r \in Relations : rec \in RowChanges(r)
  <2>1. PICK r \in Relations : rec \in RowChanges(r)
    BY Zenon, <1>3
  <2> DEFINE d == shape[r]
  <2>2. d \in Descriptions
    BY Zenon DEF Shapes
  <2> HIDE DEF d
  <2>3. Fits(Identity(d), d)
    BY Zenon, <2>2, FullFits DEF Identity
  <2>4. Fits(<<>>, d) /\ Len(<<>>) = 0
    BY Zenon, NothingFits
  <2>5. /\ "insert" \in Ops /\ "update" \in Ops /\ "delete" \in Ops
        /\ "delete" \notin {"insert", "update"}
    BY DEF Ops
  <2>6. ASSUME NEW new \in NewTuples(d, {"null"})
        PROVE  Sound(Record("insert", <<r>>, new, <<>>))
    <3>1. Fits(new, d) /\ Len(new) = Len(d.cols)
      <4>1. PICK odd \in Odd(d) : new = FullTuple(d, odd, "null")
        BY DEF NewTuples
      <4> QED
        BY Zenon, <2>2, <4>1, FullFits
    <3> QED
      BY Zenon, <3>1, <2>4, <2>5, OneSound DEF d
  <2>7. ASSUME NEW new \in NewTuples(d, {"toast"})
        PROVE  Sound(Record("update", <<r>>, new, IF d.ident = "f" THEN Identity(d) ELSE <<>>))
    <3>1. Fits(new, d) /\ Len(new) = Len(d.cols)
      <4>1. PICK odd \in Odd(d) : new = FullTuple(d, odd, "toast")
        BY DEF NewTuples
      <4> QED
        BY Zenon, <2>2, <4>1, FullFits
    <3>2. Fits(IF d.ident = "f" THEN Identity(d) ELSE <<>>, d)
      BY Zenon, <2>3, <2>4
    <3> QED
      BY ZenonT(40), <3>1, <3>2, <2>5, OneSound DEF d
  <2>8. Sound(Record("delete", <<r>>, <<>>, Identity(d)))
    <3>1. Len(<<>>) = IF "delete" \in {"insert", "update"} THEN Len(d.cols) ELSE 0
      BY <2>4
    <3> QED
      BY Zenon, <2>3, <2>4, <2>5, <3>1, OneSound DEF d
  <2>9. Sound(rec)
    BY Zenon, <2>1, <2>6, <2>7, <2>8 DEF RowChanges, d
  <2> QED
    BY Zenon, <1>1, <2>9
<1> QED
  BY Zenon, <1>1, <1>2, <1>3

------------------------------------------------------------------------------
(* What is decoded from a tuple. *)

\* The place of a column.
LEMMA PlaceOf ==
  ASSUME NEW d \in Descriptions, Tabular(d), NEW t, Fits(t, d), NEW i \in 1..Len(t)
  PROVE  /\ i \in 1..Len(d.cols)
         /\ \A j \in 1..Len(t) : d.cols[j].name = d.cols[i].name => j = i
         /\ TypeOf(d, d.cols[i].name) = d.cols[i].type
<1>1. Len(d.cols) \in Nat /\ Len(t) \in {0, Len(d.cols)}
  BY Zenon, ColumnsOf DEF Fits
<1>2. /\ i \in 1..Len(d.cols)
      /\ \A j \in 1..Len(t) : j \in 1..Len(d.cols)
  BY <1>1
<1>3. \A j \in 1..Len(d.cols) : d.cols[j].name = d.cols[i].name => j = i
  BY Zenon, <1>2 DEF Tabular
<1>4. (CHOOSE j \in 1..Len(d.cols) : d.cols[j].name = d.cols[i].name) = i
  BY Zenon, <1>2, <1>3
<1>5. TypeOf(d, d.cols[i].name) = d.cols[i].type
  BY Zenon, <1>4 DEF TypeOf
<1> QED
  BY Zenon, <1>2, <1>3, <1>5

\* Decodes: decodeTuple by the description a row was written under yields the
\* row that was written.
LEMMA Decodes ==
  ASSUME NEW d \in Descriptions, Tabular(d), NEW t, Fits(t, d)
  PROVE  DecodeTuple(t, d) = Written(t, d) /\ Written(t, d) \in Rows
<1> DEFINE carried == {i \in 1..Len(t) : t[i].kind # "toast"}
           N == {d.cols[i].name : i \in carried}
           Index(c) == CHOOSE i \in carried : d.cols[i].name = c
           W(c) == IF \E i \in 1..Len(t) : d.cols[i].name = c /\ t[i].kind = "null"
                   THEN Null ELSE <<c, TypeOf(d, c)>>
           D(c) == IF t[Index(c)].kind = "null" THEN Null
                   ELSE <<t[Index(c)].text, d.cols[Index(c)].type>>
<1>1. DecodeTuple(t, d) = [c \in N |-> D(c)]
  BY Zenon DEF DecodeTuple
<1>2. Written(t, d) = [c \in N |-> W(c)]
  BY Zenon DEF Written
<1>3. ASSUME NEW c \in N
      PROVE  D(c) = W(c) /\ W(c) \in Values /\ c \in Columns
  <2>1. PICK i \in carried : c = d.cols[i].name
    BY Zenon, <1>3
  <2>2. /\ i \in 1..Len(t) /\ i \in 1..Len(d.cols)
        /\ \A j \in 1..Len(t) : d.cols[j].name = c => j = i
        /\ TypeOf(d, c) = d.cols[i].type
    BY Zenon, <2>1, PlaceOf
  <2>3. Index(c) = i
    <3>1. \A j \in carried : d.cols[j].name = c => j = i
      BY Zenon, <2>2
    <3> QED
      BY Zenon, <2>1, <3>1
  <2>4. t[i].text = c
    BY Zenon, <2>1, <2>2 DEF Fits
  <2>5. c \in Columns /\ TypeOf(d, c) \in Types
    BY Zenon, <2>1, <2>2, ColumnsOf
  <2>6. <<c, TypeOf(d, c)>> \in Values /\ Null \in Values
    BY ZenonT(40), <2>5, CaptureAssumption, RoutingAssumption
       DEF CaptureAssumption, RoutingAssumption
  <2>7. (\E j \in 1..Len(t) : d.cols[j].name = c /\ t[j].kind = "null") <=> t[i].kind = "null"
    BY Zenon, <2>1, <2>2
  <2> HIDE DEF Index
  <2>8. D(c) = W(c)
    BY Zenon, <2>2, <2>3, <2>4, <2>7
  <2> QED
    BY Zenon, <2>5, <2>6, <2>8
<1> HIDE DEF D, W, N
<1>4. [c \in N |-> D(c)] = [c \in N |-> W(c)]
  BY Zenon, <1>3
<1>5. [c \in N |-> W(c)] \in [N -> Values] /\ N \in SUBSET Columns
  BY Zenon, <1>3
<1> QED
  BY Zenon, <1>1, <1>2, <1>4, <1>5 DEF Rows

\* Toasts: the columns an event names as unchanged are those its new row does
\* not carry.
LEMMA Toasts ==
  ASSUME NEW d \in Descriptions, Tabular(d), NEW t, Fits(t, d)
  PROVE  /\ UnchangedToast(t, d) \in SUBSET Columns
         /\ Len(t) = Len(d.cols) =>
              UnchangedToast(t, d) = ColumnNames(d) \ DOMAIN Written(t, d)
         /\ Len(t) = 0 => UnchangedToast(t, d) = {}
<1> DEFINE carried == {i \in 1..Len(t) : t[i].kind # "toast"}
           toast == {i \in 1..Len(t) : t[i].kind = "toast"}
           U == {d.cols[i].name : i \in toast}
<1>1. UnchangedToast(t, d) = U
  BY Zenon DEF UnchangedToast
<1>2. DOMAIN Written(t, d) = {d.cols[i].name : i \in carried}
  BY Zenon DEF Written
<1>3. \A i \in 1..Len(t) : /\ i \in 1..Len(d.cols) /\ d.cols[i].name \in Columns
                           /\ \A j \in 1..Len(t) : d.cols[j].name = d.cols[i].name => j = i
  BY Zenon, PlaceOf, ColumnsOf
<1>4. U \in SUBSET Columns
  BY Zenon, <1>3
<1>5. ASSUME Len(t) = Len(d.cols)
      PROVE  U = ColumnNames(d) \ DOMAIN Written(t, d)
  <2>1. ASSUME NEW c \in U PROVE c \in ColumnNames(d) /\ c \notin DOMAIN Written(t, d)
    BY Zenon, <1>2, <1>3 DEF ColumnNames
  <2>2. ASSUME NEW c \in ColumnNames(d), c \notin DOMAIN Written(t, d) PROVE c \in U
    BY Zenon, <1>2, <1>5, <2>2 DEF ColumnNames
  <2> HIDE DEF U
  <2> QED
    BY Zenon, <2>1, <2>2
<1>6. ASSUME Len(t) = 0 PROVE U = {}
  <2>1. 1..Len(t) = {}
    BY <1>6
  <2> QED
    BY Zenon, <2>1
<1> QED
  BY Zenon, <1>1, <1>4, <1>5, <1>6

------------------------------------------------------------------------------
(* What leaves the layers around a sink. *)

\* HideIs: a step of a chain drops columns and masks values.
LEMMA HideIs ==
  ASSUME NEW spec, NEW row
  PROVE  /\ DOMAIN Hide(spec, row) = DOMAIN row \ spec.drop
         /\ \A c \in DOMAIN row \ spec.drop :
              Hide(spec, row)[c] = IF c \in spec.mask /\ row[c] # Null THEN Masked ELSE row[c]
BY Zenon DEF Hide, MaskColumn

\* HideTwice: the sink-wide step and the table's.
LEMMA HideTwice ==
  ASSUME NEW g, NEW h, NEW row
  PROVE  FaithfulRow({g, h}, Hide(h, Hide(g, row)), row)
<1> DEFINE mid == Hide(g, row)
           left == Hide(h, mid)
<1>1. /\ DOMAIN mid = DOMAIN row \ g.drop
      /\ \A c \in DOMAIN row \ g.drop :
           mid[c] = IF c \in g.mask /\ row[c] # Null THEN Masked ELSE row[c]
  BY Zenon, HideIs
<1>2. /\ DOMAIN left = DOMAIN mid \ h.drop
      /\ \A c \in DOMAIN mid \ h.drop :
           left[c] = IF c \in h.mask /\ mid[c] # Null THEN Masked ELSE mid[c]
  BY Zenon, HideIs
<1> HIDE DEF mid, left
<1>3. ASSUME NEW c \in DOMAIN left
      PROVE  IF c \in g.mask \/ c \in h.mask
             THEN left[c] = IF row[c] = Null THEN Null ELSE Masked
             ELSE left[c] = row[c]
  BY Zenon, <1>1, <1>2
<1>4. ASSUME NEW c \in DOMAIN left
      PROVE  IF \E spec \in {g, h} : c \in spec.mask
             THEN left[c] = IF row[c] = Null THEN Null ELSE Masked
             ELSE left[c] = row[c]
  BY Zenon, <1>3
<1>5. /\ \A c \in DOMAIN row : c \in DOMAIN left <=> \A spec \in {g, h} : c \notin spec.drop
      /\ DOMAIN left \subseteq DOMAIN row
  BY Zenon, <1>1, <1>2
<1>6. FaithfulRow({g, h}, left, row)
  BY Zenon, <1>4, <1>5 DEF FaithfulRow
<1> QED
  BY Zenon, <1>6 DEF left, mid

\* Untouched: without transforms a row leaves as it is.
LEMMA Untouched ==
  ASSUME NEW row
  PROVE  FaithfulRow({}, row, row)
BY Zenon DEF FaithfulRow

Fields == {"pos", "rel", "op", "table", "new", "old", "toast"}

\* RewriteIs: a step of a chain rewrites the rows only.
LEMMA RewriteIs ==
  ASSUME NEW spec, NEW e, DOMAIN e = Fields
  PROVE  /\ DOMAIN Rewrite(spec, e) = Fields
         /\ Rewrite(spec, e).new = Hide(spec, e.new)
         /\ Rewrite(spec, e).old = Hide(spec, e.old)
         /\ Rewrite(spec, e).pos = e.pos /\ Rewrite(spec, e).rel = e.rel
         /\ Rewrite(spec, e).op = e.op /\ Rewrite(spec, e).table = e.table
         /\ Rewrite(spec, e).toast = e.toast
BY DEF Rewrite, Fields

------------------------------------------------------------------------------
(* Events. *)

Event ==
  [pos : Nat, rel : Relations, op : Ops, table : Tables, new : Rows, old : Rows,
   toast : SUBSET Columns]

\* The event of a record and a table, by the description the row was written
\* under.
Decoded(w, p, r) ==
  [pos |-> p, rel |-> r, op |-> w[p].op, table |-> w[p].shapes[r].table,
   new |-> Written(w[p].new, w[p].shapes[r]), old |-> Written(w[p].old, w[p].shapes[r]),
   toast |-> UnchangedToast(w[p].new, w[p].shapes[r])]

Came(w, e) ==
  /\ e.pos \in 1..Len(w)
  /\ \E j \in 1..Len(w[e.pos].rels) : e = Decoded(w, e.pos, w[e.pos].rels[j])

\* A table a record is about.
LEMMA SoundAt ==
  ASSUME NEW rec, Sound(rec), NEW j \in 1..Len(rec.rels)
  PROVE  LET r == rec.rels[j] IN
         /\ r \in Relations /\ rec.op \in Ops
         /\ rec.shapes[r] \in Descriptions /\ Tabular(rec.shapes[r])
         /\ Fits(rec.new, rec.shapes[r]) /\ Fits(rec.old, rec.shapes[r])
         /\ Len(rec.new) = IF rec.op \in {"insert", "update"}
                           THEN Len(rec.shapes[r].cols) ELSE 0
<1>1. rec.rels \in Seq(Relations) /\ rec.shapes \in [Relations -> Descriptions] /\ rec.op \in Ops
  BY DEF Sound, Records
<1>2. rec.rels[j] \in Relations
  BY Zenon, <1>1, ElementOf
<1> QED
  BY Zenon, <1>1, <1>2 DEF Sound

\* DecodedIs: the fields of a decoded event, and its type.
LEMMA DecodedIs ==
  ASSUME NEW w, NEW p, Sound(w[p]), NEW j \in 1..Len(w[p].rels), p \in Nat
  PROVE  Decoded(w, p, w[p].rels[j]) \in Event
<1> DEFINE r == w[p].rels[j]
           d == w[p].shapes[r]
<1>1. /\ r \in Relations /\ w[p].op \in Ops /\ d \in Descriptions /\ Tabular(d)
      /\ Fits(w[p].new, d) /\ Fits(w[p].old, d)
  BY Zenon, SoundAt
<1>2. /\ Written(w[p].new, d) \in Rows /\ Written(w[p].old, d) \in Rows
      /\ UnchangedToast(w[p].new, d) \in SUBSET Columns /\ d.table \in Tables
  BY Zenon, <1>1, Decodes, Toasts, ColumnsOf
<1> HIDE DEF r
<1> QED
  BY Zenon, <1>1, <1>2 DEF Decoded, Event, r

\* LeavesAsWritten: whatever the configuration, a sink is handed the row as it
\* was written.
LEMMA LeavesAsWritten ==
  ASSUME NEW w, NEW p, Sound(w[p]), NEW j \in 1..Len(w[p].rels), NEW s,
         Route(cfg, s, Decoded(w, p, w[p].rels[j])).verdict = "keep"
  PROVE  LET r == w[p].rels[j]
             d == w[p].shapes[r]
             e == Route(cfg, s, Decoded(w, p, r)).event
         IN  /\ e.pos = p /\ e.rel = r /\ e.table = d.table
             /\ e.toast = IF e.op \in {"insert", "update"}
                          THEN ColumnNames(d) \ DOMAIN Written(w[p].new, d) ELSE {}
             /\ FaithfulRow(Specs(s, e.table), e.new, Written(w[p].new, d))
             /\ FaithfulRow(Specs(s, e.table), e.old, Written(w[p].old, d))
<1> DEFINE r == w[p].rels[j]
           d == w[p].shapes[r]
           ev == Decoded(w, p, r)
           e == Route(cfg, s, ev).event
           N == Written(w[p].new, d)
           O == Written(w[p].old, d)
           U == UnchangedToast(w[p].new, d)
           k == cfg.sinks[s]
           g == k.global
           h == TableChain(k, d.table)
<1>1. U = IF w[p].op \in {"insert", "update"} THEN ColumnNames(d) \ DOMAIN N ELSE {}
  BY Zenon, SoundAt, Toasts
<1>2. ev = [pos |-> p, rel |-> r, op |-> w[p].op, table |-> d.table, new |-> N, old |-> O, toast |-> U]
  BY Zenon DEF Decoded
<1>3. Route(cfg, s, ev).verdict = "keep"
  BY Zenon
<1>4. CASE s = OutboxSink
  <2>1. e = ev
    BY <1>4 DEF Route
  <2>2. Specs(s, e.table) = {}
    BY Zenon, <1>4 DEF Specs
  <2> HIDE DEF e, ev, N, O, U, d, r
  <2>3. /\ e.pos = p /\ e.rel = r /\ e.table = d.table /\ e.op = w[p].op
        /\ e.new = N /\ e.old = O /\ e.toast = U
    BY <1>2, <2>1
  <2> QED
    BY Zenon, <1>1, <2>2, <2>3, Untouched DEF e, ev, N, O, U, d, r
<1>5. CASE s # OutboxSink
  <2>1. e = TransformProcess(k, ev).event
    BY <1>3, <1>5 DEF Route
  <2> HIDE DEF N, O, U, e, ev, d, r
  <2>2. ev.table = d.table
    BY ONLY <1>2
  <2>3. e = Rewrite(h, Rewrite(g, ev))
    BY <2>1, <2>2 DEF TransformProcess
  <2> HIDE DEF g, h
  <2>4. DOMAIN ev = Fields
    BY <1>2 DEF Fields
  <2>5. /\ e.pos = ev.pos /\ e.rel = ev.rel /\ e.table = ev.table /\ e.op = ev.op
        /\ e.new = Hide(h, Hide(g, ev.new)) /\ e.old = Hide(h, Hide(g, ev.old))
        /\ e.toast = ev.toast
    <3> DEFINE mid == Rewrite(g, ev)
    <3>1. /\ DOMAIN mid = Fields /\ mid.pos = ev.pos /\ mid.rel = ev.rel
          /\ mid.table = ev.table /\ mid.op = ev.op /\ mid.toast = ev.toast
          /\ mid.new = Hide(g, ev.new) /\ mid.old = Hide(g, ev.old)
      BY SMTT(30), <2>4, RewriteIs
    <3>2. e = Rewrite(h, mid)
      BY Zenon, <2>3
    <3> HIDE DEF mid
    <3>3. /\ e.pos = mid.pos /\ e.rel = mid.rel /\ e.table = mid.table /\ e.op = mid.op
          /\ e.new = Hide(h, mid.new) /\ e.old = Hide(h, mid.old) /\ e.toast = mid.toast
      BY SMTT(30), <3>1, <3>2, RewriteIs
    <3> QED
      BY Zenon, <3>1, <3>3
  <2>7. /\ e.pos = p /\ e.rel = r /\ e.table = d.table /\ e.op = w[p].op
        /\ e.new = Hide(h, Hide(g, N)) /\ e.old = Hide(h, Hide(g, O)) /\ e.toast = U
    BY <1>2, <2>5
  <2>6. Specs(s, e.table) = {g, h}
    BY Zenon, <1>5, <2>7 DEF Specs, g, h
  <2>8. /\ FaithfulRow(Specs(s, e.table), e.new, N)
        /\ FaithfulRow(Specs(s, e.table), e.old, O)
    BY Zenon, <2>6, <2>7, HideTwice
  <2> QED
    BY Zenon, <1>1, <2>7, <2>8 DEF e, ev, N, O, U, d, r
<1> QED
  BY Zenon, <1>4, <1>5

------------------------------------------------------------------------------
(* The records stay as they were written. *)

Source_(sh, w) ==
  /\ sh \in [Relations -> Descriptions] /\ \A r \in Relations : Tabular(sh[r])
  /\ w \in Seq(Records) /\ \A p \in 1..Len(w) : Sound(w[p])
SourceInv == Source_(shape, wal)

\* The WAL only grows.
Longer(v, w) ==
  Len(v) \in Nat /\ Len(w) \in Nat /\ Len(v) <= Len(w) /\ \A p \in 1..Len(v) : w[p] = v[p]

\* StaysTabular: DDL keeps the names of the columns apart.
LEMMA StaysTabular ==
  ASSUME NEW d \in Descriptions, Tabular(d), NEW x \in Alterations(d)
  PROVE  Tabular(x)
<1> DEFINE Cols == [name : Columns, type : Types]
           n == Len(d.cols)
<1>1. /\ d.cols \in Seq(Cols) /\ n \in Nat
      /\ \A i, j \in 1..n : d.cols[i].name = d.cols[j].name => i = j
  BY Zenon, ColumnsOf DEF Tabular
<1>2. CASE x.cols = d.cols
  BY Zenon, <1>2, <1>1 DEF Tabular
<1>3. ASSUME NEW c \in Alterable \ ColumnNames(d), x.cols = Append(d.cols, [name |-> c, type |-> "text"])
      PROVE  Tabular(x)
  <2>1. /\ Len(x.cols) = n + 1 /\ x.cols[n + 1].name = c
        /\ \A i \in 1..n : x.cols[i] = d.cols[i]
    BY <1>1, <1>3, CaptureAssumption DEF CaptureAssumption, Types
  <2>2. \A i \in 1..n : d.cols[i].name # c
    BY Zenon DEF ColumnNames
  <2>3. \A i \in 1..n + 1 : i \in 1..n \/ i = n + 1
    BY <1>1
  <2> QED
    BY Zenon, <1>1, <2>1, <2>2, <2>3 DEF Tabular
<1>4. ASSUME NEW k \in 1..n, x.cols = Without(d.cols, k)
      PROVE  Tabular(x)
  <2>1. /\ Len(x.cols) = n - 1
        /\ \A i \in 1..n - 1 : x.cols[i] = d.cols[IF i < k THEN i ELSE i + 1]
    <3>1. x.cols = [i \in 1..n - 1 |-> d.cols[IF i < k THEN i ELSE i + 1]]
      BY Zenon, <1>4 DEF Without
    <3>2. n - 1 \in Nat /\ \A i \in 1..n - 1 : (IF i < k THEN i ELSE i + 1) \in 1..n
      BY <1>1
    <3>3. \A i \in 1..n : d.cols[i] \in Cols
      BY Zenon, <1>1, ElementOf
    <3>4. x.cols \in [1..n - 1 -> Cols]
      BY Zenon, <3>1, <3>2, <3>3
    <3>5. Len(x.cols) = n - 1
      BY Zenon, <3>2, <3>4, SequenceOf
    <3> QED
      BY Zenon, <3>1, <3>5
  <2> SUFFICES ASSUME NEW i \in 1..n - 1, NEW j \in 1..n - 1, x.cols[i].name = x.cols[j].name
               PROVE  i = j
    BY Zenon, <2>1 DEF Tabular
  <2> DEFINE I == IF i < k THEN i ELSE i + 1
             J == IF j < k THEN j ELSE j + 1
  <2>2. I \in 1..n /\ J \in 1..n /\ (I = J => i = j)
    BY <1>1
  <2>3. x.cols[i] = d.cols[I] /\ x.cols[j] = d.cols[J]
    BY Zenon, <2>1
  <2> HIDE DEF I, J
  <2> QED
    BY Zenon, <1>1, <2>2, <2>3
<1>5. ASSUME NEW k \in 1..n, x.cols = [d.cols EXCEPT ![k].type = "int"]
      PROVE  Tabular(x)
  <2>1. \A i \in 1..n : d.cols[i] \in Cols
    BY Zenon, <1>1, ElementOf
  <2>2. [d.cols[k] EXCEPT !.type = "int"] \in Cols /\ [d.cols[k] EXCEPT !.type = "int"].name = d.cols[k].name
    BY <2>1 DEF Types
  <2>3. Len(x.cols) = n /\ \A i \in 1..n : x.cols[i] = IF i = k THEN [d.cols[k] EXCEPT !.type = "int"] ELSE d.cols[i]
    BY <1>1, <1>5, <2>2, ChangeOf
  <2>4. \A i \in 1..n : x.cols[i].name = d.cols[i].name
    BY Zenon, <2>2, <2>3
  <2> QED
    BY Zenon, <1>1, <2>3, <2>4 DEF Tabular
<1>6. \/ x.cols = d.cols
      \/ \E c \in Alterable \ ColumnNames(d) : x.cols = Append(d.cols, [name |-> c, type |-> "text"])
      \/ \E k \in 1..n : x.cols = Without(d.cols, k)
      \/ \E k \in 1..n : x.cols = [d.cols EXCEPT ![k].type = "int"]
  <2>1. "cols" \in DOMAIN d /\ DOMAIN d = {"table", "cols", "pk", "ident"}
    BY DEF Descriptions
  <2>2. CASE \E t \in Names : x = [d EXCEPT !.table = t]
    BY <2>1, <2>2
  <2>3. CASE \E c \in Alterable \ ColumnNames(d) :
               x = [d EXCEPT !.cols = Append(d.cols, [name |-> c, type |-> "text"])]
    BY <2>1, <2>3
  <2>4. CASE \E i \in 1..n : x = [d EXCEPT !.cols = Without(d.cols, i)]
    BY <2>1, <2>4
  <2>5. CASE \E i \in 1..n : x = [d EXCEPT !.cols = [d.cols EXCEPT ![i].type = "int"]]
    BY Zenon, <2>1, <2>5
  <2>6. CASE x = [d EXCEPT !.ident = IF d.ident = "d" THEN "f" ELSE "d"]
    BY <2>1, <2>6
  <2>7. CASE \E i \in 1..n : x = [d EXCEPT !.pk = {d.cols[i].name}]
    BY <2>1, <2>7
  <2>8. \/ \E t \in Names : x = [d EXCEPT !.table = t]
        \/ \E c \in Alterable \ ColumnNames(d) :
             x = [d EXCEPT !.cols = Append(d.cols, [name |-> c, type |-> "text"])]
        \/ \E i \in 1..n : x = [d EXCEPT !.cols = Without(d.cols, i)]
        \/ \E i \in 1..n : x = [d EXCEPT !.cols = [d.cols EXCEPT ![i].type = "int"]]
        \/ x = [d EXCEPT !.ident = IF d.ident = "d" THEN "f" ELSE "d"]
        \/ \E i \in 1..n : x = [d EXCEPT !.pk = {d.cols[i].name}]
    BY Zenon, <2>1 DEF Alterations
  <2> QED
    BY Zenon, <2>2, <2>3, <2>4, <2>5, <2>6, <2>7, <2>8
<1> QED
  BY Zenon, <1>2, <1>3, <1>4, <1>5, <1>6

\* SourceStep: the source database keeps its descriptions and records in
\* order, and what was written stays.
LEMMA SourceStep ==
  ASSUME SourceInv, [Next]_vars
  PROVE  SourceInv' /\ Longer(wal, wal')
<1>0. Len(wal) \in Nat
  BY Zenon, LengthOf DEF SourceInv, Source_
<1>1. CASE UNCHANGED <<shape, wal>>
  <2>1. Longer(wal, wal)
    BY <1>0 DEF Longer
  <2> QED
    BY Zenon, <1>1, <2>1 DEF SourceInv, Source_
<1>2. CASE Alter
  <2>1. PICK r \in Altered : \E d \in Alterations(shape[r]) :
          shape' = [shape EXCEPT ![r] = d]
    BY Zenon, <1>2 DEF Alter
  <2>2. wal' = wal
    BY Zenon, <1>2 DEF Alter
  <2>3. CASE r \in Relations
    <3>1. PICK d \in Alterations(shape[r]) : shape' = [shape EXCEPT ![r] = d]
      BY Zenon, <2>1
    <3>2. shape[r] \in Descriptions /\ Tabular(shape[r])
      BY Zenon, <2>3 DEF SourceInv, Source_
    <3>3. d \in Descriptions /\ Tabular(d)
      BY Zenon, <3>2, Redescribed, StaysTabular
    <3>4. shape' \in [Relations -> Descriptions] /\ \A q \in Relations : shape'[q] = IF q = r THEN d ELSE shape[q]
      BY Zenon, <3>1, <3>3 DEF SourceInv, Source_
    <3>5. \A q \in Relations : Tabular(shape'[q])
      BY Zenon, <3>3, <3>4 DEF SourceInv, Source_
    <3>6. Longer(wal, wal)
      BY <1>0 DEF Longer
    <3> QED
      BY Zenon, <2>2, <3>4, <3>5, <3>6 DEF SourceInv, Source_
  <2>4. CASE r \notin Relations
    <3>1. shape' = shape
      BY Zenon, <2>1, <2>4 DEF SourceInv, Source_
    <3> QED
      BY Zenon, <1>1, <2>2, <3>1
  <2> QED
    BY Zenon, <2>3, <2>4
<1>3. CASE Write
  <2>1. Shapes /\ shape' = shape
    BY Zenon, <1>3 DEF Write, SourceInv, Source_, Shapes
  <2>2. PICK rec : Sound(rec) /\ wal' = Append(wal, rec)
    BY Zenon, <1>3, <2>1, WriteSound
  <2>3. wal \in Seq(Records) /\ rec \in Records
    BY Zenon, <2>2 DEF Sound, SourceInv, Source_
  <2>4. /\ wal' \in Seq(Records) /\ Len(wal') = Len(wal) + 1
        /\ \A p \in 1..Len(wal) : wal'[p] = wal[p]
        /\ wal'[Len(wal) + 1] = rec
    BY SMTT(30), <2>2, <2>3, AppendOf
  <2>5. \A p \in 1..Len(wal') : p \in 1..Len(wal) \/ p = Len(wal) + 1
    BY <1>0, <2>4
  <2>6. \A p \in 1..Len(wal') : Sound(wal'[p])
    BY Zenon, <2>2, <2>4, <2>5 DEF SourceInv, Source_
  <2>7. Len(wal') \in Nat /\ Len(wal) <= Len(wal')
    BY <1>0, <2>4
  <2> QED
    BY Zenon, <1>0, <2>1, <2>4, <2>6, <2>7 DEF SourceInv, Source_, Longer
<1>4. UNCHANGED <<shape, wal>> \/ Alter \/ Write
  BY Zenon DEF Next, vars, decoderVars, sourceVars, captureVars, Receive,
         Describe, Row, Deliver, Confirm, Disconnects, Crashes, Ends, Reconnect,
         Restart, Resume
<1> QED
  BY Zenon, <1>1, <1>2, <1>3, <1>4

------------------------------------------------------------------------------
(* The session. *)

\* The events that wait are those of positions decoded and not done, in order.
SessionIn(w, a, dn, sl, ev) ==
  /\ a \in 1..Len(w) + 1 /\ dn \in 0..a - 1 /\ sl \in 0..dn
  /\ ev \in Seq(Event)
  /\ \A i \in 1..Len(ev) : Came(w, ev[i]) /\ ev[i].pos \in dn + 1..a - 1
  /\ \A i, j \in 1..Len(ev) : i <= j => ev[i].pos <= ev[j].pos
SessionInv == SessionIn(wal, at, done, slot, events)

\* What NothingDropped says of a row.
Given(w, c, g, p, r) ==
  LET d == w[p].shapes[r]
      e == [op |-> w[p].op, table |-> d.table,
            new |-> Written(w[p].new, d), old |-> Written(w[p].old, d)]
  IN  Admits(c, e) => \A s \in SinkNames(c) :
        \/ <<p, r>> \in g[s]
        \/ IF s = OutboxSink THEN ~OutboxWants(c, d.table, e.op)
           ELSE LET sink == c.sinks[s]
                IN  \/ d.table = c.outbox \/ ~ShouldProcess(sink, d.table)
                    \/ EvalFilter(sink.global, e) = "false"
                    \/ EvalFilter(TableChain(sink, d.table),
                                  Rewrite(sink.global, e)) = "false"

\* A row that was decoded was given to the sinks or waits.
Waits(ev, p, r) == \E j \in 1..Len(ev) : ev[j].pos = p /\ ev[j].rel = r
CoverIn(w, c, g, a, ev) ==
  \A p \in 1..a - 1 : \A i \in 1..Len(w[p].rels) :
    Given(w, c, g, p, w[p].rels[i]) \/ Waits(ev, p, w[p].rels[i])
CoverInv == CoverIn(wal, cfg, got, at, events)

GotIn(w, c, g) == g \in [SinkNames(c) -> SUBSET ((1..Len(w)) \X Relations)]
GotInv == GotIn(wal, cfg, got)

\* CameStays: an event is that of its record, however long the WAL.
LEMMA CameStays ==
  ASSUME NEW v, NEW w, Longer(v, w), NEW e, Came(v, e)
  PROVE  Came(w, e)
<1>1. e.pos \in 1..Len(v) /\ e.pos \in 1..Len(w) /\ w[e.pos] = v[e.pos]
  <2>1. e.pos \in 1..Len(v) /\ w[e.pos] = v[e.pos]
    BY Zenon DEF Came, Longer
  <2> QED
    BY <2>1 DEF Longer
<1> QED
  BY Zenon, <1>1 DEF Came, Decoded

\* GivenStays: what was given stays given.
LEMMA GivenStays ==
  ASSUME NEW v, NEW w, Longer(v, w), NEW p \in 1..Len(v), NEW r, NEW c, NEW g, NEW h,
         \A s \in SinkNames(c) : g[s] \subseteq h[s], Given(v, c, g, p, r)
  PROVE  Given(w, c, h, p, r)
<1>1. w[p] = v[p]
  BY Zenon DEF Longer
<1> QED
  BY Zenon, <1>1 DEF Given

\* CoverStays: a longer WAL and more that was handed.
LEMMA CoverStays ==
  ASSUME NEW v, NEW w, Longer(v, w), NEW c, NEW g, NEW h, NEW a, NEW ev,
         a \in 1..Len(v) + 1,
         \A s \in SinkNames(c) : g[s] \subseteq h[s], CoverIn(v, c, g, a, ev)
  PROVE  CoverIn(w, c, h, a, ev)
<1>1. \A p \in 1..a - 1 : p \in 1..Len(v)
  BY DEF Longer
<1>2. \A p \in 1..a - 1 : w[p] = v[p]
  BY Zenon, <1>1 DEF Longer
<1> SUFFICES ASSUME NEW p \in 1..a - 1, NEW i \in 1..Len(w[p].rels)
             PROVE  Given(w, c, h, p, w[p].rels[i]) \/ Waits(ev, p, w[p].rels[i])
  BY Zenon DEF CoverIn
<1> DEFINE r == w[p].rels[i]
<1>3. Given(v, c, g, p, r) \/ Waits(ev, p, r)
  BY Zenon, <1>2 DEF CoverIn
<1>4. p \in 1..Len(v)
  BY Zenon, <1>1
<1> HIDE DEF r
<1>5. Given(v, c, g, p, r) => Given(w, c, h, p, r)
  BY Zenon, <1>4, GivenStays
<1> QED
  BY Zenon, <1>3, <1>5 DEF r

\* SessionStays: the same events over a longer WAL, also when the position that
\* is done is confirmed.
LEMMA SessionStays ==
  ASSUME NEW v, NEW w, Longer(v, w), NEW a, NEW dn, NEW sl, NEW ev, NEW sm \in {sl, dn},
         SessionIn(v, a, dn, sl, ev)
  PROVE  SessionIn(w, a, dn, sm, ev)
<1>1. a \in 1..Len(w) + 1 /\ dn \in 0..a - 1 /\ sm \in 0..dn
  BY DEF SessionIn, Longer
<1> QED
  BY Zenon, <1>1, CameStays DEF SessionIn

\* GotStays: positions stay positions.
LEMMA GotStays ==
  ASSUME NEW v, NEW w, Longer(v, w), NEW c, NEW g, GotIn(v, c, g)
  PROVE  GotIn(w, c, g)
<1>1. \A p \in 1..Len(v) : p \in 1..Len(w)
  BY DEF Longer
<1>2. (1..Len(v)) \X Relations \subseteq (1..Len(w)) \X Relations
  BY <1>1
<1> QED
  BY <1>2 DEF GotIn

\* SmallRewriteIs: RewriteIs, for what a filter sees of an event.
LEMMA SmallRewriteIs ==
  ASSUME NEW spec, NEW op, NEW t, NEW new, NEW old
  PROVE  LET m == Rewrite(spec, [op |-> op, table |-> t, new |-> new, old |-> old])
         IN  /\ m.op = op /\ m.table = t
             /\ m.new = Hide(spec, new) /\ m.old = Hide(spec, old)
BY DEF Rewrite

\* FilterSees: a filter sees the operation, the table and the rows.
LEMMA FilterSees ==
  ASSUME NEW spec, NEW e, NEW f, e.op = f.op, e.table = f.table, e.new = f.new, e.old = f.old
  PROVE  /\ EvalFilter(spec, e) = EvalFilter(spec, f)
         /\ EvalFilter(spec, e) \in {"true", "false", "error"}
BY Zenon DEF EvalFilter

\* Handled: an event that no sink fails on was handed to every sink, unless a
\* filter said no.
LEMMA Handled ==
  ASSUME NEW w, NEW p, NEW r, NEW c, NEW g, NEW h,
         LET e == Decoded(w, p, r)
         IN  /\ ~(Admits(c, e) /\ \E s \in SinkNames(c) : Route(c, s, e).verdict = "error")
             /\ \A s \in SinkNames(c) :
                  Admits(c, e) /\ Route(c, s, e).verdict = "keep" => <<p, r>> \in h[s]
  PROVE  Given(w, c, h, p, r)
<1> DEFINE d == w[p].shapes[r]
           op == w[p].op
           N == Written(w[p].new, d)
           O == Written(w[p].old, d)
           f == [op |-> op, table |-> d.table, new |-> N, old |-> O]
           e == Decoded(w, p, r)
           sink(s) == c.sinks[s]
           m(s) == Rewrite(sink(s).global, e)
           n(s) == Rewrite(sink(s).global, f)
           chain(s) == TableChain(sink(s), d.table)
           Free(s) == \/ d.table = c.outbox \/ ~ShouldProcess(sink(s), d.table)
                      \/ EvalFilter(sink(s).global, f) = "false"
                      \/ EvalFilter(chain(s), n(s)) = "false"
<1>1. /\ e.op = op /\ e.table = d.table /\ e.new = N /\ e.old = O /\ DOMAIN e = Fields
  <2> HIDE DEF N, O, d, op
  <2>1. e = [pos |-> p, rel |-> r, op |-> op, table |-> d.table, new |-> N, old |-> O,
             toast |-> UnchangedToast(w[p].new, d)]
    BY Zenon DEF Decoded, N, O, d, op
  <2> HIDE DEF e
  <2> QED
    BY <2>1 DEF Fields
<1>2. f.op = op /\ f.table = d.table /\ f.new = N /\ f.old = O
  OBVIOUS
<1>3. Admits(c, e) <=> Admits(c, f)
  <2> HIDE DEF e, f, d, N, O, op
  <2> QED
    BY Zenon, <1>1, <1>2 DEF Admits
<1>4. ASSUME Admits(c, e), NEW s \in SinkNames(c), s = OutboxSink, <<p, r>> \notin h[s]
      PROVE  ~OutboxWants(c, d.table, op)
  <2>1. Route(c, s, e).verdict # "keep"
    BY Zenon, <1>4
  <2>2. Route(c, s, e).verdict = IF OutboxWants(c, e.table, e.op) THEN "keep" ELSE "drop"
    <3> HIDE DEF e
    <3> QED
      BY <1>4 DEF Route
  <2> QED
    BY Zenon, <1>1, <2>1, <2>2
<1>5. ASSUME Admits(c, e), NEW s \in SinkNames(c), s # OutboxSink, <<p, r>> \notin h[s]
      PROVE  Free(s)
  <2>1. Route(c, s, e).verdict # "keep" /\ Route(c, s, e).verdict # "error"
    BY Zenon, <1>5
  <2> DEFINE out == TransformProcess(sink(s), e)
             gl == EvalFilter(sink(s).global, e)
             own == EvalFilter(chain(s), m(s))
  <2>2. \/ e.table = c.outbox
        \/ out.verdict = "keep" /\ ~ShouldProcess(sink(s), e.table)
        \/ Route(c, s, e) = out
    BY Zenon, <1>5 DEF Route
  <2>3. out.verdict = IF gl # "true" THEN Stop(gl) ELSE IF own # "true" THEN Stop(own) ELSE "keep"
    <3> DEFINE ow == EvalFilter(TableChain(sink(s), e.table), m(s))
    <3>1. ow = own
      BY Zenon, <1>1
    <3>2. out = [verdict |-> IF gl # "true" THEN Stop(gl)
                             ELSE IF ow # "true" THEN Stop(ow) ELSE "keep",
                 event |-> Rewrite(TableChain(sink(s), e.table), m(s))]
      BY Zenon DEF TransformProcess
    <3> HIDE DEF out, gl, ow, own
    <3> QED
      BY <3>1, <3>2
  <2>4. gl = EvalFilter(sink(s).global, f) /\ gl \in {"true", "false", "error"}
    <3> HIDE DEF e, f, N, O, d, op, sink
    <3>1. e.op = f.op /\ e.table = f.table /\ e.new = f.new /\ e.old = f.old
      BY Zenon, <1>1, <1>2
    <3> QED
      BY ZenonT(40), <3>1, FilterSees
  <2>5. own = EvalFilter(chain(s), n(s)) /\ own \in {"true", "false", "error"}
    <3>1. /\ m(s).op = e.op /\ m(s).table = e.table
          /\ m(s).new = Hide(sink(s).global, e.new) /\ m(s).old = Hide(sink(s).global, e.old)
      <4> HIDE DEF e
      <4> QED
        BY SMTT(30), <1>1, RewriteIs
    <3>2. /\ n(s).op = op /\ n(s).table = d.table
          /\ n(s).new = Hide(sink(s).global, N) /\ n(s).old = Hide(sink(s).global, O)
      <4> HIDE DEF N, O, d, op
      <4> QED
        BY SMTT(30), SmallRewriteIs
    <3> HIDE DEF e, f, N, O, d, op, m, n, chain
    <3> QED
      BY Zenon, <1>1, <3>1, <3>2, FilterSees
  <2> HIDE DEF out, gl, own, e, f, d, N, O, op, chain, n, sink
  <2>6. CASE Route(c, s, e) = out
    <3>1. out.verdict # "keep" /\ out.verdict # "error"
      BY Zenon, <2>1, <2>6
    <3>2. gl = "false" \/ own = "false"
      BY <2>3, <2>4, <2>5, <3>1 DEF Stop
    <3> QED
      BY Zenon, <2>4, <2>5, <3>2
  <2> QED
    BY Zenon, <1>1, <2>2, <2>6
<1> HIDE DEF e
<1>6. Admits(c, f) => \A s \in SinkNames(c) :
        \/ <<p, r>> \in h[s]
        \/ IF s = OutboxSink THEN ~OutboxWants(c, d.table, f.op) ELSE Free(s)
  <2> HIDE DEF f, Free, d
  <2> QED
    BY Zenon, <1>2, <1>3, <1>4, <1>5
<1> QED
  BY Zenon, <1>6 DEF Given

------------------------------------------------------------------------------
(* The steps of the session. *)

\* RowDecodes: once a table was described to the session, a row of it is decoded
\* by the description it was written under.
LEMMA RowDecodes ==
  ASSUME SourceInv, Following, at \in 1..Len(wal), NEW i \in 1..Len(wal[at].rels),
         told[wal[at].rels[i]] = wal[at].shapes[wal[at].rels[i]]
  PROVE  /\ NewEvent(at, wal[at], wal[at].rels[i]) = Decoded(wal, at, wal[at].rels[i])
         /\ Decoded(wal, at, wal[at].rels[i]) \in Event
<1> DEFINE rec == wal[at]
           r == rec.rels[i]
           d == rec.shapes[r]
<1>1. Sound(rec)
  BY Zenon DEF SourceInv, Source_
<1>2. /\ r \in Relations /\ d \in Descriptions /\ Tabular(d)
      /\ Fits(rec.new, d) /\ Fits(rec.old, d)
  BY Zenon, <1>1, SoundAt
<1>3. d # None
  BY Zenon, <1>2, CaptureAssumption DEF CaptureAssumption
<1>4. relations[r] = d
  BY Zenon, <1>2, <1>3 DEF Following
<1>5. /\ DecodeTuple(rec.new, d) = Written(rec.new, d)
      /\ DecodeTuple(rec.old, d) = Written(rec.old, d)
  BY Zenon, <1>2, Decodes
<1>6. at \in Nat
  <2>1. Len(wal) \in Nat
    BY Zenon, LengthOf DEF SourceInv, Source_
  <2> QED
    BY <2>1
<1>7. Decoded(wal, at, r) \in Event
  BY Zenon, <1>1, <1>6, DecodedIs
<1>8. NewEvent(at, rec, r) = Decoded(wal, at, r)
  BY Zenon, <1>4, <1>5 DEF NewEvent, Decoded
<1> QED
  BY Zenon, <1>7, <1>8

\* DecodedHas: position and table of a decoded row.
LEMMA DecodedHas ==
  ASSUME NEW w, NEW p, NEW r
  PROVE  Decoded(w, p, r).pos = p /\ Decoded(w, p, r).rel = r
BY DEF Decoded

\* RowKeeps: the events of a record follow those that wait.
LEMMA RowKeeps ==
  ASSUME NEW w, NEW c, NEW g, NEW a, NEW dn, NEW sl, NEW ev, NEW N,
         Len(w) \in Nat, SessionIn(w, a, dn, sl, ev), CoverIn(w, c, g, a, ev),
         a <= Len(w), w[a].rels \in Seq(Relations), N \in Seq(Event),
         Len(N) = Len(w[a].rels),
         \A i \in 1..Len(N) : N[i] = Decoded(w, a, w[a].rels[i])
  PROVE  SessionIn(w, a + 1, dn, sl, ev \o N) /\ CoverIn(w, c, g, a + 1, ev \o N)
<1> DEFINE m == Len(ev)
           n == Len(N)
           E == ev \o N
<1>1. /\ a \in 1..Len(w) + 1 /\ dn \in 0..a - 1 /\ sl \in 0..dn
      /\ ev \in Seq(Event) /\ m \in Nat /\ n \in Nat
  BY Zenon, LengthOf DEF SessionIn
<1>2. /\ E \in Seq(Event) /\ Len(E) = m + n
      /\ \A i \in 1..m : E[i] = ev[i]
      /\ \A i \in 1..n : E[m + i] = N[i]
  <2>1. ev \in Seq(Event) /\ N \in Seq(Event)
    BY Zenon, <1>1
  <2> QED
    BY ONLY <2>1, JoinOf
<1>3. \A k \in 1..m + n : k \in 1..m \/ \E i \in 1..n : k = m + i
  <2> SUFFICES ASSUME NEW k \in 1..m + n, k \notin 1..m PROVE \E i \in 1..n : k = m + i
    BY Zenon
  <2>1. k - m \in 1..n /\ k = m + (k - m)
    BY <1>1
  <2> QED
    BY Zenon, <2>1
<1>4. \A i \in 1..n : N[i].pos = a /\ N[i].rel = w[a].rels[i] /\ Came(w, N[i])
  <2> SUFFICES ASSUME NEW i \in 1..n
               PROVE  N[i].pos = a /\ N[i].rel = w[a].rels[i] /\ Came(w, N[i])
    BY Zenon
  <2>1. N[i] = Decoded(w, a, w[a].rels[i])
    BY Zenon
  <2>2. N[i].pos = a /\ N[i].rel = w[a].rels[i]
    <3> DEFINE r == w[a].rels[i]
    <3>1. N[i] = Decoded(w, a, r)
      BY Zenon, <2>1
    <3> HIDE DEF r
    <3>2. N[i].pos = a /\ N[i].rel = r
      BY SMTT(30), <3>1, DecodedHas
    <3> QED
      BY Zenon, <3>2 DEF r
  <2>3. a \in 1..Len(w)
    BY <1>1
  <2> QED
    BY Zenon, <2>1, <2>2, <2>3 DEF Came
<1> HIDE DEF m, n, E
<1>5. a + 1 \in 1..Len(w) + 1 /\ dn \in 0..(a + 1) - 1 /\ a \in dn + 1..(a + 1) - 1
  BY <1>1
<1>6. \A q \in dn + 1..a - 1 : q \in dn + 1..(a + 1) - 1 /\ q <= a
  BY <1>1
<1>7. ASSUME NEW k \in 1..Len(E)
      PROVE  Came(w, E[k]) /\ E[k].pos \in dn + 1..(a + 1) - 1 /\ E[k].pos <= a
             /\ (k \in 1..m \/ E[k].pos = a)
  <2>1. CASE k \in 1..m
    BY ZenonT(40), <1>2, <1>6, <2>1 DEF SessionIn, m
  <2>2. CASE \E i \in 1..n : k = m + i
    <3>1. a <= a
      BY <1>1
    <3> QED
      BY Zenon, <1>2, <1>4, <1>5, <2>2, <3>1
  <2> QED
    BY Zenon, <1>2, <1>3, <2>1, <2>2
<1>8. ASSUME NEW i \in 1..Len(E), NEW j \in 1..Len(E), i <= j
      PROVE  E[i].pos <= E[j].pos
  <2>1. CASE j \in 1..m
    <3>1. i \in 1..m
      BY <1>1, <1>2, <1>8, <2>1
    <3> QED
      BY Zenon, <1>2, <1>8, <2>1, <3>1 DEF SessionIn, m
  <2>2. CASE j \notin 1..m
    BY Zenon, <1>7, <2>2
  <2> QED
    BY Zenon, <2>1, <2>2
<1>9. SessionIn(w, a + 1, dn, sl, E)
  BY Zenon, <1>1, <1>2, <1>5, <1>7, <1>8 DEF SessionIn
<1>10. ASSUME NEW p \in 1..(a + 1) - 1, NEW i \in 1..Len(w[p].rels)
       PROVE  Given(w, c, g, p, w[p].rels[i]) \/ Waits(E, p, w[p].rels[i])
  <2>1. CASE p \in 1..a - 1
    <3>1. CASE Waits(ev, p, w[p].rels[i])
      <4>1. PICK j \in 1..m : ev[j].pos = p /\ ev[j].rel = w[p].rels[i]
        BY Zenon, <3>1 DEF Waits, m
      <4>2. j \in 1..Len(E) /\ E[j] = ev[j]
        BY <1>1, <1>2
      <4> QED
        BY Zenon, <4>1, <4>2 DEF Waits
    <3> QED
      BY Zenon, <2>1, <3>1 DEF CoverIn
  <2>2. CASE p = a
    <3>1. i \in 1..n /\ m + i \in 1..Len(E)
      BY <1>1, <1>2, <2>2 DEF n
    <3>2. E[m + i].pos = p /\ E[m + i].rel = w[p].rels[i]
      BY Zenon, <1>2, <1>4, <2>2, <3>1
    <3> QED
      BY Zenon, <3>1, <3>2 DEF Waits
  <2>3. p \in 1..a - 1 \/ p = a
    BY <1>1
  <2> QED
    BY Zenon, <2>1, <2>2, <2>3
<1> QED
  BY Zenon, <1>9, <1>10 DEF CoverIn, E

\* ResumeKeeps: a new session starts behind what was confirmed.
LEMMA ResumeKeeps ==
  ASSUME NEW w, NEW c, NEW g, NEW a, NEW dn, NEW sl, NEW ev,
         Len(w) \in Nat, SessionIn(w, a, dn, sl, ev), CoverIn(w, c, g, a, ev)
  PROVE  SessionIn(w, sl + 1, sl, sl, <<>>) /\ CoverIn(w, c, g, sl + 1, <<>>)
<1>1. a \in 1..Len(w) + 1 /\ dn \in 0..a - 1 /\ sl \in 0..dn
  BY Zenon DEF SessionIn
<1>2. sl + 1 \in 1..Len(w) + 1 /\ sl \in 0..(sl + 1) - 1 /\ sl \in 0..sl
  BY <1>1
<1>3. <<>> \in Seq(Event) /\ 1..Len(<<>>) = {}
  OBVIOUS
<1>4. SessionIn(w, sl + 1, sl, sl, <<>>)
  BY Zenon, <1>2, <1>3 DEF SessionIn
<1>5. ASSUME NEW p \in 1..(sl + 1) - 1, NEW r PROVE ~Waits(ev, p, r) /\ p \in 1..a - 1
  <2>1. p \in 1..a - 1 /\ p \notin dn + 1..a - 1
    BY <1>1
  <2> QED
    BY Zenon, <2>1 DEF Waits, SessionIn
<1>6. CoverIn(w, c, g, sl + 1, <<>>)
  BY Zenon, <1>5 DEF CoverIn
<1> QED
  BY Zenon, <1>4, <1>6

\* DeliverKeeps: the oldest event was given to the sinks, and its position is
\* done with its last event.
LEMMA DeliverKeeps ==
  ASSUME NEW w, NEW c, NEW g, NEW h, NEW a, NEW dn, NEW sl, NEW ev, NEW q,
         Len(w) \in Nat, SessionIn(w, a, dn, sl, ev), CoverIn(w, c, g, a, ev),
         ev # <<>>, \A s \in SinkNames(c) : g[s] \subseteq h[s],
         Given(w, c, h, ev[1].pos, ev[1].rel),
         q = IF Len(ev) > 1 /\ ev[2].pos = ev[1].pos THEN dn ELSE ev[1].pos
  PROVE  SessionIn(w, a, q, sl, Tail(ev)) /\ CoverIn(w, c, h, a, Tail(ev))
<1> DEFINE m == Len(ev)
           T == Tail(ev)
<1>1. /\ a \in 1..Len(w) + 1 /\ dn \in 0..a - 1 /\ sl \in 0..dn
      /\ ev \in Seq(Event) /\ m \in Nat
  BY Zenon, LengthOf DEF SessionIn
<1>2. m > 0 /\ 1 \in 1..m
  BY <1>1
<1>3. T \in Seq(Event) /\ Len(T) = m - 1 /\ \A k \in 1..m - 1 : T[k] = ev[k + 1]
  BY <1>1, <1>2
<1>4. \A i \in 1..m : Came(w, ev[i]) /\ ev[i].pos \in dn + 1..a - 1
  BY Zenon DEF SessionIn
<1>5. \A i, j \in 1..m : i <= j => ev[i].pos <= ev[j].pos
  BY Zenon DEF SessionIn
<1> HIDE DEF T, m
<1>6. q \in 0..a - 1 /\ sl \in 0..q
  <2>1. ev[1].pos \in dn + 1..a - 1
    BY Zenon, <1>2, <1>4
  <2> QED
    BY <1>1, <2>1
<1>7. ASSUME NEW k \in 1..m - 1
      PROVE  k + 1 \in 1..m /\ ev[k + 1].pos \in q + 1..a - 1
  <2>1. k + 1 \in 1..m /\ 2 \in 1..m /\ 1 <= 2 /\ 2 <= k + 1 /\ m > 1
    BY <1>1
  <2>2. /\ ev[1].pos \in dn + 1..a - 1 /\ ev[2].pos \in dn + 1..a - 1
        /\ ev[k + 1].pos \in dn + 1..a - 1
        /\ ev[1].pos <= ev[2].pos /\ ev[2].pos <= ev[k + 1].pos
    BY Zenon, <1>2, <1>4, <1>5, <2>1
  <2>3. q = IF ev[2].pos = ev[1].pos THEN dn ELSE ev[1].pos
    BY Zenon, <2>1 DEF m
  <2> DEFINE x == ev[1].pos
             y == ev[2].pos
             z == ev[k + 1].pos
  <2>4. /\ x \in dn + 1..a - 1 /\ y \in dn + 1..a - 1 /\ z \in dn + 1..a - 1
        /\ x <= y /\ y <= z /\ q = IF y = x THEN dn ELSE x
    BY Zenon, <2>2, <2>3
  <2> HIDE DEF x, y, z
  <2>5. z \in q + 1..a - 1
    BY <1>1, <2>4
  <2> QED
    BY Zenon, <2>1, <2>5 DEF z
<1>8. \A i \in 1..Len(T) : Came(w, T[i]) /\ T[i].pos \in q + 1..a - 1
  BY Zenon, <1>3, <1>4, <1>7
<1>9. ASSUME NEW i \in 1..Len(T), NEW j \in 1..Len(T), i <= j
      PROVE  T[i].pos <= T[j].pos
  <2>1. i + 1 \in 1..m /\ j + 1 \in 1..m /\ i + 1 <= j + 1
    BY <1>1, <1>3, <1>9
  <2> QED
    BY Zenon, <1>3, <1>5, <2>1
<1>10. SessionIn(w, a, q, sl, T)
  BY Zenon, <1>1, <1>3, <1>6, <1>8, <1>9 DEF SessionIn
<1>11. ASSUME NEW p \in 1..a - 1, NEW i \in 1..Len(w[p].rels)
       PROVE  Given(w, c, h, p, w[p].rels[i]) \/ Waits(T, p, w[p].rels[i])
  <2> DEFINE r == w[p].rels[i]
  <2>1. Given(w, c, g, p, r) \/ Waits(ev, p, r)
    BY Zenon DEF CoverIn
  <2> HIDE DEF r
  <2>2. CASE Given(w, c, g, p, r)
    <3>1. Longer(w, w) /\ p \in 1..Len(w)
      BY <1>1 DEF Longer
    <3>2. Given(w, c, h, p, r)
      BY Zenon, <2>2, <3>1, GivenStays
    <3> QED
      BY Zenon, <3>2 DEF r
  <2>3. CASE Waits(ev, p, r)
    <3>1. PICK j \in 1..m : ev[j].pos = p /\ ev[j].rel = r
      BY Zenon, <2>3 DEF Waits, m
    <3>2. CASE j = 1
      BY Zenon, <3>1, <3>2 DEF r
    <3>3. CASE j # 1
      <4>1. j - 1 \in 1..m - 1 /\ (j - 1) + 1 = j
        BY <1>1, <3>3
      <4>2. j - 1 \in 1..Len(T) /\ T[j - 1] = ev[j]
        BY Zenon, <1>3, <4>1
      <4> QED
        BY Zenon, <3>1, <4>2 DEF Waits, r
    <3> QED
      BY Zenon, <3>2, <3>3
  <2> QED
    BY Zenon, <2>1, <2>2, <2>3
<1> QED
  BY Zenon, <1>10, <1>11 DEF CoverIn, T

\* SessionDoes: what a step does to the session.
LEMMA SessionDoes ==
  ASSUME [Next]_vars
  PROVE  /\ cfg' = cfg
         /\ \/ UNCHANGED <<at, done, events, got>> /\ slot' \in {slot, done}
            \/ /\ UNCHANGED <<wal, done, got, slot>> /\ at <= Len(wal) /\ Row
               /\ \A i \in 1..Len(wal[at].rels) :
                    told[wal[at].rels[i]] = wal[at].shapes[wal[at].rels[i]]
            \/ Deliver
            \/ /\ UNCHANGED <<wal, got, slot>>
               /\ at' = slot + 1 /\ done' = slot /\ events' = <<>>
<1>1. CASE UNCHANGED vars
  BY Zenon, <1>1 DEF vars, captureVars, decoderVars
<1>2. CASE (Alter \/ Write) /\ UNCHANGED captureVars
  BY Zenon, <1>2 DEF Alter, Write, captureVars, decoderVars
<1>3. CASE Receive /\ UNCHANGED captureVars
  BY Zenon, <1>3 DEF Receive, captureVars, Describe, Row, sourceVars
<1>4. CASE Deliver
  BY Zenon, <1>4 DEF Deliver
<1>5. CASE Confirm
  BY Zenon, <1>5 DEF Confirm, decoderVars
<1>6. CASE Disconnects \/ Crashes
  BY Zenon, <1>6 DEF Disconnects, Crashes, Ends, Reconnect, Restart, Resume, sourceVars
<1> QED
  BY Zenon, <1>1, <1>2, <1>3, <1>4, <1>5, <1>6 DEF Next

------------------------------------------------------------------------------
(* The inductive invariant. *)

HistoryInv == Len(history) <= HistoryCapacity /\ \E S : history \in Seq(S)

CaptureInv ==
  /\ SourceInv /\ SessionInv /\ CoverInv /\ GotInv
  /\ Shaped /\ Following /\ HistoryInv /\ faults \in 0..MaxFaults

Session_ == SessionInv /\ CoverInv /\ GotInv

\* SessionPrimed: the session, after a step.
LEMMA SessionPrimed ==
  Session_' <=> /\ SessionIn(wal', at', done', slot', events')
                /\ CoverIn(wal', cfg', got', at', events')
                /\ GotIn(wal', cfg', got')
BY Zenon DEF Session_, SessionInv, CoverInv, GotInv

\* RowStep: a row message.
LEMMA RowStep ==
  ASSUME SourceInv, Following, Session_, at <= Len(wal), Row,
         UNCHANGED <<wal, done, got, slot, cfg>>,
         \A i \in 1..Len(wal[at].rels) :
           told[wal[at].rels[i]] = wal[at].shapes[wal[at].rels[i]]
  PROVE  Session_'
<1> DEFINE rec == wal[at]
           n == Len(rec.rels)
           N == [i \in 1..n |-> NewEvent(at, rec, rec.rels[i])]
<1>1. Len(wal) \in Nat /\ at \in 1..Len(wal)
  <2>1. Len(wal) \in Nat /\ at \in 1..Len(wal) + 1
    BY Zenon, LengthOf DEF SourceInv, Source_, Session_, SessionInv, SessionIn
  <2> QED
    BY <2>1
<1>2. Sound(rec)
  BY Zenon, <1>1 DEF SourceInv, Source_
<1>3. rec.rels \in Seq(Relations)
  BY <1>2 DEF Sound, Records
<1>4. n \in Nat
  BY Zenon, <1>3, LengthOf
<1>5. \A i \in 1..n : /\ NewEvent(at, rec, rec.rels[i]) = Decoded(wal, at, rec.rels[i])
                      /\ Decoded(wal, at, rec.rels[i]) \in Event
  BY Zenon, <1>1, RowDecodes
<1>6. N \in [1..n -> Event] /\ \A i \in 1..n : N[i] = Decoded(wal, at, rec.rels[i])
  BY Zenon, <1>5
<1>7. events' = events \o N /\ at' = at + 1
  BY Zenon DEF Row
<1> HIDE DEF N
<1>8. N \in Seq(Event) /\ Len(N) = n
  <2> HIDE DEF n
  <2> QED
    BY <1>4, <1>6
<1>9. /\ SessionIn(wal, at + 1, done, slot, events \o N)
      /\ CoverIn(wal, cfg, got, at + 1, events \o N)
  BY Zenon, <1>1, <1>3, <1>6, <1>8, RowKeeps DEF Session_, SessionInv, CoverInv
<1> QED
  BY Zenon, <1>7, <1>9, SessionPrimed DEF Session_, GotInv

\* DeliverStep: the handler with the oldest event.
LEMMA DeliverStep ==
  ASSUME SourceInv, Session_, Deliver
  PROVE  Session_'
<1> DEFINE e == Head(events)
<1>1. Len(wal) \in Nat
  BY Zenon, LengthOf DEF SourceInv, Source_
<1>2. SessionIn(wal, at, done, slot, events) /\ CoverIn(wal, cfg, got, at, events)
      /\ GotIn(wal, cfg, got)
  BY Zenon DEF Session_, SessionInv, CoverInv, GotInv
<1>3. events \in Seq(Event) /\ events # <<>>
  BY Zenon, <1>2 DEF SessionIn, Deliver
<1>4. e = events[1] /\ 1 \in 1..Len(events)
  BY <1>3
<1>5. Came(wal, e) /\ e \in Event
  BY Zenon, <1>2, <1>3, <1>4, ElementOf DEF SessionIn
<1>6. e.pos \in 1..Len(wal) /\ e = Decoded(wal, e.pos, e.rel)
  <2>1. e.pos \in 1..Len(wal)
    BY Zenon, <1>5 DEF Came
  <2>2. PICK j : e = Decoded(wal, e.pos, wal[e.pos].rels[j])
    BY Zenon, <1>5 DEF Came
  <2> HIDE DEF e
  <2>3. e.rel = wal[e.pos].rels[j]
    BY SMTT(30), <2>2, DecodedHas
  <2> QED
    BY Zenon, <2>1, <2>2, <2>3
<1>7. e.rel \in Relations
  <2> HIDE DEF e
  <2> QED
    BY <1>5 DEF Event
<1>8. /\ got' = [s \in SinkNames(cfg) |->
                   IF Admits(cfg, e) /\ s \in Keeps(e)
                   THEN got[s] \cup {<<e.pos, e.rel>>} ELSE got[s]]
      /\ wal' = wal /\ cfg' = cfg /\ slot' = slot
      /\ \/ /\ ~(Admits(cfg, e) /\ Fails(e)) /\ at' = at
            /\ events' = Tail(events) /\ Moves(e)
         \/ at' = slot + 1 /\ done' = slot /\ events' = <<>>
  BY Zenon DEF Deliver, Reconnect, Resume, sourceVars
<1> HIDE DEF e
<1>9. \A s \in SinkNames(cfg) : got[s] \subseteq got'[s]
  BY Zenon, <1>8
<1>10. GotIn(wal, cfg, got')
  <2>1. <<e.pos, e.rel>> \in (1..Len(wal)) \X Relations
    BY <1>6, <1>7
  <2> DEFINE P == (1..Len(wal)) \X Relations
  <2>2. \A s \in SinkNames(cfg) : got[s] \in SUBSET P
    BY Zenon, <1>2 DEF GotIn
  <2> HIDE DEF P
  <2>3. got' \in [SinkNames(cfg) -> SUBSET P]
    BY Zenon, <1>8, <2>1, <2>2 DEF P
  <2> QED
    BY Zenon, <2>3 DEF GotIn, P
<1>11. CASE /\ ~(Admits(cfg, e) /\ Fails(e)) /\ at' = at
            /\ events' = Tail(events) /\ Moves(e)
  <2>1. done' = IF Len(events) > 1 /\ events[2].pos = events[1].pos THEN done ELSE events[1].pos
    BY Zenon, <1>4, <1>11 DEF Moves
  <2>2. \A s \in SinkNames(cfg) :
          Admits(cfg, e) /\ Route(cfg, s, e).verdict = "keep" => <<e.pos, e.rel>> \in got'[s]
    BY Zenon, <1>8 DEF Keeps
  <2>3. ~(Admits(cfg, e) /\ \E s \in SinkNames(cfg) : Route(cfg, s, e).verdict = "error")
    BY Zenon, <1>11 DEF Fails
  <2>4. Given(wal, cfg, got', e.pos, e.rel)
    BY Zenon, <1>6, <2>2, <2>3, Handled
  <2>5. SessionIn(wal, at, done', slot, Tail(events)) /\ CoverIn(wal, cfg, got', at, Tail(events))
    BY Zenon, <1>1, <1>2, <1>3, <1>4, <1>9, <2>1, <2>4, DeliverKeeps
  <2> QED
    BY Zenon, <1>8, <1>10, <1>11, <2>5, SessionPrimed
<1>12. CASE at' = slot + 1 /\ done' = slot /\ events' = <<>>
  <2>1. Longer(wal, wal) /\ at \in 1..Len(wal) + 1
    BY <1>1, <1>2 DEF Longer, SessionIn
  <2>2. CoverIn(wal, cfg, got', at, events)
    BY Zenon, <1>2, <1>9, <2>1, CoverStays
  <2>3. SessionIn(wal, slot + 1, slot, slot, <<>>) /\ CoverIn(wal, cfg, got', slot + 1, <<>>)
    BY Zenon, <1>1, <1>2, <2>2, ResumeKeeps
  <2> QED
    BY Zenon, <1>8, <1>10, <1>12, <2>3, SessionPrimed
<1> QED
  BY Zenon, <1>8, <1>11, <1>12

\* SessionStep: every step keeps the session in order.
LEMMA SessionStep ==
  ASSUME SourceInv, Following, Session_, [Next]_vars
  PROVE  Session_'
<1>1. Longer(wal, wal') /\ Len(wal) \in Nat
  BY Zenon, SourceStep DEF Longer
<1>2. /\ SessionIn(wal, at, done, slot, events) /\ CoverIn(wal, cfg, got, at, events)
      /\ GotIn(wal, cfg, got) /\ at \in 1..Len(wal) + 1
  BY Zenon DEF Session_, SessionInv, CoverInv, GotInv, SessionIn
<1>3. cfg' = cfg
  BY Zenon, SessionDoes
<1>4. CASE UNCHANGED <<at, done, events, got>> /\ slot' \in {slot, done}
  <2>1. SessionIn(wal', at, done, slot', events)
    BY Zenon, <1>1, <1>2, <1>4, SessionStays
  <2>2. CoverIn(wal', cfg, got, at, events)
    BY Zenon, <1>1, <1>2, CoverStays
  <2>3. GotIn(wal', cfg, got)
    BY Zenon, <1>1, <1>2, GotStays
  <2> QED
    BY Zenon, <1>3, <1>4, <2>1, <2>2, <2>3, SessionPrimed
<1>5. CASE /\ UNCHANGED <<wal, done, got, slot>> /\ at <= Len(wal) /\ Row
           /\ \A i \in 1..Len(wal[at].rels) :
                told[wal[at].rels[i]] = wal[at].shapes[wal[at].rels[i]]
  BY Zenon, <1>3, <1>5, RowStep
<1>6. CASE Deliver
  BY Zenon, <1>6, DeliverStep
<1>7. CASE /\ UNCHANGED <<wal, got, slot>>
           /\ at' = slot + 1 /\ done' = slot /\ events' = <<>>
  <2>1. SessionIn(wal, slot + 1, slot, slot, <<>>) /\ CoverIn(wal, cfg, got, slot + 1, <<>>)
    BY Zenon, <1>1, <1>2, ResumeKeeps
  <2> QED
    BY Zenon, <1>2, <1>3, <1>7, <2>1, SessionPrimed
<1> QED
  BY Zenon, <1>4, <1>5, <1>6, <1>7, SessionDoes

\* Trimmed: the recorder keeps the last changes.
LEMMA Trimmed ==
  ASSUME HistoryInv, NEW change
  PROVE  /\ Len(Recorded(change)) <= HistoryCapacity
         /\ \E S : Recorded(change) \in Seq(S)
<1>1. PICK S : history \in Seq(S)
  BY Zenon DEF HistoryInv
<1> DEFINE T == S \cup {change}
           all == Append(history, change)
           n == Len(all)
           m == IF n > HistoryCapacity THEN HistoryCapacity ELSE n
<1>2. history \in Seq(T)
  BY <1>1
<1>3. all \in Seq(T) /\ n \in Nat
  BY Zenon, <1>2, AppendOf, LengthOf
<1>4. HistoryCapacity \in Nat
  BY Zenon, CaptureAssumption DEF CaptureAssumption
<1> HIDE DEF all, n, T
<1>5. m \in Nat /\ m <= n /\ m <= HistoryCapacity
  BY <1>3, <1>4
<1>6. Recorded(change) = SubSeq(all, n - m + 1, n)
  BY Zenon DEF Recorded, all, n
<1> HIDE DEF m
<1>7. m \in 0..n
  BY <1>3, <1>5
<1>8. SubSeq(all, n - m + 1, n) \in Seq(T) /\ Len(SubSeq(all, n - m + 1, n)) = m
  BY Zenon, <1>3, <1>7, PartOf DEF n
<1> QED
  BY Zenon, <1>5, <1>6, <1>8

\* HistoryStep: every step keeps the history within its capacity.
LEMMA HistoryStep ==
  ASSUME HistoryInv, [Next]_vars
  PROVE  HistoryInv'
<1>1. CASE history' = history
  BY Zenon, <1>1 DEF HistoryInv
<1>2. CASE history' = <<>>
  <2>1. Len(<<>>) <= HistoryCapacity /\ <<>> \in Seq({})
    BY CaptureAssumption DEF CaptureAssumption
  <2> QED
    BY Zenon, <1>2, <2>1 DEF HistoryInv
<1>3. CASE \E change : history' = Recorded(change)
  BY Zenon, <1>3, Trimmed DEF HistoryInv
<1>4. \/ history' = history \/ history' = <<>> \/ \E change : history' = Recorded(change)
  BY Zenon DEF Next, vars, decoderVars, sourceVars, captureVars, Alter, Write, Receive,
         Describe, Row, Deliver, Confirm, Disconnects, Crashes, Ends, Reconnect,
         Restart, Resume
<1> QED
  BY Zenon, <1>1, <1>2, <1>3, <1>4

\* FaultsStep: faults are counted.
LEMMA FaultsStep ==
  ASSUME faults \in 0..MaxFaults, [Next]_vars
  PROVE  faults' \in 0..MaxFaults
<1>1. faults' = faults \/ (faults < MaxFaults /\ faults' = faults + 1)
  BY Zenon DEF Next, vars, captureVars, Deliver, Confirm, Disconnects, Crashes, Ends
<1>2. MaxFaults \in Nat
  BY Zenon, CaptureAssumption DEF CaptureAssumption
<1> QED
  BY <1>1, <1>2

\* InvInit: the invariant holds at first.
LEMMA InvInit ==
  ASSUME Init
  PROVE  CaptureInv
<1>1. /\ shape = Source /\ wal = <<>> /\ at = 1 /\ history = <<>> /\ events = <<>>
      /\ slot = 0 /\ done = 0 /\ got = [s \in SinkNames(cfg) |-> {}] /\ faults = 0
  BY Zenon DEF Init, DecoderInit
<1>2. 1..Len(<<>>) = {} /\ Len(<<>>) = 0
  OBVIOUS
<1>3. Source_(shape, <<>>)
  <2>1. <<>> \in Seq(Records)
    OBVIOUS
  <2> QED
    BY Zenon, <1>1, <1>2, <2>1, CaptureAssumption DEF CaptureAssumption, Source_, Relations
<1>4. SessionIn(<<>>, 1, 0, 0, <<>>)
  <2>1. <<>> \in Seq(Event) /\ 1 \in 1..Len(<<>>) + 1 /\ 0 \in 0..1 - 1 /\ 0 \in 0..0
    OBVIOUS
  <2> QED
    BY Zenon, <1>2, <2>1 DEF SessionIn
<1>5. CoverIn(<<>>, cfg, got, 1, <<>>)
  <2>1. 1..1 - 1 = {}
    OBVIOUS
  <2> QED
    BY Zenon, <2>1 DEF CoverIn
<1>6. GotIn(<<>>, cfg, got)
  BY Zenon, <1>1 DEF GotIn
<1>7. Shaped /\ Following
  BY DEF Init, DecoderInit, Shaped, Following
<1>8. HistoryInv /\ faults \in 0..MaxFaults
  <2>1. Len(<<>>) <= HistoryCapacity /\ <<>> \in Seq({}) /\ 0 \in 0..MaxFaults
    BY CaptureAssumption DEF CaptureAssumption
  <2> QED
    BY Zenon, <1>1, <2>1 DEF HistoryInv
<1> QED
  BY Zenon, <1>1, <1>3, <1>4, <1>5, <1>6, <1>7, <1>8
     DEF CaptureInv, SourceInv, SessionInv, CoverInv, GotInv

\* InvStep: every step keeps the invariant.
LEMMA InvStep ==
  ASSUME CaptureInv, [Next]_vars
  PROVE  CaptureInv'
<1>1. /\ SourceInv /\ Session_ /\ Shaped /\ Following /\ HistoryInv
      /\ faults \in 0..MaxFaults
  BY Zenon DEF CaptureInv, Session_
<1>2. SourceInv'
  BY Zenon, <1>1, SourceStep
<1>3. Session_'
  BY Zenon, <1>1, SessionStep
<1>4. Shaped' /\ Following'
  BY Zenon, <1>1, FollowingHolds
<1>5. HistoryInv' /\ faults' \in 0..MaxFaults
  BY Zenon, <1>1, HistoryStep, FaultsStep
<1> QED
  BY Zenon, <1>2, <1>3, <1>4, <1>5 DEF CaptureInv, Session_

\* InvTyped: the invariant types the state.
LEMMA InvTyped == CaptureInv => TypeOK
<1> SUFFICES ASSUME CaptureInv PROVE TypeOK
  BY Zenon
<1>1. /\ at \in 1..Len(wal) + 1 /\ done \in 0..at - 1 /\ slot \in 0..done
      /\ events \in Seq(Event) /\ Len(events) \in Nat
      /\ \A i \in 1..Len(events) : events[i].pos \in done + 1..at - 1
      /\ \A i, j \in 1..Len(events) : i <= j => events[i].pos <= events[j].pos
  BY Zenon, LengthOf DEF CaptureInv, SessionInv, SessionIn
<1>2. ASSUME NEW i \in 1..Len(events)
      PROVE  events[i].table \in Tables /\ events[i].new \in Rows /\ events[i].old \in Rows
  <2>1. events[i] \in Event
    BY Zenon, <1>1, ElementOf
  <2> QED
    BY <2>1 DEF Event
<1>3. ASSUME NEW i \in 1..Len(events), NEW j \in 1..i
      PROVE  events[j].pos <= events[i].pos
  <2>1. j \in 1..Len(events) /\ j <= i
    BY <1>1
  <2> QED
    BY Zenon, <1>1, <2>1
<1>4. \A r \in Relations : told[r] # None => relations[r] # None
  BY Zenon DEF CaptureInv, Following
<1>5. \A s \in SinkNames(cfg) : got[s] \subseteq (1..Len(wal)) \X Relations
  <2> DEFINE P == (1..Len(wal)) \X Relations
  <2>1. got \in [SinkNames(cfg) -> SUBSET P]
    BY Zenon DEF CaptureInv, GotInv, GotIn
  <2> HIDE DEF P
  <2>2. \A s \in SinkNames(cfg) : got[s] \subseteq P
    BY Zenon, <2>1
  <2> QED
    BY Zenon, <2>2 DEF P
<1>6. Len(history) <= HistoryCapacity /\ faults \in 0..MaxFaults
  BY Zenon DEF CaptureInv, HistoryInv
<1> QED
  BY Zenon, <1>1, <1>2, <1>3, <1>4, <1>5, <1>6 DEF TypeOK

\* InvHanded: the invariant says what leaves the layers.
LEMMA InvHanded == CaptureInv => HandedAsWritten
<1> SUFFICES ASSUME CaptureInv, NEW i \in 1..Len(events), NEW s \in Keeps(events[i])
             PROVE  LET e == Route(cfg, s, events[i]).event
                        d == wal[e.pos].shapes[e.rel]
                    IN  /\ e.table = d.table
                        /\ e.toast = IF e.op \in {"insert", "update"}
                                     THEN ColumnNames(d) \ DOMAIN Written(wal[e.pos].new, d)
                                     ELSE {}
                        /\ FaithfulRow(Specs(s, e.table), e.new, Written(wal[e.pos].new, d))
                        /\ FaithfulRow(Specs(s, e.table), e.old, Written(wal[e.pos].old, d))
  BY Zenon DEF HandedAsWritten
<1> DEFINE p == events[i].pos
<1>1. Came(wal, events[i])
  BY Zenon DEF CaptureInv, SessionInv, SessionIn
<1>2. p \in 1..Len(wal)
  BY Zenon, <1>1 DEF Came
<1>3. PICK j \in 1..Len(wal[p].rels) : events[i] = Decoded(wal, p, wal[p].rels[j])
  BY Zenon, <1>1 DEF Came
<1>4. Sound(wal[p])
  BY Zenon, <1>2 DEF CaptureInv, SourceInv, Source_
<1>5. Route(cfg, s, events[i]).verdict = "keep"
  BY Zenon DEF Keeps
<1> DEFINE r == wal[p].rels[j]
           d == wal[p].shapes[r]
           e == Route(cfg, s, Decoded(wal, p, r)).event
<1>6. /\ e.pos = p /\ e.rel = r /\ e.table = d.table
      /\ e.toast = IF e.op \in {"insert", "update"}
                   THEN ColumnNames(d) \ DOMAIN Written(wal[p].new, d) ELSE {}
      /\ FaithfulRow(Specs(s, e.table), e.new, Written(wal[p].new, d))
      /\ FaithfulRow(Specs(s, e.table), e.old, Written(wal[p].old, d))
  <2> HIDE DEF p
  <2>1. Route(cfg, s, Decoded(wal, p, wal[p].rels[j])).verdict = "keep"
    BY Zenon, <1>3, <1>5
  <2> QED
    BY ONLY Zenon, <1>3, <1>4, <2>1, LeavesAsWritten
<1>7. Route(cfg, s, events[i]).event = e
  BY Zenon, <1>3
<1> HIDE DEF e, p
<1> QED
  BY Zenon, <1>6, <1>7

\* InvDelivered: the invariant says what is behind a confirmed position.
LEMMA InvDelivered == CaptureInv => NothingDropped
<1> SUFFICES ASSUME CaptureInv, NEW p \in 1..slot, NEW i \in 1..Len(wal[p].rels)
             PROVE  Given(wal, cfg, got, p, wal[p].rels[i])
  BY Zenon DEF NothingDropped, Given
<1>1. /\ at \in 1..Len(wal) + 1 /\ done \in 0..at - 1 /\ slot \in 0..done
      /\ \A j \in 1..Len(events) : events[j].pos \in done + 1..at - 1
  BY Zenon DEF CaptureInv, SessionInv, SessionIn
<1>2. Len(wal) \in Nat
  BY Zenon, LengthOf DEF CaptureInv, SourceInv, Source_
<1>3. p \in 1..at - 1 /\ p \notin done + 1..at - 1
  BY <1>1, <1>2
<1>4. ~Waits(events, p, wal[p].rels[i])
  BY Zenon, <1>1, <1>3 DEF Waits
<1> QED
  BY Zenon, <1>3, <1>4 DEF CaptureInv, CoverInv, CoverIn

\* CaptureInvariance: the invariant holds on every behaviour.
THEOREM CaptureInvariance == Spec => []CaptureInv
<1>1. Init => CaptureInv
  BY Zenon, InvInit
<1>2. CaptureInv /\ [Next]_vars => CaptureInv'
  BY Zenon, InvStep
<1> QED
  BY <1>1, <1>2, PTL DEF Spec

\* CaptureTyped: on every behaviour the state of the capture has its types: the
\* confirmed position is behind the delivered one and that behind the decoded
\* one, the events between them are in order, and the history of schema changes
\* is within its capacity.
THEOREM CaptureTyped == Spec => []TypeOK
BY CaptureInvariance, InvTyped, PTL

\* Handed: on every behaviour, under every configuration, a sink is handed the
\* row as it was written, with the columns dropped and masked that the
\* configuration says.
THEOREM Handed == Spec => []HandedAsWritten
BY CaptureInvariance, InvHanded, PTL

\* Delivered: on every behaviour, under every configuration, what is behind a
\* confirmed position was handed to every sink that takes it.
THEOREM Delivered == Spec => []NothingDropped
BY CaptureInvariance, InvDelivered, PTL
==============================================================================
