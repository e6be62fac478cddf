------------------------------- MODULE Capture -------------------------------
(***************************************************************************)
(* From the WAL to the sinks' own code: the decoder and the routing under  *)
(* a configuration of the sinks.  The reader between them is seen through  *)
(* its contract (AtLeastOnce): events are delivered in order, a position   *)
(* is confirmed once its events were processed, an error ends the session, *)
(* and a session starts behind the confirmed position.  Decoding runs      *)
(* ahead of delivery.  A sink accepts what it is handed.                   *)
(***************************************************************************)
EXTENDS Decoder, Routing

CONSTANTS
  Configurations,  \* configurations of the sinks
  MaxFaults        \* bound: lost connections and crashes

Descriptions ==
  [table : Tables, cols : Seq([name : Columns, type : Types]),
   pk : SUBSET Columns, ident : {"d", "f"}]

\* The columns of a table have names of their own.
Tabular(d) ==
  \A i, j \in 1..Len(d.cols) : d.cols[i].name = d.cols[j].name => i = j

ASSUME CaptureAssumption ==
  /\ Source \in [Relations -> Descriptions] /\ Cardinality(Relations) \in Nat
  /\ \A r \in Relations : Tabular(Source[r])
  /\ None \notin Descriptions
  /\ HistoryCapacity \in Nat /\ MaxFaults \in Nat
  /\ Names \subseteq Tables /\ Alterable \subseteq Columns
  /\ \A c \in Columns, type \in Types : <<c, type>> \in Values
  /\ \A c \in Configurations : c.outbox \in Tables \cup {NoTable}
  /\ \A c \in Configurations : \A s \in DOMAIN c.sinks :
       /\ c.sinks[s].global.filter \in Filters \cup {NoFilter}
       /\ \A n \in DOMAIN c.sinks[s].tables :
            c.sinks[s].tables[n].spec.filter \in Filters \cup {NoFilter}

VARIABLES
  cfg,     \* the configuration (fixed)
  slot,    \* confirmed position
  done,    \* position delivered in this session
  got,     \* history: what each sink was handed, as position and relation
  faults

captureVars == <<cfg, slot, done, got, faults>>
vars == <<sourceVars, decoderVars, captureVars>>

TypeOK ==
  /\ slot \in 0..done /\ done \in 0..at - 1 /\ at \in 1..Len(wal) + 1
  /\ Len(history) <= HistoryCapacity
  /\ \A i \in 1..Len(events) :
       /\ events[i].pos \in done + 1..at - 1
       /\ events[i].table \in Tables
       /\ events[i].new \in Rows /\ events[i].old \in Rows
       /\ \A j \in 1..i : events[j].pos <= events[i].pos
  /\ \A r \in Relations : told[r] # None => relations[r] # None
  /\ \A s \in SinkNames(cfg) : got[s] \subseteq (1..Len(wal)) \X Relations
  /\ faults \in 0..MaxFaults

Init ==
  /\ DecoderInit
  /\ cfg \in Configurations
  /\ slot = 0 /\ done = 0
  /\ got = [s \in SinkNames(cfg) |-> {}] /\ faults = 0

\* The service's handler with the oldest event: admit, then every sink.
Keeps(e) == {s \in SinkNames(cfg) : Route(cfg, s, e).verdict = "keep"}
Fails(e) == \E s \in SinkNames(cfg) : Route(cfg, s, e).verdict = "error"

\* The position is done with its last event.
Moves(e) ==
  done' = IF Len(events) > 1 /\ events[2].pos = e.pos THEN done ELSE e.pos

Deliver ==
  /\ events # <<>>
  /\ LET e == Head(events)
     IN
     /\ got' = [s \in SinkNames(cfg) |->
                  IF Admits(cfg, e) /\ s \in Keeps(e)
                  THEN got[s] \cup {<<e.pos, e.rel>>} ELSE got[s]]
     /\ \/ /\ ~(Admits(cfg, e) /\ Fails(e))
           /\ events' = Tail(events) /\ Moves(e)
           /\ UNCHANGED <<sourceVars, at, told, relations, history, known>>
        \/ /\ Admits(cfg, e) /\ Fails(e)
           /\ Reconnect(slot + 1) /\ done' = slot
  /\ UNCHANGED <<cfg, slot, faults>>

Confirm ==
  /\ slot < done /\ slot' = done
  /\ UNCHANGED <<sourceVars, decoderVars, cfg, done, got, faults>>

Ends ==
  /\ faults < MaxFaults /\ faults' = faults + 1
  /\ done' = slot
  /\ UNCHANGED <<cfg, slot, got>>
Disconnects == Ends /\ Reconnect(slot + 1)
Crashes     == Ends /\ Restart(slot + 1)

Next ==
  \/ (Alter \/ Write \/ Receive) /\ UNCHANGED captureVars
  \/ Deliver \/ Confirm \/ Disconnects \/ Crashes

Spec == Init /\ [][Next]_vars

------------------------------------------------------------------------------
\* The row a record wrote for a relation, by the description it was written
\* under.
Written(tuple, d) ==
  [c \in {d.cols[i].name : i \in {j \in 1..Len(tuple) : tuple[j].kind # "toast"}} |->
     IF \E i \in 1..Len(tuple) : d.cols[i].name = c /\ tuple[i].kind = "null"
     THEN Null ELSE <<c, TypeOf(d, c)>>]

\* The configuration's entries for a table in a mirroring sink.
Specs(s, t) ==
  IF s = OutboxSink THEN {}
  ELSE {cfg.sinks[s].global, TableChain(cfg.sinks[s], t)}

\* A row that left, against the one that was written: a dropped column is
\* gone, a masked one is masked or null, every other one is as written.
FaithfulRow(specs, left, written) ==
  /\ \A c \in DOMAIN written :
       c \in DOMAIN left <=> \A spec \in specs : c \notin spec.drop
  /\ DOMAIN left \subseteq DOMAIN written
  /\ \A c \in DOMAIN left :
       IF \E spec \in specs : c \in spec.mask
       THEN left[c] = IF written[c] = Null THEN Null ELSE Masked
       ELSE left[c] = written[c]

\* HandedAsWritten: what a sink is handed is the row as it was written, value
\* by value and type by type, across DDL, reconnects that go back to older
\* descriptions and restarts; columns left out as unchanged are named; and no
\* dropped or masked column leaves in clear, neither in the new row nor in the
\* old one (decodeTuple, Chain.Apply).
HandedAsWritten ==
  \A i \in 1..Len(events) : \A s \in Keeps(events[i]) :
    LET e == Route(cfg, s, events[i]).event
        d == wal[e.pos].shapes[e.rel]
    IN  /\ e.table = d.table
        /\ e.toast = IF e.op \in {"insert", "update"}
                     THEN ColumnNames(d) \ DOMAIN Written(wal[e.pos].new, d)
                     ELSE {}
        /\ FaithfulRow(Specs(s, e.table), e.new, Written(wal[e.pos].new, d))
        /\ FaithfulRow(Specs(s, e.table), e.old, Written(wal[e.pos].old, d))

\* ReportsFollow: a consumer that knows a table's first description and
\* applies the published changes in order, additions, removals and type
\* changes only, knows the description the server sends rows under, also while
\* a reconnect replays older ones; unless a publish failed (diffRelation,
\* Observers).
ReportsFollow ==
  \A r \in Relations :
    told[r] # None => known[r] \in {None, Profile(told[r])}

\* NothingDropped: once a position is confirmed, each of its rows was handed to
\* every sink it is routed to, unless a filter said no.  A filter that cannot
\* be evaluated never lets the position be confirmed (transform.Sink.Process).
NothingDropped ==
  \A p \in 1..slot : \A i \in 1..Len(wal[p].rels) :
    LET r == wal[p].rels[i]
        d == wal[p].shapes[r]
        e == [op |-> wal[p].op, table |-> d.table,
              new |-> Written(wal[p].new, d), old |-> Written(wal[p].old, d)]
    IN  Admits(cfg, e) => \A s \in SinkNames(cfg) :
          \/ <<p, r>> \in got[s]
          \/ IF s = OutboxSink THEN ~OutboxWants(cfg, d.table, e.op)
             ELSE LET sink == cfg.sinks[s]
                  IN  \/ d.table = cfg.outbox \/ ~ShouldProcess(sink, d.table)
                      \/ EvalFilter(sink.global, e) = "false"
                      \/ EvalFilter(TableChain(sink, d.table),
                                    Rewrite(sink.global, e)) = "false"

\* Rows of a table as the chunk reader decodes them.
ReadRows(d) ==
  {[c \in ColumnNames(d) |-> IF c \in nulls THEN Null ELSE <<c, TypeOf(d, c)>>] :
     nulls \in SUBSET (ColumnNames(d) \ d.pk)}

\* SkippedIsUnwanted: a table the backfill does not copy has no row that any
\* sink would be handed as a READ event: what Wants answers beforehand agrees
\* with what the layers then do (Wants, RejectsAll, EnqueueTable).
SkippedIsUnwanted ==
  \A r \in Relations : ~Copied(cfg, shape[r].table) =>
    \A row \in ReadRows(shape[r]) :
      ~Reaches(cfg, [op |-> "read", table |-> shape[r].table,
                     new |-> row, old |-> NoRow])
==============================================================================
