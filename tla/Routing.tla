------------------------------- MODULE Routing -------------------------------
(***************************************************************************)
(* Which sink is handed which row, and what of it: the exclusions of the   *)
(* CDC service (cdc_service.go), the layers newSinks puts around a sink    *)
(* (cmd/gateway/modules.go): the outbox exclusion and the transforms, the  *)
(* sinks' own table filters (config/sinks.go), and the answer the layers   *)
(* give beforehand, Wants, from which the backfill decides which tables    *)
(* are worth copying.                                                      *)
(*                                                                         *)
(* A table is a pair of a schema and a name; the configuration may also    *)
(* name it without its schema.  A row is a function from the columns it    *)
(* carries to values; data an event does not have is the empty row.  A     *)
(* chain is compiled from one specification, so it has one step or none.   *)
(* Filters are CEL expressions, an external language: a filter is a name,  *)
(* and what it yields is a parameter.                                      *)
(***************************************************************************)
EXTENDS RowData

CONSTANTS
  Tables,               \* pairs of a schema and a name
  Filters,              \* CEL expressions
  Eval(_, _, _, _, _),  \* what one yields, given the operation, the table,
                        \* the new and the old row: "true", "false" or neither
  Partial(_, _, _),     \* it is false with the rows unknown
  NoFilter, NoTable,
  Masked                \* a masked value

Ops == {"insert", "update", "delete", "truncate", "read"}

\* CEL's partial evaluation yields false only when no row makes the filter true.
\* A table's own name has a schema.
ASSUME RoutingAssumption ==
  /\ \A t \in Tables : <<"", t[2]>> \notin Tables \cup {NoTable}
  /\ {Null, Masked} \subseteq Values /\ NoFilter \notin Filters
  /\ \A f \in Filters, op \in Ops, t \in Tables : Partial(f, op, t) =>
       \A new, old \in Rows : Eval(f, op, t, new, old) # "true"

------------------------------------------------------------------------------
Bare(t) == <<"", t[2]>>

\* isTableExcluded, and the coordinator's isExcluded.
Named(names, t) == t \in names \/ Bare(t) \in names

\* MeilisearchSinkConfig.GetIndex: the entry with the schema, or else the one
\* without, must name an index.
GetIndex(sink, t) ==
  IF t \in DOMAIN sink.tables THEN sink.tables[t].index
  ELSE Bare(t) \in DOMAIN sink.tables /\ sink.tables[Bare(t)].index

\* KeyedSinkConfig.ShouldProcess; for Meilisearch, the mapper's.
ShouldProcess(sink, t) ==
  IF sink.kind = "meili" THEN GetIndex(sink, t)
  ELSE Named(DOMAIN sink.tables, t) \/ sink.all

------------------------------------------------------------------------------
ZeroSpec == [filter |-> NoFilter, drop |-> {}, mask |-> {}]

\* TableTransforms: entries without transforms are left out, so a table named
\* with its schema may take the transforms of its bare name.
TableTransforms(sink) ==
  {k \in DOMAIN sink.tables : sink.tables[k].spec # ZeroSpec}

\* tableChain.
TableChain(sink, t) ==
  LET names == TableTransforms(sink)
  IN  CASE t \in names                         -> sink.tables[t].spec
        [] t \notin names /\ Bare(t) \in names -> sink.tables[Bare(t)].spec
        [] OTHER                              -> ZeroSpec

\* maskColumn: a value that is not NULL is masked.
MaskColumn(spec, c, v) == IF c \in spec.mask /\ v # Null THEN Masked ELSE v

\* The step of a chain that rewrites a row: drop, then mask.
Hide(spec, row) ==
  [c \in DOMAIN row \ spec.drop |-> MaskColumn(spec, c, row[c])]

\* Slip: only the new row is masked.
RewriteNew(spec, e) == [e EXCEPT !.new = Hide(spec, @)]

Rewrite(spec, e) == [e EXCEPT !.new = Hide(spec, @), !.old = Hide(spec, @)]

\* evalFilter: whatever is not a Boolean is an error.
EvalFilter(spec, e) ==
  IF spec.filter = NoFilter THEN "true"
  ELSE LET out == Eval(spec.filter, e.op, e.table, e.new, e.old)
       IN  IF out \in {"true", "false"} THEN out ELSE "error"

\* Slip: a filter that cannot be evaluated drops the event.
StopDrops(result) == "drop"

\* What becomes of an event a filter does not pass.
Stop(result) == IF result = "error" THEN "error" ELSE "drop"

\* transform.Sink.Process for one event: the sink-wide chain, then the table's.
TransformProcess(sink, e) ==
  LET global == EvalFilter(sink.global, e)
      mid    == Rewrite(sink.global, e)
      chain  == TableChain(sink, e.table)
      own    == EvalFilter(chain, mid)
  IN  [verdict |-> IF global # "true" THEN Stop(global)
                   ELSE IF own # "true" THEN Stop(own) ELSE "keep",
       event   |-> Rewrite(chain, mid)]

\* Slip: a filter that depends on the row counts as false.
RejectsUnknown(spec, t, op) == spec.filter # NoFilter

\* RejectsAll.
RejectsAll(spec, t, op) ==
  spec.filter # NoFilter /\ Partial(spec.filter, op, t)

------------------------------------------------------------------------------
\* A configuration: the excluded tables, the progress table of the backfill,
\* the outbox (or NoTable) and the mirroring sinks by name.  The outbox sink
\* is one more sink, with neither transforms nor exclusion.
OutboxSink == "outbox"
SinkNames(cfg) ==
  DOMAIN cfg.sinks \cup (IF cfg.outbox = NoTable THEN {} ELSE {OutboxSink})

\* Outbox Wants, and the filter of its Process.
OutboxWants(cfg, t, op) == t = cfg.outbox /\ op = "insert"

\* What a sink does with an event its layers are given: handed to the sink
\* proper, dropped on the way, or an error.
Route(cfg, s, e) ==
  IF s = OutboxSink
  THEN [verdict |-> IF OutboxWants(cfg, e.table, e.op) THEN "keep" ELSE "drop",
        event |-> e]
  ELSE LET sink == cfg.sinks[s]
           out  == TransformProcess(sink, e)
       IN  IF e.table = cfg.outbox \/
              (out.verdict = "keep" /\ ~ShouldProcess(sink, e.table))
           THEN [verdict |-> "drop", event |-> e]
           ELSE out

\* newCDCService's exclusions and admit.
Admits(cfg, e) == ~Named(cfg.excluded \cup {cfg.progress}, e.table)

\* Wants, through the layers.
Wants(cfg, s, t, op) ==
  IF s = OutboxSink THEN OutboxWants(cfg, t, op)
  ELSE LET sink == cfg.sinks[s]
       IN  /\ t # cfg.outbox
           /\ ~RejectsAll(sink.global, t, op)
           /\ ~RejectsAll(TableChain(sink, t), t, op)
           /\ ShouldProcess(sink, t)

\* newBackfillCoordinator, EnqueueTable: the tables that may be copied.
Copied(cfg, t) ==
  /\ ~Named(cfg.excluded \cup {cfg.outbox}, t)
  /\ \E s \in SinkNames(cfg) : Wants(cfg, s, t, "read")

\* Some sink would be handed the row.
Reaches(cfg, e) ==
  Admits(cfg, e) /\ \E s \in SinkNames(cfg) : Route(cfg, s, e).verdict = "keep"
==============================================================================
