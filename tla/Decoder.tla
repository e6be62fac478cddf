------------------------------- MODULE Decoder -------------------------------
(***************************************************************************)
(* The WAL decoder and the schema observers (adapters/primary/wal/         *)
(* decoder.go, infrastructure/schema): descriptions of tables, the cache   *)
(* of them, the diff that stands for DDL, and the rows decoded by it.      *)
(*                                                                         *)
(* The source database is external.  It sends a row under the description  *)
(* its table had when the row was written, and before it that description  *)
(* unless it is the last one sent in the session.  A session starts behind *)
(* the confirmed position, so a reconnect takes the decoder back to older  *)
(* descriptions.  The cache lives as long as the process, not the session. *)
(*                                                                         *)
(* A description is a table's name, its columns in order with their types, *)
(* its primary key and its replica identity (d or f).  A cell of a tuple   *)
(* is a column's text, null, or an unchanged TOAST value; the text is the  *)
(* column it was written for, and decoding it adds the type it was read    *)
(* by.                                                                     *)
(***************************************************************************)
EXTENDS Integers, Sequences, FiniteSets, RowData

CONSTANTS
  Source,          \* the tables by relation id, with their descriptions
  Altered,         \* those that DDL changes
  Names,           \* tables a rename may lead to
  Alterable,       \* columns that DDL adds, drops and retypes
  None,            \* no description
  HistoryCapacity, \* historyCapacity
  MaxChanges, MaxRecords  \* bounds: DDL statements, WAL records

Relations == DOMAIN Source

VARIABLES
  shape,     \* the descriptions now
  altered,   \* DDL statements so far
  wal,       \* committed row changes
  at,        \* the next record the session sends
  told,      \* descriptions sent in this session
  relations, \* Decoder.relations
  history,   \* Recorder.history, oldest first
  known,     \* what a consumer of the schema stream arrives at, or None when
             \* it knows no description or a publish failed
  events     \* decoded, not yet delivered

sourceVars  == <<shape, altered, wal>>
decoderVars == <<at, told, relations, history, known, events>>

Types == {"text", "int"}
ColumnNames(d) == {d.cols[i].name : i \in 1..Len(d.cols)}
TypeOf(d, c) == d.cols[CHOOSE i \in 1..Len(d.cols) : d.cols[i].name = c].type

\* keyColumns: with the whole row as identity every column is flagged.
KeyColumns(d) ==
  LET flagged == SelectSeq(d.cols, LAMBDA col : d.ident = "f" \/ col.name \in d.pk)
  IN  [i \in 1..Len(flagged) |-> flagged[i].name]

------------------------------------------------------------------------------
\* diffRelation: the net effect of DDL on a description; no change without kinds.

Added(prev, cur) ==
  {c \in ColumnNames(cur) : c \notin ColumnNames(prev)}
Dropped(prev, cur) ==
  {c \in ColumnNames(prev) : c \notin ColumnNames(cur)}
\* Slip: types are not compared.
RetypedNever(prev, cur) == {}

Retyped(prev, cur) ==
  {c \in ColumnNames(prev) \cap ColumnNames(cur) : TypeOf(prev, c) # TypeOf(cur, c)}

Kinds(prev, cur) ==
  {k \in {"table_renamed", "column_added", "column_dropped",
          "column_type_changed", "replica_identity_changed", "key_changed"} :
     CASE k = "table_renamed"            -> prev.table # cur.table
       [] k = "column_added"             -> Added(prev, cur) # {}
       [] k = "column_dropped"           -> Dropped(prev, cur) # {}
       [] k = "column_type_changed"      -> Retyped(prev, cur) # {}
       [] k = "replica_identity_changed" -> prev.ident # cur.ident
       [] k = "key_changed" ->
            prev.ident = cur.ident /\ KeyColumns(prev) # KeyColumns(cur)}

\* Columns and their types, as the change lists them.
ColumnDefs(d, names) == [c \in names |-> TypeOf(d, c)]

DiffRelation(r, prev, cur) ==
  [rel     |-> r,
   table   |-> cur.table,
   added   |-> ColumnDefs(cur, Added(prev, cur)),
   dropped |-> Dropped(prev, cur),
   retyped |-> ColumnDefs(cur, Retyped(prev, cur)),
   keys    |-> KeyColumns(cur),
   ident   |-> cur.ident]

\* What a consumer makes of a description, and of a change to one it knows.
Profile(d) ==
  [table |-> d.table, types |-> ColumnDefs(d, ColumnNames(d)),
   keys |-> KeyColumns(d), ident |-> d.ident]
Follow(profile, change) ==
  IF profile = None THEN None ELSE
  LET kept == DOMAIN profile.types \ change.dropped
  IN  [table |-> change.table,
       types |-> [c \in kept \cup DOMAIN change.added |->
                    IF c \in DOMAIN change.added THEN change.added[c]
                    ELSE IF c \in DOMAIN change.retyped THEN change.retyped[c]
                    ELSE profile.types[c]],
       keys  |-> change.keys, ident |-> change.ident]

------------------------------------------------------------------------------
\* decodeTuple, by the cached description: values by column, without unchanged
\* TOAST values.
DecodeTuple(tuple, d) ==
  LET carried == {i \in 1..Len(tuple) : tuple[i].kind # "toast"}
      Index(c) == CHOOSE i \in carried : d.cols[i].name = c
  IN  [c \in {d.cols[i].name : i \in carried} |->
         IF tuple[Index(c)].kind = "null" THEN Null
         ELSE <<tuple[Index(c)].text, d.cols[Index(c)].type>>]

UnchangedToast(tuple, d) ==
  {d.cols[i].name : i \in {j \in 1..Len(tuple) : tuple[j].kind = "toast"}}

\* newEvent.  A TRUNCATE yields one event per table.
NewEvent(pos, rec, r) ==
  [pos |-> pos, rel |-> r, op |-> rec.op, table |-> relations[r].table,
   new |-> DecodeTuple(rec.new, relations[r]),
   old |-> DecodeTuple(rec.old, relations[r]),
   toast |-> UnchangedToast(rec.new, relations[r])]

------------------------------------------------------------------------------
DecoderInit ==
  /\ shape = Source /\ altered = 0 /\ wal = <<>>
  /\ at = 1 /\ told = [r \in Relations |-> None]
  /\ relations = [r \in Relations |-> None]
  /\ history = <<>> /\ known = [r \in Relations |-> None]
  /\ events = <<>>

\* The columns but for the i-th.
Without(cols, i) == [j \in 1..Len(cols) - 1 |-> cols[IF j < i THEN j ELSE j + 1]]

\* What one DDL statement makes of a description.
Alterations(d) ==
  LET free == {i \in 1..Len(d.cols) : d.cols[i].name \in Alterable \ d.pk}
  IN  {[d EXCEPT !.table = t] : t \in Names \ {d.table}}
      \cup {[d EXCEPT !.cols = Append(@, [name |-> c, type |-> "text"])] :
              c \in Alterable \ ColumnNames(d)}
      \cup {[d EXCEPT !.cols = Without(@, i)] : i \in free}
      \cup {[d EXCEPT !.cols[i].type = "int"] : i \in free}
      \cup {[d EXCEPT !.ident = IF @ = "d" THEN "f" ELSE "d"]}
      \cup {[d EXCEPT !.pk = {d.cols[i].name}] : i \in free}

Alter ==
  /\ altered < MaxChanges /\ altered' = altered + 1
  /\ Len(wal) < MaxRecords
  /\ \E r \in Altered : \E d \in Alterations(shape[r]) :
       d # shape[r] /\ shape' = [shape EXCEPT ![r] = d]
  /\ UNCHANGED <<wal, decoderVars>>

\* Tuples as PostgreSQL writes them: a full row but for one column, which is
\* null or unchanged; the identity alone, with nulls for the other columns.
FullTuple(d, odd, kind) ==
  [i \in 1..Len(d.cols) |->
     [kind |-> IF d.cols[i].name \in odd THEN kind ELSE "text",
      text |-> d.cols[i].name]]
Identity(d) ==
  IF d.ident = "f" THEN FullTuple(d, {}, "text")
  ELSE FullTuple(d, ColumnNames(d) \ d.pk, "null")
Odd(d) == {{}} \cup {{c} : c \in Alterable \cap (ColumnNames(d) \ d.pk)}
NewTuples(d, kinds) == {FullTuple(d, odd, kind) : odd \in Odd(d), kind \in kinds}

Record(op, rels, new, old) ==
  [op |-> op, rels |-> rels, shapes |-> shape, new |-> new, old |-> old]

RowChanges(r) ==
  LET d == shape[r]
  IN  {Record("insert", <<r>>, new, <<>>) : new \in NewTuples(d, {"null"})}
      \cup {Record("update", <<r>>, new, IF d.ident = "f" THEN Identity(d) ELSE <<>>) :
              new \in NewTuples(d, {"toast"})}
      \cup {Record("delete", <<r>>, <<>>, Identity(d))}

\* A TRUNCATE of all tables, in the order of the statement.
Truncates ==
  {Record("truncate", rels, <<>>, <<>>) :
     rels \in {q \in [1..Cardinality(Relations) -> Relations] :
                \A i, j \in DOMAIN q : q[i] = q[j] => i = j}}

Write ==
  /\ Len(wal) < MaxRecords
  /\ \E rec \in (UNION {RowChanges(r) : r \in Relations}) \cup Truncates :
       wal' = Append(wal, rec)
  /\ UNCHANGED <<shape, altered, decoderVars>>

------------------------------------------------------------------------------
\* Slip: the history is not trimmed.
RecordedAll(change) == Append(history, change)

\* Recorder.OnSchemaChange.
Recorded(change) ==
  LET all == Append(history, change)
  IN  SubSeq(all, Len(all) - (IF Len(all) > HistoryCapacity THEN HistoryCapacity
                              ELSE Len(all)) + 1, Len(all))

\* RedisPublisher.OnSchemaChange: a change that cannot be published is dropped.
Published(r, change) ==
  {[known EXCEPT ![r] = Follow(@, change)], [known EXCEPT ![r] = None]}

\* A relation message.  A change goes to the recorder and to the schema stream.
Describe(r) ==
  LET d    == wal[at].shapes[r]
      prev == relations[r]
  IN
  /\ told' = [told EXCEPT ![r] = d]
  /\ relations' = [relations EXCEPT ![r] = d]
  /\ \/ /\ prev = None /\ known' = [known EXCEPT ![r] = Profile(d)]
        /\ UNCHANGED history
     \/ /\ prev # None /\ Kinds(prev, d) = {} /\ UNCHANGED <<known, history>>
     \/ /\ prev # None /\ Kinds(prev, d) # {}
        /\ history' = Recorded(DiffRelation(r, prev, d))
        /\ known' \in Published(r, DiffRelation(r, prev, d))
  /\ UNCHANGED <<sourceVars, at, events>>

\* A row message.
Row ==
  LET rec == wal[at]
  IN
  /\ events' = events \o [i \in 1..Len(rec.rels) |-> NewEvent(at, rec, rec.rels[i])]
  /\ at' = at + 1
  /\ UNCHANGED <<sourceVars, told, relations, history, known>>

\* The server sends the next record: first the descriptions it needs.
Receive ==
  /\ at <= Len(wal)
  /\ \/ \E i \in 1..Len(wal[at].rels) :
          LET r == wal[at].rels[i]
          IN  told[r] # wal[at].shapes[r] /\ Describe(r)
     \/ /\ \A i \in 1..Len(wal[at].rels) :
             told[wal[at].rels[i]] = wal[at].shapes[wal[at].rels[i]]
        /\ Row

\* A new session of the same process, from a position; and of a new process.
Resume(from) ==
  /\ at' = from /\ told' = [r \in Relations |-> None] /\ events' = <<>>
Reconnect(from) ==
  Resume(from) /\ UNCHANGED <<sourceVars, relations, history, known>>
Restart(from) ==
  /\ Resume(from)
  /\ relations' = [r \in Relations |-> None]
  /\ history' = <<>> /\ known' = [r \in Relations |-> None]
  /\ UNCHANGED sourceVars
==============================================================================
