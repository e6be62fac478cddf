----------------------------- MODULE Documents -----------------------------
(***************************************************************************)
(* What the layers and the mirroring sinks make of row events: the         *)
(* transform chain (infrastructure/transform), the plan of Meilisearch     *)
(* tasks and the RedisJSON commands (adapters/secondary).                  *)
(*                                                                         *)
(* An event is a record with its operation (op), the index or key space    *)
(* of its table (index), its key (key, NoKey when the sink cannot make one *)
(* of the data), the columns it carries (row, without unchanged TOAST      *)
(* columns) and whether the filters let it through (keep; for the outbox,  *)
(* whether it is of its table).  The documents of a sink are a function    *)
(* on pairs of an index and a key.                                         *)
(***************************************************************************)
EXTENDS Integers, Sequences, FiniteSetsExt, Functions, TLC

CONSTANTS
  Columns,      \* columns of a row, other than its key
  DropColumns,  \* drop_columns of the transform
  MaskColumns,  \* columns with a mask strategy
  NoKey, Null   \* model values: no key value, SQL NULL

ASSUME TransformAssumption ==
  DropColumns \subseteq Columns /\ MaskColumns \subseteq Columns

\* A fold over a sequence, from the left.
Folded(Op(_, _), base, seq) ==
  LET f[i \in 0..Len(seq)] == IF i = 0 THEN base ELSE Op(f[i - 1], seq[i])
  IN  f[Len(seq)]

------------------------------------------------------------------------------
\* maskColumn: a value that is not NULL is masked.
Masked(c, v) == IF c \in MaskColumns /\ v # Null THEN "masked" ELSE v

\* Chain.Apply: drop, then mask.
Transformed(e) ==
  [e EXCEPT !.row =
     [c \in DOMAIN e.row \ DropColumns |-> Masked(c, e.row[c])]]

\* The exclusion and transform layers: what they hand to the sink.
Layers(events) ==
  LET kept == SelectSeq(events, LAMBDA e : e.keep)
  IN  [i \in 1..Len(kept) |-> Transformed(kept[i])]

------------------------------------------------------------------------------
Put(docs, at, doc) == (at :> doc) @@ docs
PutPartial(docs, at, doc) ==
  Put(docs, at, IF at \in DOMAIN docs THEN doc @@ docs[at] ELSE doc)
Without(docs, ats) == Restrict(docs, DOMAIN docs \ ats)
OfIndex(docs, index) == {at \in DOMAIN docs : at[1] = index}
At(e) == <<e.index, e.key>>
Writes == {"insert", "read", "update"}

\* The reference: a table's rows, one event after the other.  A column an
\* UPDATE does not carry keeps its value.
ApplyEvent(docs, e) ==
  IF e.op = "truncate" THEN Without(docs, OfIndex(docs, e.index))
  ELSE IF e.key = NoKey THEN docs
  ELSE CASE e.op \in {"insert", "read"} -> Put(docs, At(e), e.row)
         [] e.op = "update"             -> PutPartial(docs, At(e), e.row)
         [] e.op = "delete"             -> Without(docs, {At(e)})

Replayed(docs, events) == Folded(ApplyEvent, docs, events)

\* A field that is NULL and one that is absent read alike.
Visible(docs) ==
  [at \in DOMAIN docs |-> RestrictValues(docs[at], LAMBDA v : v # Null)]

------------------------------------------------------------------------------
\* Sink.plan.  A run is one task: its documents by key; for a delete run only
\* the keys count.
RunKind(e) ==
  CASE e.op \in {"insert", "read"} -> "replace"
    [] e.op = "update"             -> "partial"
    [] e.op = "delete"             -> "delete"
    [] e.op = "truncate"           -> "clear"

\* Events the plan leaves out: deletes whose identity lacks the key.
Planned(e) == ~(e.op = "delete" /\ e.key = NoKey)

\* Slip: a second partial update of a document replaces the first.
AddToRunReplacing(run, e) ==
  IF run.kind = "clear" THEN run
  ELSE [run EXCEPT !.docs = Put(@, At(e), e.row)]

\* addDoc, addID.
AddToRun(run, e) ==
  CASE run.kind = "clear"   -> run
    [] run.kind = "partial" -> [run EXCEPT !.docs = PutPartial(@, At(e), e.row)]
    [] OTHER                -> [run EXCEPT !.docs = Put(@, At(e), e.row)]

\* runFor: the trailing run of the same kind, or a new one.
AddToRuns(runs, e) ==
  IF runs # <<>> /\ runs[Len(runs)].kind = RunKind(e) /\ RunKind(e) # "clear"
  THEN [runs EXCEPT ![Len(runs)] = AddToRun(@, e)]
  ELSE Append(runs, AddToRun([kind |-> RunKind(e), index |-> e.index,
                              docs |-> <<>>], e))

\* Indexes in the order in which they are first seen.
AddIndex(order, e) ==
  IF \E i \in 1..Len(order) : order[i] = e.index THEN order
  ELSE Append(order, e.index)

Plan(events) ==
  LET planned == SelectSeq(events, Planned)
      order   == Folded(AddIndex, <<>>, planned)
      Runs(x) == Folded(AddToRuns, <<>>,
                        SelectSeq(planned, LAMBDA e : e.index = x))
  IN  Folded(LAMBDA plan, x : plan \o Runs(x), <<>>, order)

\* What Meilisearch does with a task.
ApplyTask(docs, run) ==
  CASE run.kind = "replace" -> run.docs @@ docs
    [] run.kind = "partial" ->
         [at \in DOMAIN run.docs |->
            IF at \in DOMAIN docs THEN run.docs[at] @@ docs[at]
            ELSE run.docs[at]] @@ docs
    [] run.kind = "delete"  -> Without(docs, DOMAIN run.docs)
    [] run.kind = "clear"   -> Without(docs, OfIndex(docs, run.index))

------------------------------------------------------------------------------
\* The RedisJSON command of an event, as Redis runs it: JSON.SET, or
\* JSON.MERGE (which deletes NULL fields) when an UPDATE omits columns, or DEL.
\* TRUNCATE is not supported.
ApplyCommand(docs, e) ==
  CASE e.op = "truncate" -> docs
    [] e.op = "delete"   -> Without(docs, {At(e)})
    [] e.op = "update" /\ e.toast ->
         Put(docs, At(e),
             RestrictValues(IF At(e) \in DOMAIN docs THEN e.row @@ docs[At(e)]
                            ELSE e.row,
                            LAMBDA v : v # Null))
    [] OTHER             -> Put(docs, At(e), e.row)
=============================================================================
