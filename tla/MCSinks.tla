------------------------------ MODULE MCSinks ------------------------------
(* Sinks with streams of two or three events.                                     *)
EXTENDS Sinks

\* A column in place, a TOAST column, one that is dropped, one that is masked.
FourColumns == {"a", "t", "d", "m"}

Event(op, key, row) ==
  [op |-> op, index |-> "x", key |-> key, row |-> row, keep |-> TRUE,
   toast |-> op = "update" /\ "t" \notin DOMAIN row]

OneRow == <<"x", "k">> :> ("a" :> "v0" @@ "t" :> "v0" @@ "m" :> "masked")

Full    == "a" :> "v1" @@ "t" :> "v1" @@ "d" :> "v1" @@ "m" :> "v1"
Insert  == Event("insert", "k", Full)
Update  == Event("update", "k", "a" :> "v2" @@ "m" :> Null)
Nulls   == Event("update", "k", "a" :> Null @@ "t" :> "v2" @@ "m" :> "v2")
Delete  == Event("delete", "k", <<>>)
Bad     == Event("update", "k", "a" :> "bad")
Clear   == Event("truncate", NoKey, <<>>)
Keyless == Event("update", NoKey, "a" :> "v3")
\* A message without topic or payload, an event without a key.
Untold  == Event("insert", NoKey, "a" :> "v3")
Other   == [Insert EXCEPT !.index = "y"]
Hidden  == [Update EXCEPT !.keep = FALSE]

\* Streams PostgreSQL can send for a row that exists.
MirrorStreams ==
  {<<Update, Nulls, Update>>, <<Delete, Insert, Update>>,
   <<Nulls, Clear, Insert>>, <<Clear, Insert, Delete>>,
   <<Update, Bad>>,
   <<Update, Keyless, Nulls>>, <<Update, Other, Delete>>,
   <<Hidden, Delete, Insert>>}
PublishStreams ==
  {<<Insert, Update, Delete>>, <<Insert, Other, Insert>>,
   <<Insert, Untold, Update>>, <<Other, Hidden, Insert>>}

AllSources ==
  ({"meili", "json"} \X MirrorStreams) \cup (Publishers \X PublishStreams)

\* For the disagreement: three updates of a row in Meilisearch.
Updates == {<<"meili", <<Update, Nulls, Update>>>>}
=============================================================================
