----------------------------- MODULE MCCapture -----------------------------
(* Capture with a table that is altered and an outbox, under configurations *)
(* that name tables with and without their schema, hide columns at either   *)
(* level and filter by operation and by row.                                *)
EXTENDS Capture, TLC

users  == <<"public", "users">>
people == <<"public", "people">>
outbox == <<"public", "outbox">>
AnySchema(n) == <<"", n>>

Col(c) == [name |-> c, type |-> "text"]
TwoTables ==
  "u" :> [table |-> users, cols |-> <<Col("k"), Col("a"), Col("b")>>, pk |-> {"k"}, ident |-> "d"]
  @@ "o" :> [table |-> outbox, cols |-> <<Col("k")>>, pk |-> {"k"}, ident |-> "d"]
TwoNames == {users, people}
AllTables == {users, people, outbox}
AllValues == {Null, Masked} \cup ({"k", "a", "b"} \X {"text", "int"})

\* live: new.a == null.  streamed: op != "READ".  gone: op == "DELETE" ||
\* new.a == null.
EvalOf(f, op, t, new, old) ==
  LET yes(b) == IF b THEN "true" ELSE "false"
      live   == IF "a" \in DOMAIN new THEN yes(new["a"] = Null) ELSE "error"
  IN  CASE f = "live"     -> live
        [] f = "streamed" -> yes(op # "read")
        [] f = "gone"     -> IF op = "delete" THEN "true" ELSE live
PartialOf(f, op, t) == f = "streamed" /\ op = "read"

Spec_(f, drop, mask) == [filter |-> f, drop |-> drop, mask |-> mask]
To(spec) == [index |-> TRUE, spec |-> spec]
Keyed(all, global, tables) ==
  [kind |-> "keyed", all |-> all, global |-> global, tables |-> tables]
Meili(global, tables) ==
  [kind |-> "meili", all |-> FALSE, global |-> global, tables |-> tables]
Config(excluded, ob, sink) ==
  [excluded |-> excluded, progress |-> AnySchema("progress"), outbox |-> ob,
   sinks |-> "m" :> sink]

AllConfigurations == {
  \* Mirrors everything that is streamed, hides columns at both levels.
  Config({}, outbox, Keyed(TRUE, Spec_("streamed", {"b"}, {"a"}),
    users :> To(Spec_(NoFilter, {}, {"k"})))),
  \* The entry with the schema has no transforms of its own.
  Config({people}, NoTable, Keyed(FALSE, ZeroSpec,
    users :> To(ZeroSpec) @@ AnySchema("users") :> To(Spec_("gone", {"a"}, {})))),
  \* A sink-wide filter that fails where the column is absent.
  Config({AnySchema("people")}, outbox, Keyed(FALSE, Spec_("live", {}, {}),
    AnySchema("users") :> To(Spec_(NoFilter, {}, {"a"})))),
  \* No index for the renamed table; only streamed rows.
  Config({}, outbox, Meili(ZeroSpec,
    users :> To(Spec_("streamed", {}, {"a"})) @@
    people :> [index |-> FALSE, spec |-> ZeroSpec] @@
    AnySchema("people") :> To(ZeroSpec)))}
=============================================================================
