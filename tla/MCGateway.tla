----------------------------- MODULE MCGateway -----------------------------
(* Gateway with two sinks, one of which takes one event at a time.         *)
EXTENDS Gateway

TwoSinks == {"a", "b"}
OneByOne == [s \in TwoSinks |-> IF s = "a" THEN 1 ELSE 0]
=============================================================================
