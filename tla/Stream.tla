------------------------------- MODULE Stream -------------------------------
(***************************************************************************)
(* The logical-decoding stream the WAL reader consumes.  pgoutput ships    *)
(* committed transactions one after the other (streaming of in-progress    *)
(* transactions is not requested, reader.go startReplicationWithRetry), so *)
(* the sequence of messages is the same in every session and an LSN is an  *)
(* index into it.                                                          *)
(***************************************************************************)
EXTENDS Integers, Sequences

CONSTANT WAL    \* the stream, a sequence of message kinds

\* The messages the decoder tells apart.  "more" is an event of a multi-table
\* TRUNCATE that another event of the same message follows; "other" is any
\* message that yields neither an event nor a position (relation, type).
Kinds == {"begin", "commit", "event", "more", "watermark", "other"}

ASSUME WALAssumption ==
  /\ WAL \in Seq(Kinds)
  /\ \A p \in 1..Len(WAL) : WAL[p] = "more" =>
        p < Len(WAL) /\ WAL[p + 1] \in {"more", "event"}

Positions == 1..Len(WAL)
Events == {p \in Positions : WAL[p] \in {"event", "more"}}

\* Position n is inside a transaction: a BEGIN not yet followed by its COMMIT.
Open(n) ==
  \E b \in 1..n : WAL[b] = "begin" /\ \A c \in b..n : WAL[c] # "commit"

\* Every event up to position n is in the set S.
Covers(S, n) == \A p \in Events : p <= n => p \in S
=============================================================================
