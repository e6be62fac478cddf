---------------------------- MODULE MCWALReader ----------------------------
(* Instances of WALReader for TLC.                                         *)
EXTENDS WALReader

\* Two transactions, the first larger than a batch of two; the first ends in
\* a two-table TRUNCATE, the second follows a backfill watermark.
TwoTxns == <<"begin", "event", "more", "event", "commit",
             "watermark", "begin", "event", "commit">>

\* A transaction of a two-table TRUNCATE and an event, together larger than a
\* batch of two, then a watermark and an empty transaction.
OneTxn == <<"begin", "more", "event", "event", "commit", "watermark",
            "begin", "commit">>
=============================================================================
