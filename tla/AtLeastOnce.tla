---------------------------- MODULE AtLeastOnce ----------------------------
(***************************************************************************)
(* What the gateway promises about the replication stream (README,         *)
(* "Delivery semantics"): the position confirmed to PostgreSQL only ever   *)
(* names a transaction boundary before which every event has been handled  *)
(* by the sinks, and what was handled stays handled.  Nothing is said      *)
(* about how batches, queues, reconnects or crashes achieve it.            *)
(***************************************************************************)
EXTENDS Stream

VARIABLES
  processed,  \* stream positions whose event every sink has processed
  confirmed   \* confirmed_flush_lsn of the replication slot

Init ==
  /\ processed = {}
  /\ confirmed = 0

Handle ==
  /\ \E S \in SUBSET Events : processed' = processed \cup S
  /\ UNCHANGED confirmed

Confirm ==
  /\ \E n \in 0..Len(WAL) : ~Open(n) /\ Covers(processed, n) /\ confirmed' = n
  /\ UNCHANGED processed

Next == Handle \/ Confirm

Spec == Init /\ [][Next]_<<processed, confirmed>>
=============================================================================
