------------------------------ MODULE RowData ------------------------------
(* Rows of decoded events: functions from the columns they carry to values. *)

CONSTANTS Columns, Values, Null  \* Null, SQL's NULL, is one of the values

NoRow == [c \in {} |-> Null]
Rows == UNION {[D -> Values] : D \in SUBSET Columns}
=============================================================================
