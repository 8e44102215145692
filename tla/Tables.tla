------------------------------- MODULE Tables -------------------------------
(***************************************************************************)
(* What the statements of src/db/sql.go compute, on the rows of one name.  *)
(* A table is a sequence of rows in the order of their RowID, which SQLite *)
(* counts up; a row is a record with at least a hash (standing for its     *)
(* content), stamp (SnapshotTimestamp) and deleted (DeletionTimestamp, 0   *)
(* while it is null).                                                      *)
(***************************************************************************)
EXTENDS Naturals, Sequences

(* WHERE SnapshotTimestamp <= t                                            *)
Before(rows, t) == {i \in 1..Len(rows) : rows[i].stamp <= t}

(* GROUP BY Name HAVING max(RowID): SQLite takes the bare columns of a     *)
(* group from the row that attains the maximum.                            *)
LatestOf(I) == CHOOSE i \in I : \A j \in I : j <= i

HashAt(rows, t, none) ==
    IF Before(rows, t) = {} THEN none
    ELSE rows[LatestOf(Before(rows, t))].hash

(* SELECT Hash ... ORDER BY RowID desc LIMIT 1                             *)
LatestHashOf(rows, none) ==
    IF rows = <<>> THEN none ELSE rows[Len(rows)].hash

(* UPDATE ... SET DeletionTimestamp = at WHERE Name = ...                  *)
Marked(rows, at) == [i \in 1..Len(rows) |-> [rows[i] EXCEPT !.deleted = at]]
=============================================================================
