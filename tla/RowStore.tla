------------------------------- MODULE RowStore -------------------------------
(***************************************************************************)
(* What the backend relies on from PostgreSQL under READ COMMITTED and     *)
(* from TypeORM's Repository.save, as operators on the rows of one table.  *)
(*                                                                         *)
(* - A transaction sees its own uncommitted version of a row it has        *)
(*   written, and the last committed version of every other row.           *)
(* - The first write of a row takes its lock until commit or rollback; a   *)
(*   writer that meets the lock waits, and then writes over the version    *)
(*   the other transaction committed.                                      *)
(* - save(entity) reads the row again, and updates only the columns in     *)
(*   which the in-memory entity differs from that read, by primary key.    *)
(*   Nothing compares the row with what the entity was loaded from.        *)
(***************************************************************************)
EXTENDS Integers

\* The version of row k that transaction s reads.
Visible(row, draft, lock, s, k) == IF lock[k] = s THEN draft[k] ELSE row[k]

\* Transaction s may write row k: no other transaction holds its lock.
Writable(lock, nobody, s, k) == lock[k] \in {nobody, s}

\* The columns among cs that save(entity) will update, given the version it read.
DirtyColumns(cs, entity, read) == {c \in cs : entity[c] # read[c]}

\* The row after an update of the columns cs from the entity.
Overwrite(current, entity, cs) ==
    [c \in DOMAIN current |-> IF c \in cs THEN entity[c] ELSE current[c]]

\* The table after transaction s commits: its drafts become the committed rows.
Committed(row, draft, lock, s) ==
    [k \in DOMAIN row |-> IF lock[k] = s THEN draft[k] ELSE row[k]]

\* The drafts after transaction s rolls back: its versions are gone.
RolledBack(row, draft, lock, s) ==
    [k \in DOMAIN row |-> IF lock[k] = s THEN row[k] ELSE draft[k]]

\* The locks after transaction s ends.
Released(lock, nobody, s) ==
    [k \in DOMAIN lock |-> IF lock[k] = s THEN nobody ELSE lock[k]]
===============================================================================
