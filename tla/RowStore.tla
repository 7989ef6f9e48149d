-------------------------------- MODULE RowStore --------------------------------
(***************************************************************************)
(* PostgreSQL at READ COMMITTED, as the services use it through Prisma's   *)
(* $transaction: a row has a latest version, a committed version, and the  *)
(* transaction that wrote the latest one and has not ended.                *)
(***************************************************************************)
CONSTANTS Rows, Txns, NoTxn

VARIABLES
  db,         \* latest version of every row
  committed,  \* its committed version
  lock        \* the transaction that wrote it and has not ended

\* What a read of t returns: its own version, or the committed one.
Seen(t, r) == IF lock[r] = t THEN db[r] ELSE committed[r]

\* An UPDATE by t waits while another transaction holds the row; its WHERE is
\* then evaluated on the latest version.
MayWrite(t, r) == lock[r] \in {NoTxn, t}

Write(t, r, value) == /\ db' = [db EXCEPT ![r] = value]
                      /\ lock' = [lock EXCEPT ![r] = t]

\* The end of t: every row it wrote is free again.
Release(t) == lock' = [r \in Rows |-> IF lock[r] = t THEN NoTxn ELSE lock[r]]

\* COMMIT makes the versions of t the committed ones; ROLLBACK drops them.
KeepWrites(t) ==
  /\ committed' = [r \in Rows |-> IF lock[r] = t THEN db[r] ELSE committed[r]]
  /\ Release(t)
  /\ UNCHANGED db

UndoWrites(t) ==
  /\ db' = [r \in Rows |-> IF lock[r] = t THEN committed[r] ELSE db[r]]
  /\ Release(t)
  /\ UNCHANGED committed

\* A row nobody holds has no uncommitted version.
FreeRowsCommitted == /\ lock \in [Rows -> Txns \union {NoTxn}]
                     /\ \A r \in Rows : lock[r] = NoTxn => db[r] = committed[r]
===============================================================================
