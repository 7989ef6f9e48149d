-------------------------------- MODULE Service --------------------------------
(***************************************************************************)
(* What the back-office services of the server share: requests that run    *)
(* side by side, each a chain of statements against the rows of RowStore,  *)
(* inside a $transaction or one by one outside; the rows they insert and   *)
(* never change; the bookkeeping the properties need.                      *)
(***************************************************************************)
EXTENDS Integers, FiniteSets, FiniteSetsExt, RowStore

CONSTANTS
  Departments, \* the services explored; they share no rows
  MaxBegun     \* per department, bound on the requests begun

ASSUME RequestsAssumption == /\ NoTxn \notin Txns
                             /\ \A d \in Departments : MaxBegun[d] \in Nat

VARIABLES
  tx,     \* what each request is doing
  log,    \* inserted rows nobody updates (adjustments, events), with their number
  begun,  \* requests begun
  raced,  \* rows written from a read that was out of date by then
  desk    \* the department of this behaviour

NotRead == [nothing |-> TRUE]
Idle == [op |-> "none", pc |-> "none", row |-> NoTxn, read |-> NotRead, out |-> {}]

ServiceInit(initial) ==
  /\ db = initial
  /\ committed = initial
  /\ lock = [r \in Rows |-> NoTxn]
  /\ tx = [t \in Txns |-> Idle]
  /\ log = [entry \in {} |-> 0]
  /\ begun = 0
  /\ raced = {}
  /\ desk \in Departments

Doing(t, op, pc) == tx[t].op = op /\ tx[t].pc = pc

-------------------------------------------------------------------------------
(* The life of a request.                                                  *)

OneMore == begun < MaxBegun[desk] /\ begun' = begun + 1

\* stale: the row, if what is read of it is already being changed.
BeginBeside(t, op, pc, row, read, stale) ==
  /\ tx[t].op = "none"
  /\ OneMore
  /\ tx' = [tx EXCEPT ![t] = [op |-> op, pc |-> pc, row |-> row, read |-> read, out |-> {}]]
  /\ raced' = raced \union stale
  /\ UNCHANGED <<db, committed, lock, log, desk>>

Begin(t, op, pc, row, read) == BeginBeside(t, op, pc, row, read, {})

\* A request that is a single statement.
Single == OneMore /\ UNCHANGED <<tx, desk>>

\* Go on with the next statement, with what has been read and inserted so far.
Continue(t, pc, read, out) ==
  /\ tx' = [tx EXCEPT ![t] = [@ EXCEPT !.pc = pc, !.read = read, !.out = out]]
  /\ UNCHANGED <<committed, log, begun, desk>>

GoTo(t, pc) == Continue(t, pc, tx[t].read, tx[t].out)

Finish(t) == tx' = [tx EXCEPT ![t] = Idle] /\ UNCHANGED <<begun, desk>>

\* An exception of the operation; nothing of its transaction remains.
Throw(t) == UndoWrites(t) /\ Finish(t) /\ UNCHANGED <<log, raced>>

\* A timeout, a lost connection, a deadlock victim, a restart of the server;
\* lost: the rows nobody will bring up to date now.
Abort(t, lost) == /\ tx[t].op # "none"
                  /\ UndoWrites(t)
                  /\ Finish(t)
                  /\ raced' = raced \union lost
                  /\ UNCHANGED log

Times(entry) == IF entry \in DOMAIN log THEN log[entry] ELSE 0
Logged(entries) ==
  log' = [e \in DOMAIN log \union entries |-> Times(e) + (IF e \in entries THEN 1 ELSE 0)]

Commit(t) ==
  /\ tx[t].pc = "commit"
  /\ KeepWrites(t)
  /\ Logged(tx[t].out)
  /\ Finish(t)
  /\ UNCHANGED raced

-------------------------------------------------------------------------------
(* Statements.                                                             *)

\* A statement outside a transaction commits at once.
Put(row, value) ==
  /\ lock[row] = NoTxn
  /\ db' = [db EXCEPT ![row] = value]
  /\ committed' = [committed EXCEPT ![row] = value]
  /\ UNCHANGED lock

\* The next id of a table: the lowest not in use.
FreshId(ids, used(_)) == {i \in ids : ~used(i) /\ \A j \in ids : used(j) \/ i <= j}

\* The row is written from a read of it: does it still hold what was read?
Races(row, read) == raced' = IF db[row] = read THEN raced ELSE raced \union {row}

\* Inserted entries whose first fields are given.
Entries(kind, key) == {e \in DOMAIN log : e.kind = kind /\ e.key = key}
TotalOf(entries) == SumFunctionOnSet([e \in entries |-> e.amount * log[e]], entries)

ServiceTypeOK ==
  /\ DOMAIN db = Rows /\ DOMAIN committed = Rows
  /\ FreeRowsCommitted
  /\ \A t \in Txns : tx[t].op = "none" => \A r \in Rows : lock[r] # t
  /\ \A e \in DOMAIN log : log[e] \in Nat
  /\ raced \subseteq Rows
  /\ desk \in Departments
  /\ begun \in 0 .. MaxBegun[desk]
===============================================================================
