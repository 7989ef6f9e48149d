--------------------------------- MODULE Stock ---------------------------------
(***************************************************************************)
(* Branch stock under concurrent transactions.  Every BranchInventory row  *)
(* caches the sum of the quantities of its InventoryBatch rows; sales,     *)
(* refunds, receipts, transfers, waste reports and the expiry cron change  *)
(* both, each in one transaction of RowStore.  A statement is one step;    *)
(* a transaction may be rolled back at any step (an error, Prisma's        *)
(* timeout, a deadlock PostgreSQL resolves).                               *)
(***************************************************************************)
EXTENDS Integers, Sequences, FiniteSets, FiniteSetsExt, SequencesExt

CONSTANTS
  Txns,          \* concurrent transactions
  Items,         \* BranchInventory rows: an ingredient at a branch
  BranchOf,      \* the branch of an item
  Batches,       \* InventoryBatch ids, in createdAt order
  Transfers,     \* StockTransfer ids
  TransferOf,    \* what a transfer moves: [from, to, qty]
  Initial,       \* the batches at the start, unused ids included
  Plans,         \* ingredient requirements of a sale: sequences of items
  Deliveries,    \* the lines of a receipt, in the caller's order: sequences of items
  Quantities,    \* quantities an operation may ask for
  ExpiryDays,    \* expiry dates a receipt may carry
  NoExpiry,      \* null expiryDate: sorted last, never expired
  Ops,           \* the operations of this instance
  MaxBegun,      \* bound on the transactions begun
  LastDay,       \* bound on the days that pass
  NoTxn

BatchStatuses == {"none", "ACTIVE", "DEPLETED", "EXPIRED"}
BatchRow == [item : Items, qty : Int, st : BatchStatuses, exp : Nat]
Rows == Items \union Batches \union Transfers

ASSUME RowsAssumption == /\ Batches \subseteq Nat
                         /\ IsFiniteSet(Batches) /\ IsFiniteSet(Transfers)
                         /\ Items \intersect Batches = {}
                         /\ Transfers \intersect (Items \union Batches) = {}
ASSUME NoTxnAssumption == NoTxn \notin Txns
ASSUME InitialAssumption == /\ Initial \in [Batches -> BatchRow]
                            /\ \A b \in Batches : Initial[b].qty >= 0
                            /\ \A b \in Batches : Initial[b].st # "ACTIVE" => Initial[b].qty = 0
ASSUME TransferAssumption ==
  TransferOf \in [Transfers -> [from : Items, to : Items, qty : Nat \ {0}]]
\* The requirements of an order are a map from ingredients to quantities.
ASSUME PlansAssumption ==
  \A plan \in Plans : plan \in Seq(Items) /\ plan # <<>> /\ IsInjective(plan)
\* Nothing keeps a receipt from naming an ingredient twice.
ASSUME DeliveriesAssumption ==
  \A delivery \in Deliveries : delivery \in Seq(Items) /\ delivery # <<>>
ASSUME NumbersAssumption == /\ Quantities \subseteq Nat \ {0}
                            /\ NoExpiry \in Nat
                            /\ ExpiryDays \subseteq Nat

VARIABLES
  db, committed, lock,  \* the rows: stock, batch record, transfer status
  tx,         \* what each transaction is doing
  net,        \* per item, what committed operations other than transfers asked for
  begun,      \* transactions begun
  today

vars == <<db, committed, lock, tx, net, begun, today>>

INSTANCE RowStore

\* Mutant: a sale takes from the batches before it holds the cache row.
ProgramBatchesFirst ==
  [deduct   |-> <<"List", "Take", "CacheDown">>,
   restore  |-> <<"CacheUp", "Pick", "PutBack">>,
   receive  |-> <<"Create", "CacheUp">>,
   waste    |-> <<"ReadNamed", "Overwrite", "List", "Overwrite", "CacheDown">>,
   dispose  |-> <<"ReadExpired", "CacheDown", "Expire">>,
   transfer |-> <<"Claim", "List", "Take", "CacheDown", "Create", "CacheUp">>]

\* The statements of each operation, in the order the code issues them.
Program ==
  [deduct   |-> <<"CacheDown", "List", "Take">>,
   restore  |-> <<"CacheUp", "Pick", "PutBack">>,
   receive  |-> <<"Create", "CacheUp">>,
   waste    |-> <<"ReadNamed", "Overwrite", "List", "Overwrite", "CacheDown">>,
   dispose  |-> <<"ReadExpired", "CacheDown", "Expire">>,
   transfer |-> <<"Claim", "List", "Take", "CacheDown", "Create", "CacheUp">>]

NoAsk == [i \in Items |-> 0]

\* items: the items still to do, the current one first; left: quantity still to
\* take; list: batches as read, not yet reached; exp: expiry for a created batch; row: the batch
\* or transfer the operation is about; ask: what it adds to each item; request: the items
\* it began with (no step reads it, only a property).
Idle == [op |-> "none", code |-> <<>>, items |-> <<>>, qty |-> 0, left |-> 0, list |-> {},
         exp |-> NoExpiry, row |-> NoTxn, ask |-> NoAsk, request |-> <<>>]

BatchesIn(rows, i, statuses) ==
  {b \in Batches : rows[b].item = i /\ rows[b].st \in statuses}

SumOf(rows, i, statuses) ==
  SumFunction([b \in BatchesIn(rows, i, statuses) |-> rows[b].qty])

InitialDb == [r \in Rows |-> CASE r \in Items -> SumOf(Initial, r, BatchStatuses)
                               [] r \in Batches -> Initial[r]
                               [] OTHER -> "PENDING"]

Init == /\ db = InitialDb
        /\ committed = InitialDb
        /\ lock = [r \in Rows |-> NoTxn]
        /\ tx = [t \in Txns |-> Idle]
        /\ net = NoAsk
        /\ begun = 0
        /\ today = 1

-------------------------------------------------------------------------------
Runs(t, statement) == tx[t].code # <<>> /\ Head(tx[t].code) = statement

\* Go on with the next statement; fields of the transaction may change with it.
Continue(t, record) == tx' = [tx EXCEPT ![t] = [record EXCEPT !.code = Tail(@)]]

End(t) == /\ tx' = [tx EXCEPT ![t] = Idle]
          /\ UNCHANGED <<begun, today>>

\* An exception of the operation.
Throw(t) == /\ UndoWrites(t)
            /\ End(t)
            /\ UNCHANGED net

\* A timeout, a lost connection, a deadlock victim.
Abort(t) == tx[t].op # "none" /\ Throw(t)

Commit(t) ==
  /\ tx[t].op # "none"
  /\ tx[t].code = <<>>
  /\ KeepWrites(t)
  /\ net' = [i \in Items |-> net[i] + tx[t].ask[i]]
  /\ End(t)

-------------------------------------------------------------------------------
(* Beginning an operation.                                                 *)

IsBatchOf(b, i) == b.st = "ACTIVE" /\ b.item = i
IsExpired(b) == b.st = "ACTIVE" /\ b.exp < today /\ b.qty > 0

Begin(t, record) ==
  /\ tx[t].op = "none"
  /\ record.op \in Ops
  /\ begun < MaxBegun
  /\ begun' = begun + 1
  /\ tx' = [tx EXCEPT ![t] = record]
  /\ UNCHANGED <<db, committed, lock, net, today>>

Operation(op, items, q) ==
  [Idle EXCEPT !.op = op, !.code = Program[op], !.items = items, !.qty = q, !.left = q,
               !.request = items]

\* How often a request names an item.
Times(items, i) == Cardinality({k \in DOMAIN items : items[k] = i})

Asking(items, q) == [i \in Items |-> q * Times(items, i)]

\* An order is sold; an order is voided or refunded.
BeginSale(t) == \E plan \in Plans, q \in Quantities :
  Begin(t, [Operation("deduct", plan, q) EXCEPT !.ask = Asking(plan, -q)])

BeginReversal(t) == \E plan \in Plans, q \in Quantities :
  Begin(t, [Operation("restore", plan, q) EXCEPT !.ask = Asking(plan, q)])

\* Receipt of a purchase order or of stock, line by line; a batch entered by hand
\* is a receipt of one line.
BeginReceipt(t) == \E delivery \in Deliveries, q \in Quantities, d \in ExpiryDays :
  Begin(t, [Operation("receive", delivery, q) EXCEPT !.exp = d, !.ask = Asking(delivery, q)])

\* A waste report on a batch the user chose, for the ingredient the user chose.
BeginWaste(t) == \E i \in Items, q \in Quantities, b \in Batches :
  Begin(t, [Operation("waste", <<i>>, q) EXCEPT !.row = b, !.ask = Asking(<<i>>, -q)])

\* The expiry cron, on a batch its findMany returned.
BeginDisposal(t) == \E b \in Batches :
  /\ IsExpired(committed[b])
  /\ Begin(t, [Operation("dispose", <<committed[b].item>>, 0) EXCEPT !.row = b])

\* A manager accepts a transfer.
BeginTransfer(t) == \E r \in Transfers :
  Begin(t, [Operation("transfer", <<TransferOf[r].from, TransferOf[r].to>>,
                      TransferOf[r].qty) EXCEPT !.row = r])

-------------------------------------------------------------------------------
(* The statements.                                                         *)

\* Mutant: the decrement is not conditional.
CacheDownUnguarded(t) ==
  LET i == tx[t].items[1]
  IN /\ Runs(t, "CacheDown")
     /\ MayWrite(t, i)
     /\ Write(t, i, db[i] - tx[t].qty)
     /\ Continue(t, [tx[t] EXCEPT !.items = IF tx[t].op = "transfer" THEN Tail(@) ELSE @])
     /\ UNCHANGED <<committed, net, begun, today>>

\* Conditional decrement of the cache: stock: { gte: qty }.  The findUnique
\* before it rejects earlier what is already short.
CacheDown(t) ==
  LET i == tx[t].items[1]
  IN /\ Runs(t, "CacheDown")
     /\ MayWrite(t, i)
     /\ IF db[i] >= tx[t].qty
          THEN /\ Write(t, i, db[i] - tx[t].qty)
               /\ Continue(t, [tx[t] EXCEPT !.items =
                    IF tx[t].op = "transfer" THEN Tail(@) ELSE @])
               /\ UNCHANGED <<committed, net, begun, today>>
          ELSE Throw(t)

\* Increment of the cache, by update or upsert; a receipt goes on with its next line.
CacheUp(t) ==
  LET i == tx[t].items[1]
  IN /\ Runs(t, "CacheUp")
     /\ MayWrite(t, i)
     /\ Write(t, i, db[i] + tx[t].qty)
     /\ IF tx[t].op = "receive" /\ Len(tx[t].items) > 1
          THEN tx' = [tx EXCEPT ![t].items = Tail(@), ![t].code = Program["receive"]]
          ELSE Continue(t, tx[t])
     /\ UNCHANGED <<committed, net, begun, today>>

\* Mutant: first in first out, by createdAt alone.
FifoFirst(list, s) == s \in list /\ \A u \in list : s.id <= u.id

\* First expired first out: orderBy expiryDate, then createdAt.
First(list, s) ==
  /\ s \in list
  /\ \A u \in list : s.exp < u.exp \/ (s.exp = u.exp /\ s.id <= u.id)

Snapshot(t, b) ==
  [id |-> b, qty |-> Seen(t, b).qty, st |-> Seen(t, b).st, exp |-> Seen(t, b).exp]

BatchesOf(t, st) ==
  {Snapshot(t, b) : b \in {c \in Batches : /\ Seen(t, c).st = st
                                           /\ Seen(t, c).item = tx[t].items[1]}}

\* findMany of the batches of the item, with the quantities as read.  Only a
\* deduction leaves expired batches aside.
List(t) ==
  /\ Runs(t, "List")
  /\ Continue(t, [tx[t] EXCEPT !.list =
       {s \in BatchesOf(t, "ACTIVE") : tx[t].op = "deduct" => s.exp >= today}])
  /\ UNCHANGED <<db, committed, lock, net, begun, today>>

\* Mutant: a batch taken whole is emptied whatever it holds by then.
TakeUnguarded(t) ==
  \E b \in tx[t].list :
    LET whole == b.qty <= tx[t].left
        row == db[b.id]
    IN
     /\ Runs(t, "Take")
     /\ tx[t].left > 0
     /\ First(tx[t].list, b)
     /\ MayWrite(t, b.id)
     /\ IF whole \/ row.qty >= tx[t].left
          THEN /\ Write(t, b.id,
                    IF whole THEN [row EXCEPT !.qty = 0, !.st = "DEPLETED"]
                             ELSE [row EXCEPT !.qty = @ - tx[t].left])
               /\ tx' = [tx EXCEPT ![t].left = IF whole THEN @ - b.qty ELSE 0,
                                   ![t].list = @ \ {b}]
               /\ UNCHANGED <<committed, net, begun, today>>
          ELSE Throw(t)

\* Mutant: every batch is emptied whole, also the last, which holds more.
TakeWhole(t) ==
  \E b \in tx[t].list :
    /\ Runs(t, "Take")
    /\ tx[t].left > 0
    /\ First(tx[t].list, b)
    /\ MayWrite(t, b.id)
    /\ Write(t, b.id, [db[b.id] EXCEPT !.qty = 0, !.st = "DEPLETED"])
    /\ tx' = [tx EXCEPT ![t].left = @ - b.qty, ![t].list = @ \ {b}]
    /\ UNCHANGED <<committed, net, begun, today>>

\* The for loop of deductInventoryFIFO and acceptTransfer: one compare-and-swap
\* per batch, against the quantity as read or as needed.
Take(t) ==
  \E b \in tx[t].list :
    LET whole == b.qty <= tx[t].left
        row == db[b.id]
    IN
     /\ Runs(t, "Take")
     /\ tx[t].left > 0
     /\ First(tx[t].list, b)
     /\ MayWrite(t, b.id)
     /\ IF IF whole THEN row.qty = b.qty ELSE row.qty >= tx[t].left
          THEN /\ Write(t, b.id,
                    IF whole THEN [row EXCEPT !.qty = 0, !.st = "DEPLETED"]
                             ELSE [row EXCEPT !.qty = @ - tx[t].left])
               /\ tx' = [tx EXCEPT ![t].left = IF whole THEN @ - b.qty ELSE 0,
                                   ![t].list = @ \ {b},
                                   ![t].exp = IF b.exp < @ THEN b.exp ELSE @]
               /\ UNCHANGED <<committed, net, begun, today>>
          ELSE Throw(t)

\* The loop is over: the next ingredient, the next statement, or "batches are
\* out of sync".
TakeDone(t) ==
  /\ Runs(t, "Take")
  /\ tx[t].left = 0 \/ tx[t].list = {}
  /\ IF tx[t].left > 0 THEN Throw(t)
     ELSE /\ IF tx[t].op = "deduct" /\ Len(tx[t].items) > 1
               THEN tx' = [tx EXCEPT ![t].items = Tail(@), ![t].left = tx[t].qty,
                                     ![t].list = {}, ![t].code = Program["deduct"]]
               ELSE Continue(t, [tx[t] EXCEPT !.list = {}])
          /\ UNCHANGED <<db, committed, lock, net, begun, today>>

\* restoreInventory: the first ACTIVE batch, expired or not; else some DEPLETED
\* one (the last updated); else a new one.
Pick(t) ==
  LET active == BatchesOf(t, "ACTIVE")
      depleted == BatchesOf(t, "DEPLETED")
  IN /\ Runs(t, "Pick")
     /\ \/ \E b \in IF active # {} THEN active ELSE depleted :
             /\ active # {} => First(active, b)
             /\ Continue(t, [tx[t] EXCEPT !.list = {b}])
        \/ /\ active \union depleted = {}
           /\ tx' = [tx EXCEPT ![t].code = <<"Create", "PutBack">>]
     /\ UNCHANGED <<db, committed, lock, net, begun, today>>

\* An increment of the batch picked, whatever has become of it.
PutBack(t) ==
  /\ Runs(t, "PutBack")
  /\ \E b \in tx[t].list :
       /\ MayWrite(t, b.id)
       /\ Write(t, b.id, [db[b.id] EXCEPT !.qty = @ + tx[t].qty,
                            !.st = IF b.st = "DEPLETED" THEN "ACTIVE" ELSE @])
  /\ tx' = [tx EXCEPT ![t].list = {}]
  /\ UNCHANGED <<committed, net, begun, today>>

\* The next ingredient to restore, or the end.
PutBackDone(t) ==
  /\ Runs(t, "PutBack")
  /\ tx[t].list = {}
  /\ IF Len(tx[t].items) > 1
       THEN tx' = [tx EXCEPT ![t].items = Tail(@), ![t].code = Program["restore"]]
       ELSE Continue(t, tx[t])
  /\ UNCHANGED <<db, committed, lock, net, begun, today>>

\* A new batch of a receipt or at the target of a transfer.
Create(t) ==
  /\ Runs(t, "Create")
  /\ \E b \in Batches :
       /\ db[b].st = "none" /\ lock[b] = NoTxn
       /\ \A c \in Batches : db[c].st = "none" => b <= c
       /\ Write(t, b, [item |-> tx[t].items[1], qty |-> tx[t].qty, st |-> "ACTIVE",
                       exp |-> tx[t].exp])
  /\ Continue(t, tx[t])
  /\ UNCHANGED <<committed, net, begun, today>>

\* Mutant: the transfer is marked COMPLETED without looking at its status.
ClaimUnguarded(t) ==
  /\ Runs(t, "Claim")
  /\ MayWrite(t, tx[t].row)
  /\ Write(t, tx[t].row, "COMPLETED")
  /\ Continue(t, tx[t])
  /\ UNCHANGED <<committed, net, begun, today>>

\* acceptTransfer claims the PENDING transfer.
Claim(t) ==
  /\ Runs(t, "Claim")
  /\ MayWrite(t, tx[t].row)
  /\ IF db[tx[t].row] = "PENDING"
       THEN /\ Write(t, tx[t].row, "COMPLETED")
            /\ Continue(t, tx[t])
            /\ UNCHANGED <<committed, net, begun, today>>
       ELSE Throw(t)

\* recordWaste: the batch the report names counts if it is an ACTIVE one of the
\* branch, whatever its ingredient.
ReadNamed(t) ==
  LET s == Snapshot(t, tx[t].row)
      named == BranchOf[Seen(t, s.id).item] = BranchOf[tx[t].items[1]] /\ s.st = "ACTIVE"
  IN /\ Runs(t, "ReadNamed")
     /\ Continue(t, [tx[t] EXCEPT !.list = IF named THEN {s} ELSE {}])
     /\ UNCHANGED <<db, committed, lock, net, begun, today>>

\* disposeBatchAsWaste: nothing to do unless the batch is still ACTIVE.
ReadExpired(t) ==
  LET s == Snapshot(t, tx[t].row)
  IN /\ Runs(t, "ReadExpired")
     /\ IF s.st = "ACTIVE" /\ s.qty > 0
          THEN Continue(t, [tx[t] EXCEPT !.qty = s.qty, !.ask = Asking(tx[t].items, -s.qty)])
          ELSE tx' = [tx EXCEPT ![t].code = <<>>]
     /\ UNCHANGED <<db, committed, lock, net, begun, today>>

\* deductFromBatch: the new quantity is computed from the one read before.
Overwrite(t) ==
  /\ Runs(t, "Overwrite")
  /\ tx[t].left > 0
  /\ \E b \in tx[t].list :
       LET taken == IF b.qty < tx[t].left THEN b.qty ELSE tx[t].left
       IN /\ First(tx[t].list, b)
          /\ MayWrite(t, b.id)
          /\ IF taken = 0 THEN UNCHANGED <<db, lock>>
             ELSE Write(t, b.id, [db[b.id] EXCEPT !.qty = b.qty - taken,
                                    !.st = IF b.qty = taken THEN "DEPLETED" ELSE "ACTIVE"])
          /\ tx' = [tx EXCEPT ![t].left = @ - taken, ![t].list = @ \ {b}]
  /\ UNCHANGED <<committed, net, begun, today>>

\* recordWaste goes on even if the batches could not cover the quantity.
OverwriteDone(t) ==
  /\ Runs(t, "Overwrite")
  /\ tx[t].left = 0 \/ tx[t].list = {}
  /\ Continue(t, [tx[t] EXCEPT !.list = {}])
  /\ UNCHANGED <<db, committed, lock, net, begun, today>>

\* disposeBatchAsWaste empties the batch it read, whatever it has become.
Expire(t) ==
  /\ Runs(t, "Expire")
  /\ MayWrite(t, tx[t].row)
  /\ Write(t, tx[t].row, [db[tx[t].row] EXCEPT !.qty = 0, !.st = "EXPIRED"])
  /\ Continue(t, tx[t])
  /\ UNCHANGED <<committed, net, begun, today>>

NextDay == /\ today < LastDay
           /\ today' = today + 1
           /\ UNCHANGED <<db, committed, lock, tx, net, begun>>

Starts(t) == \/ BeginSale(t) \/ BeginReversal(t) \/ BeginReceipt(t)
             \/ BeginWaste(t) \/ BeginDisposal(t) \/ BeginTransfer(t)

Statement(t) == \/ CacheDown(t) \/ CacheUp(t) \/ List(t) \/ Take(t) \/ TakeDone(t)
                \/ Pick(t) \/ PutBack(t) \/ PutBackDone(t) \/ Create(t) \/ Claim(t)
                \/ ReadNamed(t) \/ ReadExpired(t) \/ Overwrite(t) \/ OverwriteDone(t) \/ Expire(t)

Next == \/ \E t \in Txns : Starts(t) \/ Statement(t) \/ Commit(t) \/ Abort(t)
        \/ NextDay

Spec == Init /\ [][Next]_vars

-------------------------------------------------------------------------------
(* Properties.                                                             *)

\* Every row keeps its type; an unlocked row has no uncommitted version.
TypeOK ==
  /\ \A v \in {db, committed} :
       /\ DOMAIN v = Rows
       /\ \A i \in Items : v[i] \in Int
       /\ \A b \in Batches : v[b] \in BatchRow
       /\ \A r \in Transfers : v[r] \in {"PENDING", "COMPLETED"}
  /\ FreeRowsCommitted
  /\ \A t \in Txns : tx[t].op \in DOMAIN Program \union {"none"} /\ tx[t].left >= 0
  /\ net \in [Items -> Int]

\* Stock never goes negative, whatever races: the guards of the code suffice and
\* the CHECK constraints behind them, which the model leaves out, never fire.
StockNonNegative == /\ \A i \in Items : db[i] >= 0
                    /\ \A b \in Batches : db[b].qty >= 0

\* The cache of every item is the sum of its ACTIVE batches, in every committed
\* state, and a batch that is not ACTIVE is empty.
CacheMatchesBatches ==
  /\ \A i \in Items : committed[i] = SumOf(committed, i, {"ACTIVE"})
  /\ \A b \in Batches : committed[b].st # "ACTIVE" => committed[b].qty = 0

Moved(r) == IF committed[r] = "COMPLETED" THEN TransferOf[r].qty ELSE 0

\* No committed change is lost or applied twice: the stock of an item is what it
\* was, plus what the committed operations asked, plus every transfer once.
StockBalances ==
  \A i \in Items :
    committed[i] = InitialDb[i] + net[i]
      + SumFunction([r \in {u \in Transfers : TransferOf[u].to = i} |-> Moved(r)])
      - SumFunction([r \in {u \in Transfers : TransferOf[u].from = i} |-> Moved(r)])

\* A sale takes from a batch only when no batch of the item that expires earlier,
\* and has not expired, is left.
FirstExpiredFirstOut ==
  [][\A t \in Txns, b, c \in Batches :
       /\ tx[t].op = "deduct" /\ tx'[t].op = "deduct"
       /\ lock'[b] = t /\ db'[b].qty < db[b].qty
       /\ IsBatchOf(Seen(t, c), db[b].item)
       /\ Seen(t, c).exp >= today /\ Seen(t, c).qty > 0
       => db[b].exp <= Seen(t, c).exp]_vars

\* The rows the next statement of t writes.
NextWrites(t) ==
  IF tx[t].code = <<>> THEN {}
  ELSE CASE Head(tx[t].code) \in {"CacheDown", "CacheUp"} -> {tx[t].items[1]}
         [] Head(tx[t].code) \in {"Take", "Overwrite", "PutBack"} ->
              {s.id : s \in {u \in tx[t].list : First(tx[t].list, u)}}
         [] Head(tx[t].code) \in {"Claim", "Expire"} -> {tx[t].row}
         [] OTHER -> {}

Waits(t, u) == \E r \in NextWrites(t) : lock[r] = u

\* Operations that take the cache of an item before the batches others know of.
Orderly == {"deduct", "restore", "receive", "dispose"}

\* Two requests name two items in opposite orders.
Cross(s, u) == \E k, l \in DOMAIN s, m, n \in DOMAIN u :
                 k < l /\ m < n /\ s[k] = u[n] /\ s[l] = u[m] /\ s[k] # s[l]

\* Two orderly operations wait for each other, so that PostgreSQL kills one of them,
\* only if they were asked for two items in opposite orders.
OnlyCrossingsDeadlock ==
  \A t, u \in Txns : t # u /\ {tx[t].op, tx[u].op} \subseteq Orderly
    => (Waits(t, u) /\ Waits(u, t) => Cross(tx[t].request, tx[u].request))
===============================================================================
