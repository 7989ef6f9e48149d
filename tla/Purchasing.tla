------------------------------- MODULE Purchasing -------------------------------
(***************************************************************************)
(* The life of a purchase order: drafted, submitted, approved or sent      *)
(* back, received into stock and paid.  Receipt and payment are each one   *)
(* transaction of RowStore that also enqueues an event; the events are     *)
(* posted later, at most once per reference (PostingPromise).  Submitting, *)
(* approving and rejecting read the status and then set it by id.          *)
(***************************************************************************)
EXTENDS Integers, FiniteSets, FiniteSetsExt

CONSTANTS
  Txns,           \* concurrent requests to the server
  PurchaseOrders,
  Stock,          \* the stock row the goods are received into
  Quantity,       \* what an order brings into stock
  Total,          \* what it costs
  MaxOverlaps,    \* bound on decisions begun while another on the order is under way
  MaxBegun,       \* bound on the operations begun
  NoTxn

ASSUME RowsAssumption == Stock \notin PurchaseOrders /\ NoTxn \notin Txns
ASSUME AmountsAssumption == /\ Quantity \in [PurchaseOrders -> Nat \ {0}]
                            /\ Total \in [PurchaseOrders -> Nat \ {0}]
                            /\ MaxBegun \in Nat
                            /\ MaxOverlaps \in Nat

VARIABLES
  db, committed, lock,  \* the rows: purchase orders and stock
  tx,      \* what each request is doing
  due,     \* references of committed events not posted yet
  ledger,  \* references posted to the journal
  begun,   \* operations begun
  overlaps \* decisions begun while another on the order was under way

vars == <<db, committed, lock, tx, due, ledger, begun, overlaps>>

Rows == PurchaseOrders \union {Stock}

INSTANCE RowStore

POStatuses == {"none", "DRAFT", "PENDING", "APPROVED", "RECEIVED"}
Order == [st : POStatuses, payment : {"UNPAID", "PAID"}]

Decisions == {"submit", "approve", "reject"}
Operations == Decisions \union {"create", "receive", "pay"}

\* Mutant: an approved order can be paid.
NeedsPayEarly == [submit |-> "DRAFT", approve |-> "PENDING", reject |-> "PENDING",
                  receive |-> "APPROVED", pay |-> "APPROVED"]

\* What an operation requires of the status it reads, and what a decision sets.
Needs == [submit |-> "DRAFT", approve |-> "PENDING", reject |-> "PENDING",
          receive |-> "APPROVED", pay |-> "RECEIVED"]
Sets == [submit |-> "PENDING", approve |-> "APPROVED", reject |-> "DRAFT"]

Idle == [op |-> "none", pc |-> "none", po |-> NoTxn]

InitialDb == [r \in Rows |-> IF r = Stock THEN 0 ELSE [st |-> "none", payment |-> "UNPAID"]]

Init == /\ db = InitialDb
        /\ committed = InitialDb
        /\ lock = [r \in Rows |-> NoTxn]
        /\ tx = [t \in Txns |-> Idle]
        /\ due = {}
        /\ ledger = {}
        /\ begun = 0
        /\ overlaps = 0

-------------------------------------------------------------------------------
Doing(t, op, pc) == tx[t].op = op /\ tx[t].pc = pc

GoTo(t, pc) == tx' = [tx EXCEPT ![t].pc = pc]

Throw(t) == /\ UndoWrites(t)
            /\ tx' = [tx EXCEPT ![t] = Idle]
            /\ UNCHANGED <<due, ledger, begun, overlaps>>

\* A timeout, a lost connection, a deadlock victim.
Abort(t) == tx[t].op # "none" /\ Throw(t)

\* The events enqueued by a transaction are committed with it.
Enqueued(t) == CASE tx[t].op = "receive" -> {<<"RECEIVED", tx[t].po>>}
                 [] tx[t].op = "pay"     -> {<<"PAID", tx[t].po>>}
                 [] OTHER -> {}

Commit(t) ==
  /\ tx[t].pc = "commit"
  /\ KeepWrites(t)
  /\ due' = due \union Enqueued(t)
  /\ tx' = [tx EXCEPT ![t] = Idle]
  /\ UNCHANGED <<ledger, begun, overlaps>>

Begin(t, op, po, pc) ==
  /\ tx[t].op = "none"
  /\ begun < MaxBegun
  /\ begun' = begun + 1
  /\ tx' = [tx EXCEPT ![t] = [op |-> op, pc |-> pc, po |-> po]]
  /\ UNCHANGED <<db, committed, lock, due, ledger>>

\* createPO: the number comes from a sequence, so no two orders share it.
Create(t) == \E po \in PurchaseOrders :
  /\ db[po].st = "none" /\ lock[po] = NoTxn
  /\ tx[t].op = "none"
  /\ begun < MaxBegun
  /\ begun' = begun + 1
  /\ Write(t, po, [st |-> "DRAFT", payment |-> "UNPAID"])
  /\ tx' = [tx EXCEPT ![t] = [op |-> "create", pc |-> "commit", po |-> po]]
  /\ UNCHANGED <<committed, due, ledger, overlaps>>

\* validatePOStatus, outside any transaction.
ReadDecision(t) == \E po \in PurchaseOrders, op \in Decisions :
  /\ committed[po].st = Needs[op]
  /\ Begin(t, op, po, "set")
  /\ IF \E u \in Txns : tx[u].op \in Decisions /\ tx[u].po = po
       THEN overlaps < MaxOverlaps /\ overlaps' = overlaps + 1
       ELSE UNCHANGED overlaps

\* purchaseOrder.update by id: the status read before is not part of the WHERE.
Decide(t) ==
  LET po == tx[t].po
  IN /\ tx[t].pc = "set"
     /\ MayWrite(t, po)
     /\ Write(t, po, [db[po] EXCEPT !.st = Sets[tx[t].op]])
     /\ GoTo(t, "commit")
     /\ UNCHANGED <<committed, due, ledger, begun, overlaps>>

\* receivePO and payPO validate inside their transaction; nothing is written yet.
Validate(t) == \E po \in PurchaseOrders, op \in {"receive", "pay"} :
  /\ committed[po].st = Needs[op]
  /\ op = "pay" => committed[po].payment = "UNPAID"
  /\ Begin(t, op, po, "claim")
  /\ UNCHANGED overlaps

\* Mutant: the receipt does not look at the status again.
ReceiveUnguarded(t) ==
  LET po == tx[t].po
  IN /\ Doing(t, "receive", "claim")
     /\ MayWrite(t, po)
     /\ Write(t, po, [db[po] EXCEPT !.st = "RECEIVED"])
     /\ GoTo(t, "goods")
     /\ UNCHANGED <<committed, due, ledger, begun, overlaps>>

\* The receipt claims the APPROVED order.
Receive(t) ==
  LET po == tx[t].po
  IN /\ Doing(t, "receive", "claim")
     /\ MayWrite(t, po)
     /\ IF db[po].st # "APPROVED" THEN Throw(t)
        ELSE /\ Write(t, po, [db[po] EXCEPT !.st = "RECEIVED"])
             /\ GoTo(t, "goods")
             /\ UNCHANGED <<committed, due, ledger, begun, overlaps>>

\* Batches and stock of the order.
TakeIn(t) ==
  /\ Doing(t, "receive", "goods")
  /\ MayWrite(t, Stock)
  /\ Write(t, Stock, db[Stock] + Quantity[tx[t].po])
  /\ GoTo(t, "commit")
  /\ UNCHANGED <<committed, due, ledger, begun, overlaps>>

\* The payment claims the UNPAID order, whatever its status has become.
Pay(t) ==
  LET po == tx[t].po
  IN /\ Doing(t, "pay", "claim")
     /\ MayWrite(t, po)
     /\ IF db[po].payment # "UNPAID" THEN Throw(t)
        ELSE /\ Write(t, po, [db[po] EXCEPT !.payment = "PAID"])
             /\ GoTo(t, "commit")
             /\ UNCHANGED <<committed, due, ledger, begun, overlaps>>

\* The outbox posts an event: poNumber and PAY-poNumber are unique references.
Post == \E e \in due :
  /\ due' = due \ {e}
  /\ ledger' = ledger \union {e}
  /\ UNCHANGED <<db, committed, lock, tx, begun, overlaps>>

Steps(t) == \/ Create(t) \/ ReadDecision(t) \/ Decide(t) \/ Validate(t)
            \/ Receive(t) \/ TakeIn(t) \/ Pay(t) \/ Commit(t) \/ Abort(t)

Next == (\E t \in Txns : Steps(t)) \/ Post

Spec == Init /\ [][Next]_vars

-------------------------------------------------------------------------------
(* Properties.                                                             *)

References == {"RECEIVED", "PAID"} \X PurchaseOrders

OnRows(v) == v = [r \in Rows |-> v[r]]
StockTyped(v) == v[Stock] \in Nat
OrdersTyped(v) == \A po \in PurchaseOrders : v[po] \in Order
WellTyped(v) == OnRows(v) /\ StockTyped(v) /\ OrdersTyped(v)

\* Every row keeps its type, and nothing uncommitted outlives its transaction.
TypeOK ==
  /\ WellTyped(db)
  /\ WellTyped(committed)
  /\ FreeRowsCommitted
  /\ \A t \in Txns : tx[t].op = "none" => \A r \in Rows : lock[r] # t
  /\ due \subseteq References
  /\ ledger \subseteq References
  /\ begun \in 0 .. MaxBegun
  /\ overlaps \in Nat

Recorded == due \union ledger

\* An order is paid only after its goods came in.
PaymentFollowsReceipt ==
  \A po \in PurchaseOrders : committed[po].payment = "PAID" =>
    <<"PAID", po>> \in Recorded /\ <<"RECEIVED", po>> \in Recorded

\* Nobody decided on an order while somebody else was deciding on it.
Orderly == overlaps = 0

Billed(kind) == SumFunctionOnSet(Total, {po \in PurchaseOrders : <<kind, po>> \in ledger})

\* docs/architecture.md: once every event is posted, the AP account reconciles
\* to the list of received and unpaid orders, if decisions did not overlap.
AgingReconciles ==
  Orderly /\ due = {} =>
    Billed("RECEIVED") - Billed("PAID") =
      SumFunctionOnSet(Total, {po \in PurchaseOrders : /\ committed[po].st = "RECEIVED"
                                                       /\ committed[po].payment = "UNPAID"})

\* docs/architecture.md: stock on hand equals what the inventory account says
\* came in, once every event is posted.
StockFollowsLedger ==
  due = {} => committed[Stock] =
    SumFunctionOnSet(Quantity, {po \in PurchaseOrders : <<"RECEIVED", po>> \in ledger})

\* It does if decisions did not overlap: every receipt is in stock once.
OrderlyStockFollowsLedger == Orderly => StockFollowsLedger
===============================================================================
