---------------------------- MODULE PurchasingProofs ----------------------------
(***************************************************************************)
(* Theorems about Purchasing for every set of requests and orders, every   *)
(* quantity and total, overlapping decisions or not.                       *)
(***************************************************************************)
EXTENDS Purchasing, SumProofs, FiniteSetTheorems, TLAPS

Pcs == {"none", "set", "claim", "goods", "commit"}

\* A request works on an order unless it is idle; only decisions set a status
\* by id, and only a receipt handles goods.
TxInv ==
  /\ tx \in [Txns -> [op : Operations \union {"none"}, pc : Pcs,
                      po : PurchaseOrders \union {NoTxn}]]
  /\ \A t \in Txns : /\ tx[t].op # "none" => tx[t].po \in PurchaseOrders
                     /\ tx[t].op = "none" <=> tx[t].pc = "none"
                     /\ tx[t].pc = "set" => tx[t].op \in Decisions
                     /\ tx[t].pc = "goods" => tx[t].op = "receive"

\* A request holds at most the order it works on, and a receipt the stock.
LockInv ==
  \A t \in Txns :
    /\ \A po \in PurchaseOrders : lock[po] = t =>
         tx[t].op # "none" /\ tx[t].po = po
    /\ lock[Stock] = t => tx[t].op = "receive"

TypeInv == TypeOK /\ TxInv /\ LockInv

-------------------------------------------------------------------------------
(* The versions of the rows: what a write, a COMMIT or a ROLLBACK leaves.  *)

LEMMA WriteOrder ==
  ASSUME NEW v, WellTyped(v), NEW po \in PurchaseOrders, NEW record \in Order
  PROVE  WellTyped([v EXCEPT ![po] = record])
<1>1. OnRows([v EXCEPT ![po] = record])
  BY DEF WellTyped, OnRows, Rows
<1>2. StockTyped([v EXCEPT ![po] = record])
  BY RowsAssumption DEF WellTyped, OnRows, Rows, StockTyped
<1>3. OrdersTyped([v EXCEPT ![po] = record])
  BY DEF WellTyped, OnRows, Rows, OrdersTyped
<1> QED BY <1>1, <1>2, <1>3 DEF WellTyped

LEMMA WriteStock ==
  ASSUME NEW v, WellTyped(v), NEW n \in Nat
  PROVE  WellTyped([v EXCEPT ![Stock] = n])
<1>1. OnRows([v EXCEPT ![Stock] = n])
  BY DEF WellTyped, OnRows, Rows
<1>2. StockTyped([v EXCEPT ![Stock] = n])
  BY DEF WellTyped, OnRows, Rows, StockTyped
<1>3. OrdersTyped([v EXCEPT ![Stock] = n])
  BY RowsAssumption DEF WellTyped, OnRows, Rows, OrdersTyped
<1> QED BY <1>1, <1>2, <1>3 DEF WellTyped

LEMMA MergeVersions ==
  ASSUME NEW v, WellTyped(v), NEW w, WellTyped(w), NEW merged, OnRows(merged),
         \A r \in Rows : merged[r] = v[r] \/ merged[r] = w[r]
  PROVE  WellTyped(merged)
<1>1. StockTyped(merged)
  BY DEF WellTyped, Rows, StockTyped
<1>2. OrdersTyped(merged)
  BY DEF WellTyped, Rows, OrdersTyped
<1> QED BY <1>1, <1>2 DEF WellTyped

\* What a receipt or a payment that finds its order as it should does.
Receives(t) ==
  /\ tx[t].op = "receive" /\ tx[t].pc = "claim"
  /\ lock[tx[t].po] \in {NoTxn, t} /\ lock' = [lock EXCEPT ![tx[t].po] = t]
  /\ db' = [db EXCEPT ![tx[t].po] = [db[tx[t].po] EXCEPT !.st = "RECEIVED"]]
  /\ tx' = [tx EXCEPT ![t].pc = "goods"]
  /\ UNCHANGED <<committed, due, ledger, begun, overlaps>>

LEMMA ReceiveEffect ==
  ASSUME NEW t \in Txns, Receive(t), db[tx[t].po].st = "APPROVED"
  PROVE  Receives(t)
BY DEF Receives, Receive, GoTo, Write, MayWrite, Doing

Pays(t) ==
  /\ tx[t].op = "pay" /\ tx[t].pc = "claim"
  /\ lock[tx[t].po] \in {NoTxn, t} /\ lock' = [lock EXCEPT ![tx[t].po] = t]
  /\ db' = [db EXCEPT ![tx[t].po] = [db[tx[t].po] EXCEPT !.payment = "PAID"]]
  /\ tx' = [tx EXCEPT ![t].pc = "commit"]
  /\ UNCHANGED <<committed, due, ledger, begun, overlaps>>

LEMMA PayEffect ==
  ASSUME NEW t \in Txns, Pay(t), db[tx[t].po].payment = "UNPAID"
  PROVE  Pays(t)
BY DEF Pays, Pay, GoTo, Write, MayWrite, Doing

LEMMA InitType == Init => TypeInv
<1> SUFFICES ASSUME Init PROVE TypeInv
  OBVIOUS
<1>1. WellTyped(InitialDb)
  <2>1. OnRows(InitialDb)
    BY DEF OnRows, InitialDb
  <2>2. StockTyped(InitialDb)
    BY DEF StockTyped, InitialDb, Rows
  <2>3. OrdersTyped(InitialDb)
    BY RowsAssumption DEF OrdersTyped, InitialDb, Rows, Order, POStatuses
  <2> QED BY <2>1, <2>2, <2>3 DEF WellTyped
<1>2. TypeOK
  BY <1>1, RowsAssumption, AmountsAssumption
     DEF Init, TypeOK, FreeRowsCommitted, Rows, References
<1>3. TxInv /\ LockInv
  BY RowsAssumption DEF Init, Idle, TxInv, LockInv, Rows, Operations, Decisions, Pcs
<1> QED BY <1>2, <1>3 DEF TypeInv

\* Every step keeps the types, and the rows held by the request that wrote them.
LEMMA NextType == TypeInv /\ [Next]_vars => TypeInv'
<1> SUFFICES ASSUME TypeInv, [Next]_vars PROVE TypeInv'
  OBVIOUS
<1> USE RowsAssumption, AmountsAssumption
    DEF TypeInv, TypeOK, TxInv, LockInv, FreeRowsCommitted, Rows, Operations, Decisions, Pcs
<1>1. ASSUME NEW t \in Txns, Create(t) PROVE TypeInv'
  <2> PICK po \in PurchaseOrders :
        /\ db[po].st = "none" /\ lock[po] = NoTxn
        /\ tx[t].op = "none"
        /\ Write(t, po, [st |-> "DRAFT", payment |-> "UNPAID"])
        /\ tx' = [tx EXCEPT ![t] = [op |-> "create", pc |-> "commit", po |-> po]]
        /\ begun < MaxBegun /\ begun' = begun + 1
        /\ UNCHANGED <<committed, due, ledger, overlaps>>
    BY <1>1 DEF Create
  <2>1. WellTyped(db')
    BY WriteOrder DEF Write, Order, POStatuses
  <2> QED BY <2>1 DEF Write
<1>2. ASSUME NEW t \in Txns, ReadDecision(t) PROVE TypeInv'
  BY <1>2 DEF ReadDecision, Begin
<1>3. ASSUME NEW t \in Txns, Decide(t) PROVE TypeInv'
  <2> tx[t].op \in Decisions /\ tx[t].po \in PurchaseOrders
    BY <1>3 DEF Decide
  <2>0. Sets[tx[t].op] \in {"PENDING", "APPROVED", "DRAFT"}
    BY DEF Sets
  <2>1. [db[tx[t].po] EXCEPT !.st = Sets[tx[t].op]] \in Order
    BY <2>0 DEF WellTyped, OrdersTyped, Order, POStatuses
  <2>2. WellTyped(db')
    BY <1>3, <2>1, WriteOrder DEF Decide, Write
  <2> QED BY <1>3, <2>2 DEF Decide, GoTo, Write, MayWrite
<1>4. ASSUME NEW t \in Txns, Validate(t) PROVE TypeInv'
  BY <1>4 DEF Validate, Begin
<1>5. ASSUME NEW t \in Txns, Throw(t) PROVE TypeInv'
  <2>1. OnRows(db') /\ \A r \in Rows : db'[r] = committed[r] \/ db'[r] = db[r]
    BY <1>5 DEF Throw, UndoWrites, OnRows
  <2>2. WellTyped(db')
    BY <2>1, MergeVersions
  <2> QED BY <1>5, <2>2 DEF Throw, UndoWrites, Release, Idle
<1>6. ASSUME NEW t \in Txns, Receive(t) PROVE TypeInv'
  <2>1. CASE db[tx[t].po].st = "APPROVED"
    <3>1. [db[tx[t].po] EXCEPT !.st = "RECEIVED"] \in Order
      BY <1>6 DEF Receive, Doing, WellTyped, OrdersTyped, Order, POStatuses
    <3>2. WellTyped(db')
      BY <1>6, <2>1, <3>1, WriteOrder DEF Receive, Doing, Write
    <3>3. Receives(t)
      BY <1>6, <2>1, ReceiveEffect
    <3> QED BY <3>2, <3>3 DEF Receives
  <2> QED BY <1>5, <1>6, <2>1 DEF Receive
<1>7. ASSUME NEW t \in Txns, TakeIn(t) PROVE TypeInv'
  <2>1. db[Stock] + Quantity[tx[t].po] \in Nat
    BY <1>7 DEF TakeIn, Doing, WellTyped, StockTyped
  <2>2. WellTyped(db')
    BY <1>7, <2>1, WriteStock DEF TakeIn, Write
  <2> QED BY <1>7, <2>2 DEF TakeIn, GoTo, Write, MayWrite, Doing
<1>8. ASSUME NEW t \in Txns, Pay(t) PROVE TypeInv'
  <2>1. CASE db[tx[t].po].payment = "UNPAID"
    <3>1. [db[tx[t].po] EXCEPT !.payment = "PAID"] \in Order
      BY <1>8 DEF Pay, Doing, WellTyped, OrdersTyped, Order
    <3>2. WellTyped(db')
      BY <1>8, <2>1, <3>1, WriteOrder DEF Pay, Doing, Write
    <3>3. Pays(t)
      BY <1>8, <2>1, PayEffect
    <3> QED BY <3>2, <3>3 DEF Pays
  <2> QED BY <1>5, <1>8, <2>1 DEF Pay
<1>9. ASSUME NEW t \in Txns, Commit(t) PROVE TypeInv'
  <2>0. OnRows(committed') /\ \A r \in Rows : committed'[r] = db[r] \/ committed'[r] = committed[r]
    BY <1>9 DEF Commit, KeepWrites, OnRows
  <2>1. WellTyped(committed')
    BY <2>0, MergeVersions
  <2>2. due' \subseteq References
    BY <1>9 DEF Commit, Enqueued, References
  <2> QED BY <1>9, <2>1, <2>2 DEF Commit, KeepWrites, Release, Idle
<1>10. ASSUME NEW t \in Txns, Abort(t) PROVE TypeInv'
  BY <1>5, <1>10 DEF Abort
<1>11. ASSUME Post PROVE TypeInv'
  BY <1>11 DEF Post
<1>12. ASSUME UNCHANGED vars PROVE TypeInv'
  BY <1>12 DEF vars
<1> QED BY <1>1, <1>2, <1>3, <1>4, <1>6, <1>7, <1>8, <1>9, <1>10, <1>11, <1>12
        DEF Next, Steps

\* Every reachable state is well typed, and a row is held only by the request
\* that wrote it: TypeOK of every run of Purchasing.
THEOREM TypeCorrect == Spec => []TypeOK
<1>1. Spec => []TypeInv
  BY InitType, NextType, PTL DEF Spec
<1>2. TypeInv => TypeOK
  BY DEF TypeInv
<1> QED BY <1>1, <1>2, PTL

-------------------------------------------------------------------------------
HeldFor(po, op) == lock[po] \in Txns /\ tx[lock[po]].op = op

\* An order is RECEIVED, or about to be paid, only after its receipt event; it is
\* marked paid only by a payment.
ReceiptInv ==
  /\ \A po \in PurchaseOrders :
       /\ committed[po].st = "RECEIVED" => <<"RECEIVED", po>> \in Recorded
       /\ db[po].st = "RECEIVED" => <<"RECEIVED", po>> \in Recorded \/ HeldFor(po, "receive")
       /\ db[po].payment = "PAID" => committed[po].payment = "PAID" \/ HeldFor(po, "pay")
  /\ \A t \in Txns : tx[t].op = "pay" => <<"RECEIVED", tx[t].po>> \in Recorded

PaymentInv == PaymentFollowsReceipt /\ ReceiptInv

LEMMA InitPayment == Init => PaymentInv
BY RowsAssumption
   DEF Init, InitialDb, Idle, PaymentInv, PaymentFollowsReceipt, ReceiptInv, Rows

\* No step forgets an event or marks an order without its event.
LEMMA NextPayment == TypeInv /\ PaymentInv /\ [Next]_vars => PaymentInv'
<1> SUFFICES ASSUME TypeInv, PaymentInv, [Next]_vars PROVE PaymentInv'
  OBVIOUS
<1> USE RowsAssumption
    DEF TypeInv, TypeOK, WellTyped, OnRows, OrdersTyped, TxInv, LockInv, FreeRowsCommitted,
        Rows, Order, Operations, Decisions, PaymentInv, PaymentFollowsReceipt, ReceiptInv, HeldFor, Recorded
<1>1. ASSUME NEW t \in Txns, Create(t) PROVE PaymentInv'
  BY <1>1 DEF Create, Write
<1>2. ASSUME NEW t \in Txns, ReadDecision(t) PROVE PaymentInv'
  BY <1>2 DEF ReadDecision, Begin
<1>3. ASSUME NEW t \in Txns, Decide(t) PROVE PaymentInv'
  BY <1>3 DEF Decide, GoTo, Write, MayWrite, Sets
<1>4. ASSUME NEW t \in Txns, Validate(t) PROVE PaymentInv'
  BY <1>4 DEF Validate, Begin, Needs
<1>5. ASSUME NEW t \in Txns, Throw(t) PROVE PaymentInv'
  BY <1>5 DEF Throw, UndoWrites, Release, Idle
<1>6. ASSUME NEW t \in Txns, Receive(t) PROVE PaymentInv'
  <2>1. CASE db[tx[t].po].st = "APPROVED"
    <3>1. Receives(t)
      BY <1>6, <2>1, ReceiveEffect
    <3> QED BY <3>1 DEF Receives
  <2> QED BY <1>5, <1>6, <2>1 DEF Receive
<1>7. ASSUME NEW t \in Txns, TakeIn(t) PROVE PaymentInv'
  BY <1>7 DEF TakeIn, GoTo, Write, MayWrite, Doing
<1>8. ASSUME NEW t \in Txns, Pay(t) PROVE PaymentInv'
  <2>1. CASE db[tx[t].po].payment = "UNPAID"
    <3>1. Pays(t)
      BY <1>8, <2>1, PayEffect
    <3> QED BY <3>1 DEF Pays
  <2> QED BY <1>5, <1>8, <2>1 DEF Pay
<1>9. ASSUME NEW t \in Txns, Commit(t) PROVE PaymentInv'
  BY <1>9 DEF Commit, KeepWrites, Release, Idle, Enqueued
<1>10. ASSUME NEW t \in Txns, Abort(t) PROVE PaymentInv'
  BY <1>5, <1>10 DEF Abort
<1>11. ASSUME Post PROVE PaymentInv'
  BY <1>11 DEF Post
<1>12. ASSUME UNCHANGED vars PROVE PaymentInv'
  BY <1>12 DEF vars
<1> QED BY <1>1, <1>2, <1>3, <1>4, <1>6, <1>7, <1>8, <1>9, <1>10, <1>11, <1>12
        DEF Next, Steps

\* However decisions, receipts and payments interleave, no order is paid whose
\* goods were not received and recorded.
THEOREM PaymentFollowsReceiptHolds == Spec => []PaymentFollowsReceipt
<1>1. Spec => []TypeInv
  BY InitType, NextType, PTL DEF Spec
<1>2. Spec => []PaymentInv
  BY <1>1, InitPayment, NextPayment, PTL DEF Spec
<1>3. PaymentInv => PaymentFollowsReceipt
  BY DEF PaymentInv
<1> QED BY <1>2, <1>3, PTL

-------------------------------------------------------------------------------
(* The books, while decisions do not overlap.                              *)

\* What a request has read still holds, and it holds what it is about to commit.
RequestInv(t) ==
  LET x == tx[t]
  IN /\ x.op \in Decisions => committed[x.po].st = Needs[x.op]
     /\ x.op = "receive" => committed[x.po].st \in {"APPROVED", "RECEIVED"}
     /\ x.op = "pay" => committed[x.po].st = "RECEIVED"
     /\ x.pc \in {"goods", "commit"} => lock[x.po] = t
     /\ x.op = "receive" /\ x.pc = "commit" <=> lock[Stock] = t
     /\ \A u \in Txns : x.op \in Decisions /\ tx[u].op \in Decisions /\ tx[u].po = x.po => u = t

\* How the version a request holds differs from the committed one.
HeldInv(t) ==
  LET x == tx[t]
  IN /\ \A po \in PurchaseOrders : lock[po] = t =>
          /\ x.pc \in {"goods", "commit"}
          /\ x.op = "create" => /\ committed[po] = [st |-> "none", payment |-> "UNPAID"]
                                /\ db[po] = [st |-> "DRAFT", payment |-> "UNPAID"]
          /\ x.op \in Decisions => db[po] = [committed[po] EXCEPT !.st = Sets[x.op]]
          /\ x.op = "receive" => /\ committed[po].st = "APPROVED"
                                 /\ db[po] = [committed[po] EXCEPT !.st = "RECEIVED"]
          /\ x.op = "pay" => /\ committed[po].payment = "UNPAID"
                             /\ db[po] = [committed[po] EXCEPT !.payment = "PAID"]
     /\ lock[Stock] = t => db[Stock] = committed[Stock] + Quantity[x.po]

\* The events tell what the rows say.
RecordInv(po) ==
  /\ committed[po].st = "RECEIVED" <=> <<"RECEIVED", po>> \in Recorded
  /\ committed[po].payment = "PAID" <=> <<"PAID", po>> \in Recorded
  /\ committed[po].payment = "PAID" => committed[po].st = "RECEIVED"
  /\ committed[po].st = "none" => committed[po].payment = "UNPAID"

Received == {po \in PurchaseOrders : committed[po].st = "RECEIVED"}

StockInv == IsFiniteSet(Received) /\ committed[Stock] = SumFunctionOnSet(Quantity, Received)

BooksInv == Orderly => /\ \A t \in Txns : RequestInv(t) /\ HeldInv(t)
                       /\ \A po \in PurchaseOrders : RecordInv(po)
                       /\ StockInv

\* Only t moves, and nothing is committed.
Quiet(t) ==
  /\ committed' = committed /\ Recorded' = Recorded
  /\ \A u \in Txns \ {t} : /\ tx'[u] = tx[u]
                           /\ \A r \in Rows : /\ lock'[r] = u <=> lock[r] = u
                                              /\ lock[r] = u => db'[r] = db[r]

\* No other request decides on an order.
Alone(t, po) == \A u \in Txns \ {t} : tx[u].op \in Decisions => tx[u].po # po

LEMMA QuietBooks ==
  ASSUME TypeInv, BooksInv, Orderly, NEW t \in Txns, Quiet(t), RequestInv(t)', HeldInv(t)',
         tx'[t].op \in Decisions => Alone(t, tx'[t].po)
  PROVE  BooksInv'
<1>1. ASSUME NEW u \in Txns \ {t} PROVE RequestInv(u)' /\ HeldInv(u)'
  <2>1. RequestInv(u) /\ HeldInv(u) /\ tx'[u] = tx[u] /\ committed' = committed
    BY DEF BooksInv, Quiet
  <2>2. \A r \in Rows : (lock'[r] = u <=> lock[r] = u) /\ (lock[r] = u => db'[r] = db[r])
    BY DEF Quiet
  <2>3. tx[u].op # "none" => tx[u].po \in PurchaseOrders
    BY DEF TypeInv, TxInv
  <2>4. tx[u].pc \in {"goods", "commit"} => tx[u].op # "none"
    BY DEF TypeInv, TxInv
  <2>5. ASSUME NEW w \in Txns, tx'[u].op \in Decisions, tx'[w].op \in Decisions,
               tx'[w].po = tx'[u].po
        PROVE  w = u
    <3>1. CASE w = t
      BY <2>1, <2>5, <3>1 DEF Alone
    <3>2. CASE w # t
      <4>1. tx'[w] = tx[w]
        BY <3>2 DEF Quiet
      <4> QED BY <2>1, <2>5, <4>1 DEF RequestInv
    <3> QED BY <3>1, <3>2
  <2>6. RequestInv(u)'
    BY <2>1, <2>2, <2>3, <2>4, <2>5 DEF RequestInv, Rows
  <2>7. HeldInv(u)'
    BY <2>1, <2>2 DEF HeldInv, Rows
  <2> QED BY <2>6, <2>7
<1>2. \A po \in PurchaseOrders : RecordInv(po)'
  BY DEF BooksInv, Quiet, RecordInv
<1>3. StockInv'
  BY DEF BooksInv, Quiet, StockInv, Received
<1> QED BY <1>1, <1>2, <1>3 DEF BooksInv

\* What a write of a row and the end of a transaction leave to the others.
WriteQuietly(t, r, value, y) ==
  /\ MayWrite(t, r) /\ Write(t, r, value)
  /\ tx' = [tx EXCEPT ![t] = y] /\ UNCHANGED <<committed, due, ledger>>

Wrote(t, r, value, y) ==
  /\ Quiet(t) /\ tx'[t] = y
  /\ \A p \in Rows : /\ lock'[p] = IF p = r THEN t ELSE lock[p]
                     /\ db'[p] = IF p = r THEN value ELSE db[p]
  /\ \/ lock[r] = t
     \/ lock[r] = NoTxn /\ db[r] = committed[r]

LEMMA WriteQuiet ==
  ASSUME TypeInv, NEW t \in Txns, NEW r \in Rows, NEW value, NEW y, WriteQuietly(t, r, value, y)
  PROVE  Wrote(t, r, value, y)
BY RowsAssumption
   DEF WriteQuietly, Wrote, MayWrite, Write, Quiet, Recorded, TypeInv, TypeOK, TxInv, WellTyped,
       OnRows, FreeRowsCommitted

LEMMA ThrowBooks ==
  ASSUME TypeInv, BooksInv, Orderly, NEW t \in Txns, Throw(t)
  PROVE  BooksInv'
<1>1. Quiet(t)
  BY RowsAssumption
     DEF Throw, UndoWrites, Release, Quiet, Recorded, TypeInv, TypeOK, TxInv, FreeRowsCommitted
<1>2. tx'[t] = Idle /\ \A r \in Rows : lock'[r] # t
  BY RowsAssumption DEF Throw, UndoWrites, Release, TypeInv, TypeOK, TxInv, FreeRowsCommitted
<1>3. RequestInv(t)' /\ HeldInv(t)'
  BY <1>2 DEF RequestInv, HeldInv, Idle, Decisions, Rows
<1>4. tx'[t].op \notin Decisions
  BY <1>2 DEF Idle, Decisions
<1> QED BY <1>1, <1>3, <1>4, QuietBooks

LEMMA BeginBooks ==
  ASSUME TypeInv, BooksInv, Orderly, NEW t \in Txns,
         NEW op \in Decisions \union {"receive", "pay"}, NEW po \in PurchaseOrders,
         NEW pc \in {"set", "claim"}, Begin(t, op, po, pc), committed[po].st = Needs[op],
         op \in Decisions => Alone(t, po)
  PROVE  BooksInv'
<1>1. /\ tx[t].op = "none" /\ UNCHANGED <<db, committed, lock, due, ledger>>
      /\ tx'[t] = [op |-> op, pc |-> pc, po |-> po]
      /\ \A u \in Txns \ {t} : tx'[u] = tx[u]
  BY DEF Begin, TypeInv, TxInv
<1>2. Quiet(t)
  BY <1>1 DEF Quiet, Recorded
<1>3. \A r \in Rows : lock'[r] # t
  BY <1>1 DEF TypeInv, TypeOK
<1>4. tx'[t].op = op /\ tx'[t].pc = pc /\ tx'[t].po = po
  BY <1>1
<1>5. HeldInv(t)'
  BY <1>3 DEF HeldInv, Rows
<1>6. /\ op \in Decisions => committed[po].st = Needs[op]
      /\ op = "receive" => committed[po].st = "APPROVED"
      /\ op = "pay" => committed[po].st = "RECEIVED"
  BY DEF Needs
<1>7. ASSUME NEW u \in Txns, op \in Decisions, tx'[u].op \in Decisions, tx'[u].po = po
      PROVE  u = t
  BY <1>1, <1>7 DEF Alone
<1>8. RequestInv(t)'
  BY <1>1, <1>3, <1>4, <1>6, <1>7 DEF RequestInv, Rows
<1> QED BY <1>2, <1>4, <1>5, <1>8, QuietBooks

LEMMA ValidateBooks ==
  ASSUME TypeInv, BooksInv, Orderly, NEW t \in Txns, Validate(t)
  PROVE  BooksInv'
<1>1. PICK po \in PurchaseOrders, op \in {"receive", "pay"} :
        committed[po].st = Needs[op] /\ Begin(t, op, po, "claim")
  BY DEF Validate
<1>2. op \notin Decisions
  BY DEF Decisions
<1> QED BY <1>1, <1>2, BeginBooks

LEMMA ReadDecisionBooks ==
  ASSUME TypeInv, BooksInv, Orderly', NEW t \in Txns, ReadDecision(t)
  PROVE  BooksInv'
<1>1. PICK po \in PurchaseOrders, op \in Decisions :
        /\ committed[po].st = Needs[op] /\ Begin(t, op, po, "set")
        /\ IF \E u \in Txns : tx[u].op \in Decisions /\ tx[u].po = po
             THEN overlaps' = overlaps + 1 ELSE UNCHANGED overlaps
  BY DEF ReadDecision
<1>2. overlaps = 0 /\ Alone(t, po)
  BY <1>1 DEF Orderly, TypeInv, TypeOK, Alone
<1>3. Orderly
  BY <1>2 DEF Orderly
<1> QED BY <1>1, <1>2, <1>3, BeginBooks

LEMMA CreateBooks ==
  ASSUME TypeInv, BooksInv, Orderly, NEW t \in Txns, Create(t)
  PROVE  BooksInv'
<1>1. PICK po \in PurchaseOrders :
        /\ db[po].st = "none" /\ lock[po] = NoTxn /\ tx[t].op = "none"
        /\ Write(t, po, [st |-> "DRAFT", payment |-> "UNPAID"])
        /\ tx' = [tx EXCEPT ![t] = [op |-> "create", pc |-> "commit", po |-> po]]
        /\ UNCHANGED <<committed, due, ledger>>
  BY DEF Create
<1>2. PICK y : y = [op |-> "create", pc |-> "commit", po |-> po]
  OBVIOUS
<1>3. y.op = "create" /\ y.pc = "commit" /\ y.po = po /\ po \in Rows /\ po # Stock
  BY <1>2, RowsAssumption DEF Rows
<1>4. /\ Quiet(t) /\ tx'[t] = y
      /\ \A p \in Rows : /\ lock'[p] = IF p = po THEN t ELSE lock[p]
                         /\ db'[p] = IF p = po THEN [st |-> "DRAFT", payment |-> "UNPAID"] ELSE db[p]
  <2>1. PICK v : v = [st |-> "DRAFT", payment |-> "UNPAID"]
    OBVIOUS
  <2>2. MayWrite(t, po) /\ Write(t, po, v) /\ tx' = [tx EXCEPT ![t] = y]
        /\ UNCHANGED <<committed, due, ledger>>
    BY <1>1, <1>2, <2>1 DEF MayWrite
  <2>3. WriteQuietly(t, po, v, y)
    BY <2>2 DEF WriteQuietly
  <2>4. Wrote(t, po, v, y)
    BY <1>3, <2>3, WriteQuiet
  <2> QED BY <2>1, <2>4 DEF Wrote
<1>5. \A r \in Rows : lock[r] # t
  BY <1>1 DEF TypeInv, TypeOK
<1>6. committed[po] = [st |-> "none", payment |-> "UNPAID"] /\ committed' = committed
  <2>1. committed[po].st = "none" /\ committed[po] \in Order
    BY <1>1, <1>3 DEF TypeInv, TypeOK, FreeRowsCommitted, WellTyped, OrdersTyped
  <2>2. committed[po].payment = "UNPAID"
    BY <2>1 DEF BooksInv, RecordInv
  <2> QED BY <1>1, <2>1, <2>2 DEF Order
<1>7. Stock \in Rows /\ \A p \in PurchaseOrders : p \in Rows
  BY DEF Rows
<1>8. HeldInv(t)'
  BY <1>3, <1>4, <1>5, <1>6, <1>7 DEF HeldInv, Decisions
<1>9. RequestInv(t)'
  BY <1>3, <1>4, <1>5, <1>7 DEF RequestInv, Decisions
<1> QED BY <1>3, <1>4, <1>8, <1>9, QuietBooks DEF Decisions

\* A write of the order a request works on: it finds the committed version.
LEMMA ClaimBooks ==
  ASSUME TypeInv, BooksInv, Orderly, NEW t \in Txns, NEW po, po = tx[t].po,
         NEW pc \in {"goods", "commit"}, NEW record,
         tx[t].pc \in {"set", "claim"}, tx[t].op \in Decisions \union {"receive", "pay"},
         tx[t].op = "receive" <=> pc = "goods",
         MayWrite(t, po), Write(t, po, record), GoTo(t, pc),
         UNCHANGED <<committed, due, ledger, begun, overlaps>>,
         db[po] = committed[po] =>
           /\ tx[t].op \in Decisions => record = [committed[po] EXCEPT !.st = Sets[tx[t].op]]
           /\ tx[t].op = "receive" => /\ committed[po].st = "APPROVED"
                                      /\ record = [committed[po] EXCEPT !.st = "RECEIVED"]
           /\ tx[t].op = "pay" => /\ committed[po].payment = "UNPAID"
                                  /\ record = [committed[po] EXCEPT !.payment = "PAID"]
  PROVE  BooksInv'
<1>1. PICK x : x = tx[t]
  OBVIOUS
<1>2. PICK y : y = [x EXCEPT !.pc = pc]
  OBVIOUS
<1>3. y.op = x.op /\ y.pc = pc /\ y.po = po /\ po \in PurchaseOrders /\ po \in Rows /\ po # Stock
  BY <1>1, <1>2, RowsAssumption DEF TypeInv, TxInv, Rows, Decisions
<1>4. tx' = [tx EXCEPT ![t] = y]
  BY <1>1, <1>2 DEF GoTo
<1>5. RequestInv(t) /\ HeldInv(t)
  BY DEF BooksInv
<1>6. /\ Quiet(t) /\ tx'[t] = y
      /\ \A p \in Rows : /\ lock'[p] = IF p = po THEN t ELSE lock[p]
                         /\ db'[p] = IF p = po THEN record ELSE db[p]
      /\ \/ lock[po] = t
         \/ lock[po] = NoTxn /\ db[po] = committed[po]
  <2>1. WriteQuietly(t, po, record, y)
    BY <1>4 DEF WriteQuietly
  <2>2. Wrote(t, po, record, y)
    BY <1>3, <2>1, WriteQuiet
  <2> QED BY <2>2 DEF Wrote
<1>7. \A p \in PurchaseOrders : lock[p] # t
  BY <1>5 DEF HeldInv
<1>8. lock[Stock] # t
  BY <1>5 DEF RequestInv
<1>9. db[po] = committed[po] /\ committed' = committed
  BY <1>3, <1>6, <1>7
<1>10. Stock \in Rows /\ \A p \in PurchaseOrders : p \in Rows
  BY DEF Rows
<1>11. HeldInv(t)'
  <2>1. lock'[Stock] # t
    BY <1>3, <1>6, <1>8, <1>10
  <2>2. ASSUME NEW p \in PurchaseOrders, lock'[p] = t PROVE p = po /\ db'[p] = record
    BY <1>6, <1>7, <1>10, <2>2
  <2>3. x.op # "create"
    BY <1>1 DEF Decisions
  <2> QED BY <1>1, <1>3, <1>6, <1>9, <2>1, <2>2, <2>3 DEF HeldInv
<1>12. x.op \in Decisions => Alone(t, po)
  BY <1>1, <1>5 DEF RequestInv, Alone
<1>13. RequestInv(t)'
  <2>1. /\ x.op \in Decisions => committed[po].st = Needs[x.op]
        /\ x.op = "receive" => committed[po].st \in {"APPROVED", "RECEIVED"}
        /\ x.op = "pay" => committed[po].st = "RECEIVED"
    BY <1>1, <1>5 DEF RequestInv
  <2>2. lock'[po] = t /\ lock'[Stock] # t
    BY <1>3, <1>6, <1>8, <1>10
  <2>3. ASSUME NEW u \in Txns, y.op \in Decisions, tx'[u].op \in Decisions, tx'[u].po = po
        PROVE  u = t
    BY <1>3, <1>6, <1>12, <2>3 DEF Quiet, Alone
  <2>4. ~(y.op = "receive" /\ y.pc = "commit")
    BY <1>1, <1>3
  <2> QED BY <1>3, <1>6, <1>9, <2>1, <2>2, <2>3, <2>4 DEF RequestInv
<1> QED BY <1>3, <1>6, <1>11, <1>12, <1>13, QuietBooks

LEMMA DecideBooks ==
  ASSUME TypeInv, BooksInv, Orderly, NEW t \in Txns, Decide(t)
  PROVE  BooksInv'
<1>1. PICK po : po = tx[t].po
  OBVIOUS
<1>2. PICK record : record = [db[po] EXCEPT !.st = Sets[tx[t].op]]
  OBVIOUS
<1>3. /\ tx[t].pc = "set" /\ MayWrite(t, po) /\ Write(t, po, record) /\ GoTo(t, "commit")
      /\ UNCHANGED <<committed, due, ledger, begun, overlaps>>
  BY <1>1, <1>2 DEF Decide
<1>4. tx[t].op \in Decisions /\ tx[t].op \notin {"receive", "pay"}
  BY <1>3 DEF TypeInv, TxInv, Decisions
<1> QED BY <1>1, <1>2, <1>3, <1>4, ClaimBooks

LEMMA ReceiveBooks ==
  ASSUME TypeInv, BooksInv, Orderly, NEW t \in Txns, Receive(t)
  PROVE  BooksInv'
<1>1. PICK po : po = tx[t].po
  OBVIOUS
<1>2. CASE db[po].st # "APPROVED"
  BY <1>1, <1>2, ThrowBooks DEF Receive
<1>3. CASE db[po].st = "APPROVED"
  <2>1. PICK record : record = [db[po] EXCEPT !.st = "RECEIVED"]
    OBVIOUS
  <2>2. /\ tx[t].op = "receive" /\ tx[t].pc = "claim"
        /\ MayWrite(t, po) /\ Write(t, po, record) /\ GoTo(t, "goods")
        /\ UNCHANGED <<committed, due, ledger, begun, overlaps>>
    BY <1>1, <1>3, <2>1 DEF Receive, Doing
  <2>3. tx[t].op \notin Decisions
    BY <2>2 DEF Decisions
  <2> QED BY <1>1, <1>3, <2>1, <2>2, <2>3, ClaimBooks
<1> QED BY <1>2, <1>3

LEMMA PayBooks ==
  ASSUME TypeInv, BooksInv, Orderly, NEW t \in Txns, Pay(t)
  PROVE  BooksInv'
<1>1. PICK po : po = tx[t].po
  OBVIOUS
<1>2. CASE db[po].payment # "UNPAID"
  BY <1>1, <1>2, ThrowBooks DEF Pay
<1>3. CASE db[po].payment = "UNPAID"
  <2>1. PICK record : record = [db[po] EXCEPT !.payment = "PAID"]
    OBVIOUS
  <2>2. /\ tx[t].op = "pay" /\ tx[t].pc = "claim"
        /\ MayWrite(t, po) /\ Write(t, po, record) /\ GoTo(t, "commit")
        /\ UNCHANGED <<committed, due, ledger, begun, overlaps>>
    BY <1>1, <1>3, <2>1 DEF Pay, Doing
  <2>3. tx[t].op \notin Decisions
    BY <2>2 DEF Decisions
  <2> QED BY <1>1, <1>3, <2>1, <2>2, <2>3, ClaimBooks
<1> QED BY <1>2, <1>3

LEMMA TakeInBooks ==
  ASSUME TypeInv, BooksInv, Orderly, NEW t \in Txns, TakeIn(t)
  PROVE  BooksInv'
<1>1. PICK x : x = tx[t]
  OBVIOUS
<1>2. PICK y : y = [x EXCEPT !.pc = "commit"]
  OBVIOUS
<1>3. PICK n : n = db[Stock] + Quantity[x.po]
  OBVIOUS
<1>4. /\ x.op = "receive" /\ x.pc = "goods" /\ MayWrite(t, Stock) /\ Write(t, Stock, n)
      /\ tx' = [tx EXCEPT ![t] = y] /\ UNCHANGED <<committed, due, ledger>>
  BY <1>1, <1>2, <1>3 DEF TakeIn, Doing, GoTo
<1>5. y.op = x.op /\ y.pc = "commit" /\ y.po = x.po /\ x.po \in PurchaseOrders
  BY <1>1, <1>2, <1>4 DEF TypeInv, TxInv
<1>6. Stock \in Rows /\ \A p \in PurchaseOrders : p \in Rows /\ p # Stock
  BY RowsAssumption DEF Rows
<1>7. RequestInv(t) /\ HeldInv(t)
  BY DEF BooksInv
<1>8. /\ Quiet(t) /\ tx'[t] = y
      /\ \A p \in Rows : /\ lock'[p] = IF p = Stock THEN t ELSE lock[p]
                         /\ db'[p] = IF p = Stock THEN n ELSE db[p]
      /\ \/ lock[Stock] = t
         \/ lock[Stock] = NoTxn /\ db[Stock] = committed[Stock]
  <2>1. WriteQuietly(t, Stock, n, y)
    BY <1>4 DEF WriteQuietly
  <2>2. Wrote(t, Stock, n, y)
    BY <1>6, <2>1, WriteQuiet
  <2> QED BY <2>2 DEF Wrote
<1>9. lock[Stock] # t /\ lock[x.po] = t
  BY <1>1, <1>4, <1>7 DEF RequestInv
<1>10. db'[Stock] = committed[Stock] + Quantity[x.po] /\ committed' = committed
  BY <1>3, <1>4, <1>6, <1>8, <1>9
<1>11. x.op \notin Decisions /\ x.op # "create" /\ x.op # "pay"
  BY <1>4 DEF Decisions
<1>12. HeldInv(t)'
  <2>1. ASSUME NEW p \in PurchaseOrders, lock'[p] = t
        PROVE  committed[p].st = "APPROVED" /\ db'[p] = [committed[p] EXCEPT !.st = "RECEIVED"]
    <3>1. lock[p] = t /\ db'[p] = db[p]
      BY <1>6, <1>8, <2>1
    <3> QED BY <1>1, <1>4, <1>7, <3>1 DEF HeldInv
  <2> QED BY <1>4, <1>5, <1>8, <1>10, <1>11, <2>1 DEF HeldInv
<1>13. RequestInv(t)'
  <2>1. lock'[x.po] = t /\ lock'[Stock] = t
    BY <1>5, <1>6, <1>8, <1>9
  <2>2. committed[x.po].st \in {"APPROVED", "RECEIVED"}
    BY <1>1, <1>4, <1>7 DEF RequestInv
  <2> QED BY <1>4, <1>5, <1>8, <1>10, <1>11, <2>1, <2>2 DEF RequestInv
<1> QED BY <1>5, <1>8, <1>11, <1>12, <1>13, QuietBooks

\* What a commit changes: the order its request holds, and the stock with it.
CommitsOrder(t, po) ==
  /\ po \in PurchaseOrders /\ lock[po] = t
  /\ tx'[t] = Idle /\ \A r \in Rows : lock'[r] # t
  /\ \A u \in Txns \ {t} : /\ tx'[u] = tx[u]
                           /\ \A r \in Rows : lock'[r] = u <=> lock[r] = u
  /\ db' = db
  /\ \A r \in Rows : committed'[r] = IF lock[r] = t THEN db[r] ELSE committed[r]
  /\ committed'[po] = db[po]
  /\ \A p \in PurchaseOrders \ {po} : lock[p] # t /\ committed'[p] = committed[p]

LEMMA CommitEffect ==
  ASSUME TypeInv, BooksInv, Orderly, NEW t \in Txns, Commit(t), NEW po, po = tx[t].po
  PROVE  /\ CommitsOrder(t, po)
         /\ Recorded' = Recorded \union Enqueued(t)
         /\ tx[t].op = "receive" <=> lock[Stock] = t
<1>1. /\ tx[t].pc = "commit" /\ KeepWrites(t) /\ due' = due \union Enqueued(t)
      /\ tx' = [tx EXCEPT ![t] = Idle] /\ ledger' = ledger
  BY DEF Commit
<1>2. RequestInv(t)
  BY DEF BooksInv
<1>3. po \in PurchaseOrders /\ lock[po] = t /\ (tx[t].op = "receive" <=> lock[Stock] = t)
  <2>1. tx[t].op # "none"
    BY <1>1 DEF TypeInv, TxInv
  <2> QED BY <1>1, <1>2, <2>1 DEF RequestInv, TypeInv, TxInv
<1>4. /\ tx'[t] = Idle /\ \A u \in Txns \ {t} : tx'[u] = tx[u]
  BY <1>1 DEF TypeInv, TxInv
<1>5. /\ db' = db
      /\ \A r \in Rows : committed'[r] = IF lock[r] = t THEN db[r] ELSE committed[r]
  BY <1>1 DEF KeepWrites
<1>6. /\ \A r \in Rows : lock'[r] # t
      /\ \A u \in Txns \ {t} : \A r \in Rows : lock'[r] = u <=> lock[r] = u
  BY <1>1, RowsAssumption DEF KeepWrites, Release, TypeInv, TypeOK, FreeRowsCommitted
<1>7. \A p \in PurchaseOrders : p \in Rows /\ (lock[p] = t => p = po)
  BY DEF TypeInv, LockInv, Rows
<1>8. CommitsOrder(t, po)
  BY <1>3, <1>4, <1>5, <1>6, <1>7 DEF CommitsOrder
<1>9. Recorded' = Recorded \union Enqueued(t)
  BY <1>1 DEF Recorded
<1> QED BY <1>3, <1>8, <1>9

\* How the order changes, by the operation that commits.
Outcome(x, po) ==
  \/ /\ x.op = "create"
     /\ committed[po] = [st |-> "none", payment |-> "UNPAID"]
     /\ committed'[po] = [st |-> "DRAFT", payment |-> "UNPAID"]
  \/ /\ x.op \in Decisions
     /\ committed[po].st \in {"DRAFT", "PENDING"}
     /\ committed'[po].st \in {"PENDING", "APPROVED", "DRAFT"}
     /\ committed'[po].payment = committed[po].payment
  \/ /\ x.op = "receive"
     /\ committed[po].st = "APPROVED" /\ committed'[po].st = "RECEIVED"
     /\ committed'[po].payment = committed[po].payment
  \/ /\ x.op = "pay"
     /\ committed[po].st = "RECEIVED" /\ committed'[po].st = "RECEIVED"
     /\ committed'[po].payment = "PAID"

LEMMA CommitOutcome ==
  ASSUME TypeInv, BooksInv, Orderly, NEW t \in Txns, Commit(t), NEW po, po = tx[t].po,
         CommitsOrder(t, po)
  PROVE  Outcome(tx[t], po)
<1>1. PICK x : x = tx[t]
  OBVIOUS
<1>2. /\ po \in PurchaseOrders /\ lock[po] = t /\ committed'[po] = db[po]
      /\ committed[po] \in Order
  BY DEF CommitsOrder, TypeInv, TypeOK, WellTyped, OrdersTyped
<1>3. RequestInv(t) /\ HeldInv(t)
  BY DEF BooksInv
<1>4. x.op \in Operations
  BY <1>1 DEF Commit, TypeInv, TxInv
<1>5. CASE x.op = "create"
  BY <1>1, <1>2, <1>3, <1>5 DEF HeldInv, Outcome
<1>6. CASE x.op \in Decisions
  <2>1. committed[po].st = Needs[x.op] /\ committed'[po] = [committed[po] EXCEPT !.st = Sets[x.op]]
    BY <1>1, <1>2, <1>3, <1>6 DEF HeldInv, RequestInv
  <2>2. Needs[x.op] \in {"DRAFT", "PENDING"} /\ Sets[x.op] \in {"PENDING", "APPROVED", "DRAFT"}
    BY <1>6 DEF Needs, Sets, Decisions
  <2> QED BY <1>1, <1>2, <1>6, <2>1, <2>2 DEF Outcome, Order
<1>7. CASE x.op = "receive"
  <2>1. committed[po].st = "APPROVED" /\ committed'[po] = [committed[po] EXCEPT !.st = "RECEIVED"]
    BY <1>1, <1>2, <1>3, <1>7 DEF HeldInv
  <2> QED BY <1>1, <1>2, <1>7, <2>1 DEF Outcome, Order
<1>8. CASE x.op = "pay"
  <2>1. committed[po].st = "RECEIVED" /\ committed'[po] = [committed[po] EXCEPT !.payment = "PAID"]
    BY <1>1, <1>2, <1>3, <1>8 DEF HeldInv, RequestInv
  <2> QED BY <1>1, <1>2, <1>8, <2>1 DEF Outcome, Order
<1> QED BY <1>4, <1>5, <1>6, <1>7, <1>8 DEF Operations

LEMMA CommitBooks ==
  ASSUME TypeInv, BooksInv, Orderly, NEW t \in Txns, Commit(t)
  PROVE  BooksInv'
<1>1. PICK x : x = tx[t]
  OBVIOUS
<1>2. PICK po : po = x.po
  OBVIOUS
<1>3. /\ CommitsOrder(t, po) /\ Outcome(x, po)
      /\ Recorded' = Recorded \union Enqueued(t)
      /\ x.op = "receive" <=> lock[Stock] = t
  BY <1>1, <1>2, CommitEffect, CommitOutcome
<1>4. po \in PurchaseOrders /\ lock[po] = t /\ po \in Rows /\ Stock \in Rows
      /\ \A p \in PurchaseOrders : p \in Rows
  BY <1>3 DEF CommitsOrder, Rows
<1>5. RequestInv(t)' /\ HeldInv(t)'
  BY <1>3, <1>4 DEF CommitsOrder, RequestInv, HeldInv, Idle, Decisions
<1>6. ASSUME NEW u \in Txns \ {t} PROVE RequestInv(u)' /\ HeldInv(u)'
  <2>1. PICK z : z = tx[u]
    OBVIOUS
  <2>2. /\ tx'[u] = z /\ RequestInv(u) /\ HeldInv(u) /\ RequestInv(t)
        /\ \A r \in Rows : lock'[r] = u <=> lock[r] = u
    BY <1>3, <2>1 DEF BooksInv, CommitsOrder
  <2>3. z.op # "none" => z.po \in PurchaseOrders
    BY <2>1 DEF TypeInv, TxInv
  <2>4. z.pc \in {"goods", "commit"} => z.op # "none"
    BY <2>1 DEF TypeInv, TxInv
  <2>5. /\ z.op \in Decisions => committed'[z.po].st = Needs[z.op]
        /\ z.op = "receive" => committed'[z.po].st \in {"APPROVED", "RECEIVED"}
        /\ z.op = "pay" => committed'[z.po].st = "RECEIVED"
    <3>1. /\ z.op \in Decisions => /\ committed[z.po].st = Needs[z.op]
                                   /\ Needs[z.op] \in {"DRAFT", "PENDING"}
          /\ z.op = "receive" => committed[z.po].st \in {"APPROVED", "RECEIVED"}
          /\ z.op = "pay" => committed[z.po].st = "RECEIVED"
      BY <2>1, <2>2 DEF RequestInv, Needs, Decisions
    <3>2. CASE z.po # po
      <4>1. z.op # "none" => committed'[z.po] = committed[z.po]
        BY <1>3, <2>3, <3>2 DEF CommitsOrder
      <4>2. z.op \in Decisions \union {"receive", "pay"} => z.op # "none"
        BY DEF Decisions
      <4> QED BY <3>1, <4>1, <4>2
    <3>3. CASE z.po = po
      <4>1. ~(z.op \in Decisions /\ x.op \in Decisions)
        BY <1>1, <1>2, <2>1, <2>2, <3>3 DEF RequestInv
      <4> QED BY <1>3, <3>1, <3>3, <4>1 DEF Outcome
    <3> QED BY <3>2, <3>3
  <2>6. ASSUME NEW w \in Txns, z.op \in Decisions, tx'[w].op \in Decisions, tx'[w].po = z.po
        PROVE  w = u
    <3>1. CASE w = t
      BY <1>3, <2>6, <3>1 DEF CommitsOrder, Idle, Decisions
    <3>2. CASE w # t
      <4>1. tx'[w] = tx[w]
        BY <1>3, <3>2 DEF CommitsOrder
      <4> QED BY <2>1, <2>2, <2>6, <4>1 DEF RequestInv
    <3> QED BY <3>1, <3>2
  <2>7. /\ z.pc \in {"goods", "commit"} => lock'[z.po] = u
        /\ z.op = "receive" /\ z.pc = "commit" <=> lock'[Stock] = u
    BY <1>4, <2>1, <2>2, <2>3, <2>4 DEF RequestInv
  <2>8. RequestInv(u)'
    BY <2>2, <2>5, <2>6, <2>7 DEF RequestInv
  <2>9. \A r \in Rows : lock[r] = u => committed'[r] = committed[r] /\ db' = db
    BY <1>3 DEF CommitsOrder
  <2>10. HeldInv(u)'
    BY <1>4, <2>1, <2>2, <2>9 DEF HeldInv
  <2> QED BY <2>8, <2>10
<1>7. ASSUME NEW p \in PurchaseOrders PROVE RecordInv(p)'
  <2>1. RecordInv(p)
    BY DEF BooksInv
  <2>2. Enqueued(t) = IF x.op = "receive" THEN {<<"RECEIVED", po>>}
                      ELSE IF x.op = "pay" THEN {<<"PAID", po>>} ELSE {}
    BY <1>1, <1>2 DEF Enqueued
  <2>3. CASE p # po
    <3>1. committed'[p] = committed[p]
      BY <1>3, <2>3 DEF CommitsOrder
    <3>2. \A kind : <<kind, p>> \in Recorded' <=> <<kind, p>> \in Recorded
      BY <1>3, <2>2, <2>3
    <3> QED BY <2>1, <3>1, <3>2 DEF RecordInv
  <2>4. CASE p = po
    <3>1. /\ <<"RECEIVED", p>> \in Recorded' <=> <<"RECEIVED", p>> \in Recorded \/ x.op = "receive"
          /\ <<"PAID", p>> \in Recorded' <=> <<"PAID", p>> \in Recorded \/ x.op = "pay"
      BY <1>3, <2>2, <2>4
    <3>2. Outcome(x, p)
      BY <1>3, <2>4
    <3>3. CASE x.op = "create"
      BY <2>1, <3>1, <3>2, <3>3 DEF Outcome, RecordInv, Decisions
    <3>4. CASE x.op \in Decisions
      BY <2>1, <3>1, <3>2, <3>4 DEF Outcome, RecordInv, Decisions
    <3>5. CASE x.op = "receive"
      BY <2>1, <3>1, <3>2, <3>5 DEF Outcome, RecordInv, Decisions
    <3>6. CASE x.op = "pay"
      BY <2>1, <3>1, <3>2, <3>6 DEF Outcome, RecordInv, Decisions
    <3> QED BY <3>2, <3>3, <3>4, <3>5, <3>6 DEF Outcome
  <2> QED BY <2>3, <2>4
<1>8. StockInv'
  <2>1. IsFiniteSet(Received) /\ committed[Stock] = SumFunctionOnSet(Quantity, Received)
    BY DEF BooksInv, StockInv
  <2>2. \A p \in PurchaseOrders \ {po} : committed'[p] = committed[p]
    BY <1>3 DEF CommitsOrder
  <2>3. CASE x.op = "receive"
    <3>1. committed'[Stock] = committed[Stock] + Quantity[po]
      BY <1>1, <1>2, <1>3, <1>4, <2>3 DEF BooksInv, HeldInv, CommitsOrder
    <3>2. po \notin Received /\ Received' = Received \union {po}
      BY <1>3, <1>4, <2>2, <2>3 DEF Outcome, Received, Decisions
    <3>3. \A p \in Received \union {po} : Quantity[p] \in Int
      BY <1>4, AmountsAssumption DEF Received
    <3>4. SumFunctionOnSet(Quantity, Received \union {po})
            = Quantity[po] + SumFunctionOnSet(Quantity, Received)
      BY <2>1, <3>2, <3>3, SumInsert
    <3>5. SumFunctionOnSet(Quantity, Received) \in Int /\ Quantity[po] \in Int
      BY <2>1, <3>3, SumInt
    <3>6. committed'[Stock] = SumFunctionOnSet(Quantity, Received')
      BY <2>1, <3>1, <3>2, <3>4, <3>5
    <3>7. IsFiniteSet(Received')
      BY <2>1, <3>2, FS_AddElement
    <3> QED BY <3>6, <3>7 DEF StockInv
  <2>4. CASE x.op # "receive"
    <3>1. committed'[Stock] = committed[Stock]
      BY <1>3, <1>4, <2>4 DEF CommitsOrder
    <3>2. committed'[po].st = "RECEIVED" <=> committed[po].st = "RECEIVED"
      BY <1>3, <2>4 DEF Outcome
    <3>3. Received' = Received
      BY <2>2, <3>2 DEF Received
    <3> QED BY <2>1, <3>1, <3>3 DEF StockInv
  <2> QED BY <2>3, <2>4
<1> QED BY <1>5, <1>6, <1>7, <1>8 DEF BooksInv

LEMMA InitBooks == Init => BooksInv
<1> SUFFICES ASSUME Init PROVE BooksInv
  OBVIOUS
<1>1. /\ \A r \in Rows : lock[r] = NoTxn
      /\ \A t \in Txns : tx[t] = Idle
      /\ Recorded = {}
  BY DEF Init, Recorded
<1>2. /\ committed[Stock] = 0
      /\ \A po \in PurchaseOrders : committed[po] = [st |-> "none", payment |-> "UNPAID"]
  BY RowsAssumption DEF Init, InitialDb, Rows
<1>3. \A t \in Txns : RequestInv(t) /\ HeldInv(t)
  BY <1>1, RowsAssumption DEF RequestInv, HeldInv, Idle, Decisions, Rows
<1>4. \A po \in PurchaseOrders : RecordInv(po)
  BY <1>1, <1>2 DEF RecordInv
<1>5. Received = {}
  BY <1>2 DEF Received
<1>6. StockInv
  BY <1>2, <1>5, FS_EmptySet, SumEmpty DEF StockInv
<1> QED BY <1>3, <1>4, <1>6 DEF BooksInv

\* No step disturbs the books, unless it begins a decision beside another.
LEMMA NextBooks == TypeInv /\ BooksInv /\ [Next]_vars => BooksInv'
<1> SUFFICES ASSUME TypeInv, BooksInv, [Next]_vars, Orderly' PROVE BooksInv'
  BY DEF BooksInv
<1>1. ASSUME NEW t \in Txns, ReadDecision(t) PROVE BooksInv'
  BY <1>1, ReadDecisionBooks
<1>2. ASSUME NEW t \in Txns, Steps(t), ~ReadDecision(t) PROVE BooksInv'
  <2>1. Orderly
    BY <1>2 DEF Steps, Create, Decide, Validate, Receive, TakeIn, Pay, Commit, Abort, Throw,
       Orderly
  <2>2. Abort(t) => BooksInv'
    BY <2>1, ThrowBooks DEF Abort
  <2> QED BY <1>2, <2>1, <2>2, CreateBooks, DecideBooks, ValidateBooks, ReceiveBooks, TakeInBooks,
             PayBooks, CommitBooks DEF Steps
<1>3. CASE Post \/ UNCHANGED vars
  <2>1. UNCHANGED <<db, committed, lock, tx, overlaps>> /\ Recorded' = Recorded
    BY <1>3 DEF Post, vars, Recorded
  <2>2. Orderly
    BY <2>1 DEF Orderly
  <2> QED BY <2>1, <2>2 DEF BooksInv, RequestInv, HeldInv, RecordInv, StockInv, Received
<1> QED BY <1>1, <1>2, <1>3 DEF Next

LEMMA BooksHold == Spec => [](TypeInv /\ BooksInv)
<1>1. Spec => []TypeInv
  BY InitType, NextType, PTL DEF Spec
<1> QED BY <1>1, InitBooks, NextBooks, PTL DEF Spec

\* Once every event is posted, what the ledger owes suppliers is what the orders
\* received and not paid come to, if no two decisions on an order overlapped.
THEOREM AgingReconcilesHolds == Spec => []AgingReconciles
<1>1. TypeInv /\ BooksInv => AgingReconciles
  <2> DEFINE P == {po \in PurchaseOrders : <<"PAID", po>> \in ledger}
             U == {po \in PurchaseOrders : /\ committed[po].st = "RECEIVED"
                                           /\ committed[po].payment = "UNPAID"}
  <2> SUFFICES ASSUME TypeInv, BooksInv, Orderly, due = {}
               PROVE  Billed("RECEIVED") - Billed("PAID") = SumFunctionOnSet(Total, U)
    BY DEF AgingReconciles
  <2>1. \A po \in PurchaseOrders : RecordInv(po) /\ committed[po].payment \in {"PAID", "UNPAID"}
    BY DEF BooksInv, TypeInv, TypeOK, WellTyped, OrdersTyped, Order
  <2>2. Received = {po \in PurchaseOrders : <<"RECEIVED", po>> \in ledger}
    BY <2>1 DEF Received, RecordInv, Recorded
  <2>3. Received = P \union U /\ P \intersect U = {}
    BY <2>1 DEF Received, RecordInv, Recorded
  <2>4. Billed("RECEIVED") = SumFunctionOnSet(Total, Received)
        /\ Billed("PAID") = SumFunctionOnSet(Total, P)
    BY <2>2 DEF Billed
  <2>5. IsFiniteSet(P) /\ IsFiniteSet(U)
    <3>1. IsFiniteSet(Received)
      BY DEF BooksInv, StockInv
    <3>2. P \subseteq Received /\ U \subseteq Received
      BY <2>3
    <3> QED BY <3>1, <3>2, FS_Subset
  <2>6. \A po \in P \union U : Total[po] \in Int
    BY AmountsAssumption
  <2> HIDE DEF P, U
  <2>7. SumFunctionOnSet(Total, P \union U) = SumFunctionOnSet(Total, P) + SumFunctionOnSet(Total, U)
    BY <2>3, <2>5, <2>6, SumUnion
  <2>8. SumFunctionOnSet(Total, P) \in Int /\ SumFunctionOnSet(Total, U) \in Int
    BY <2>5, <2>6, SumInt
  <2> QED BY <2>3, <2>4, <2>7, <2>8
<1> QED BY BooksHold, <1>1, PTL

\* The stock is what the ledger says came in, once every event is posted, if no
\* two decisions on an order overlapped: every receipt is in stock once.
THEOREM OrderlyStockFollowsLedgerHolds == Spec => []OrderlyStockFollowsLedger
<1>1. BooksInv => OrderlyStockFollowsLedger
  <2> SUFFICES ASSUME BooksInv, Orderly, due = {}
               PROVE  committed[Stock] = SumFunctionOnSet(Quantity,
                        {po \in PurchaseOrders : <<"RECEIVED", po>> \in ledger})
    BY DEF OrderlyStockFollowsLedger, StockFollowsLedger
  <2>1. Received = {po \in PurchaseOrders : <<"RECEIVED", po>> \in ledger}
    BY DEF BooksInv, Received, RecordInv, Recorded
  <2> QED BY <2>1 DEF BooksInv, StockInv
<1> QED BY BooksHold, <1>1, PTL
===============================================================================
