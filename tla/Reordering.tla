------------------------------- MODULE Reordering -------------------------------
(***************************************************************************)
(* Automatic purchase orders.  After a sale a listener looks at the stock  *)
(* of what was used; at or below its minimum, a SERIALIZABLE transaction   *)
(* puts it on a purchase order unless an open one already lists it.  The   *)
(* rest of procurement runs at READ COMMITTED and decides by id (module    *)
(* Purchasing): the database does not order it after the listener.         *)
(***************************************************************************)
EXTENDS Service

CONSTANTS
  Supplies,   \* ingredients of one supplier, at one branch
  InStock,    \* their quantities at the start
  MinStock,
  MinOrder,   \* the least an order asks for
  POs         \* PurchaseOrder ids

ASSUME ReorderingAssumption == /\ InStock \in [Supplies -> Nat]
                               /\ MinStock \in [Supplies -> Nat]
                               /\ MinOrder \in Nat

Supply(i) == <<"supply", i>>
PO(p) == <<"po", p>>
Item(p, i) == <<"item", p, i>>
ReorderRows == {Supply(i) : i \in Supplies} \union {PO(p) : p \in POs}
                 \union {Item(p, i) : p \in POs, i \in Supplies}

POStatuses == {"none", "DRAFT", "PENDING", "APPROVED", "RECEIVED"}
ReorderInitial(r) == CASE r[1] = "supply" -> InStock[r[2]]
                       [] r[1] = "po" -> "none"
                       [] OTHER -> FALSE

OrderQuantity(i) == IF 2 * MinStock[i] > MinOrder THEN 2 * MinStock[i] ELSE MinOrder

\* A sale commits (module Orders) and its listener starts; by tells it from others.
UseUp(t) == \E i \in Supplies :
  /\ tx[t].op = "none"
  /\ OneMore
  /\ committed[Supply(i)] > 0
  /\ Put(Supply(i), committed[Supply(i)] - 1)
  /\ tx' = [tx EXCEPT ![t] = [op |-> "reorder", pc |-> "stock", row |-> Supply(i),
                              read |-> [by |-> begun], out |-> {}]]
  /\ UNCHANGED <<log, raced, desk>>

\* checkAndAutoReorder reads the stock, outside any transaction.
LookAtStock(t) ==
  LET i == tx[t].row[2]
  IN /\ Doing(t, "reorder", "stock")
     /\ IF committed[Supply(i)] > MinStock[i] THEN Finish(t) /\ UNCHANGED <<committed, log>>
        ELSE GoTo(t, "snapshot")
     /\ UNCHANGED <<db, lock, raced>>

\* What the transaction sees: the status of every order and what it lists.
Seeing == [st |-> [p \in POs |-> committed[PO(p)]],
           items |-> [p \in POs |-> {i \in Supplies : committed[Item(p, i)]}]]

\* Mutant: an order waiting for its approval is not taken for an open one.
ListedInDraft(view, i) == \E p \in POs : view.st[p] = "DRAFT" /\ i \in view.items[p]

\* An active order of the supplier that lists the ingredient.
Listed(view, i) == \E p \in POs : view.st[p] \in {"DRAFT", "PENDING"} /\ i \in view.items[p]

\* The transaction reads everything as of its first statement.  Every order here
\* is an automatic one, so a draft it finds is one to append to.
Snapshot(t) ==
  LET i == tx[t].row[2]
      drafts == {p \in POs : Seeing.st[p] = "DRAFT"}
  IN /\ Doing(t, "reorder", "snapshot")
     /\ IF Listed(Seeing, i) THEN Finish(t) /\ UNCHANGED <<committed, log>>
        ELSE Continue(t, IF drafts = {} THEN "create" ELSE "append",
                      [by |-> tx[t].read.by, onto |-> drafts, seen |-> DOMAIN log], {})
     /\ UNCHANGED <<db, lock, raced>>

Numbered(p) == db[PO(p)] # "none"

\* purchaseOrder.create, with a number of its own.
CreateAutoPO(t) == \E p \in FreshId(POs, Numbered) :
  /\ Doing(t, "reorder", "create")
  /\ Write(t, PO(p), "DRAFT")
  /\ Continue(t, "append", [tx[t].read EXCEPT !.onto = {p}],
              {[kind |-> "autopo", key |-> p, amount |-> 0]})
  /\ UNCHANGED raced

\* purchaseOrderItem.create: the row of the order itself is not written.
AppendItem(t) == Doing(t, "reorder", "append") /\ \E p \in tx[t].read.onto :
  LET i == tx[t].row[2]
  IN /\ MayWrite(t, Item(p, i))
     /\ Write(t, Item(p, i), TRUE)
     /\ Continue(t, "publish", tx[t].read,
                 tx[t].out \union {[kind |-> "reorder", key |-> i, amount |-> tx[t].read.by]})
     /\ UNCHANGED raced

\* Another listener committed meanwhile, and each wrote what the other had read:
\* the ingredient on no order, or no automatic draft.
SerializationFailure(t) ==
  \E mine \in tx[t].out, other \in DOMAIN log \ tx[t].read.seen :
    /\ mine.kind = other.kind
    /\ mine.kind = "reorder" => mine.key = other.key

\* COMMIT of the serializable transaction.
Publish(t) ==
  /\ Doing(t, "reorder", "publish")
  /\ IF SerializationFailure(t) THEN Throw(t)
     ELSE KeepWrites(t) /\ Logged(tx[t].out) /\ Finish(t) /\ UNCHANGED raced

-------------------------------------------------------------------------------
(* The other operations on these orders.                                   *)

Moves == [submit |-> <<"DRAFT", "PENDING">>, approvepo |-> <<"PENDING", "APPROVED">>,
          reject |-> <<"PENDING", "DRAFT">>]

\* submitPO, approvePO and rejectPO read the status ...
ReadPO(t) == \E p \in POs, op \in DOMAIN Moves :
  /\ committed[PO(p)] = Moves[op][1]
  /\ op = "submit" => \E i \in Supplies : committed[Item(p, i)]
  /\ Begin(t, op, "setpo", PO(p), [st |-> Moves[op][1]])

\* ... and set it by id.
SetPO(t) ==
  LET row == tx[t].row
  IN /\ tx[t].pc = "setpo"
     /\ Put(row, Moves[tx[t].op][2])
     /\ Races(row, tx[t].read.st)
     /\ Finish(t)
     /\ UNCHANGED log

\* receivePO claims the APPROVED order; its goods come in with it.
ReceivePO == \E p \in POs :
  LET arrives(r) == \E i \in Supplies : r = Supply(i) /\ committed[Item(p, i)]
      after == [r \in Rows |-> IF r = PO(p) THEN "RECEIVED"
                               ELSE IF arrives(r) THEN db[r] + OrderQuantity(r[2])
                               ELSE db[r]]
  IN /\ Single
     /\ committed[PO(p)] = "APPROVED"
     /\ lock[PO(p)] = NoTxn
     /\ db' = after
     /\ committed' = [r \in Rows |-> IF db[r] = after[r] THEN committed[r] ELSE after[r]]
     /\ UNCHANGED <<lock, log, raced>>

ReorderStep(t) == \/ UseUp(t) \/ LookAtStock(t) \/ Snapshot(t) \/ CreateAutoPO(t)
                  \/ AppendItem(t) \/ Publish(t) \/ ReadPO(t) \/ SetPO(t)

ReorderNext == ReceivePO \/ \E t \in Txns : ReorderStep(t)

-------------------------------------------------------------------------------
(* Properties.                                                             *)

ReorderTypeOK(v) ==
  /\ \A i \in Supplies : v[Supply(i)] \in Nat
  /\ \A p \in POs : v[PO(p)] \in POStatuses
  /\ \A p \in POs, i \in Supplies : v[Item(p, i)] \in BOOLEAN

OrdersListing(i) == {p \in POs : /\ committed[PO(p)] \in {"DRAFT", "PENDING"}
                                 /\ committed[Item(p, i)]
                                 /\ PO(p) \notin raced}

\* However the sales, the listeners and the decisions interleave, an ingredient is
\* on at most one order that nobody has approved yet -- unless an order was decided
\* from a status it had left.
OrderedOnce == desk = "reordering" => \A i \in Supplies : Cardinality(OrdersListing(i)) <= 1
===============================================================================
