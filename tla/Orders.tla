--------------------------------- MODULE Orders ---------------------------------
(***************************************************************************)
(* The life of an order: sold at a till, moved through the kitchen, voided *)
(* on its day or refunded later.  Each of these is one transaction of      *)
(* RowStore that touches the order row, the stock of an ingredient, the    *)
(* points of a loyalty member and the outbox; a till may send the same     *)
(* sale again, and several tills and managers work at once.                *)
(* An order is of one product made of one ingredient: the batches behind   *)
(* the stock, and recipes of several ingredients, are in Stock.            *)
(***************************************************************************)
EXTENDS Integers, Sequences, FiniteSets, FiniteSetsExt, SequencesExt

CONSTANTS
  Txns,            \* concurrent requests to the server
  Orders,          \* order ids, in the order they are given out
  Products,
  Kitchen,         \* products of a category the kitchen prepares
  Items,           \* BranchInventory rows
  ItemOf,          \* the ingredient a product is made of
  InitialRecipe,   \* quantity of it in a product, 0 for no recipe
  RecipeChoices,   \* quantities a manager may put in a recipe
  InitialStock,
  Price,
  Requests,        \* clientRequestIds the tills use
  NoRequest,       \* a sale without one
  Member,          \* the points row of a loyalty member
  InitialPoints,
  Redemptions,     \* points a till may ask to redeem
  Buyers,          \* whether the buyer may be the member: BOOLEAN, or {TRUE}
  PointsPerUnit,   \* POINTS_PER_CURRENCY_UNIT
  SpendPerPoint,   \* SPEND_PER_POINT_EARNED
  MaxRetries,      \* MAX_QUEUE_NUMBER_RETRIES
  Ops,             \* the operations of this instance
  MaxBegun,        \* bound on the operations begun
  LastDay,         \* bound on the days that pass
  NoTxn

ASSUME OrdersAssumption == /\ Orders \subseteq Nat
                           /\ Items \intersect Orders = {}
                           /\ Member \notin Items \union Orders
                           /\ NoTxn \notin Txns
ASSUME ProductsAssumption == /\ Kitchen \subseteq Products
                             /\ ItemOf \in [Products -> Items]
                             /\ InitialRecipe \in [Products -> Nat]
                             /\ RecipeChoices \subseteq Nat
                             /\ InitialStock \in [Items -> Nat]
                             /\ Price \in [Products -> Nat]
ASSUME PointsAssumption == /\ NoRequest \notin Requests
                           /\ InitialPoints \in Nat
                           /\ Redemptions \subseteq Nat
                           /\ Buyers \subseteq BOOLEAN
                           /\ PointsPerUnit \in Nat \ {0}
                           /\ SpendPerPoint \in Nat \ {0}
                           /\ MaxRetries \in Nat

VARIABLES
  db, committed, lock,  \* the rows: stock, orders, points
  tx,       \* what each request is doing
  events,   \* per order, the events committed to the outbox
  answers,  \* per clientRequestId, the orders its creations returned
  recipe,
  begun,    \* operations begun
  today

vars == <<db, committed, lock, tx, events, answers, recipe, begun, today>>

Rows == Items \union Orders \union {Member}

INSTANCE RowStore

Operational == {"PENDING", "PREPARING", "COMPLETED"}
Terminal == {"CANCELLED", "REFUNDED"}

NoOrder == [st |-> "none", request |-> NoRequest, queue |-> 0, day |-> 0, created |-> 0,
            product |-> NoTxn, member |-> FALSE, earned |-> 0, redeemed |-> 0, used |-> 0]

\* order: the order it is about; draft: the order being sold; ask: points to
\* redeem; recipe: quantity read from the recipe; read, target: the status it
\* read and the one it sets; code: the statements to come; attempt: of the
\* queue number; events: what it has put in the outbox.
Idle == [op |-> "none", code |-> <<>>, order |-> 0, draft |-> NoOrder, ask |-> 0,
         recipe |-> 0, read |-> "none", target |-> "none", attempt |-> 0, events |-> <<>>]

\* The statements of each operation, in the order the code issues them.
Program ==
  [create |-> <<"ReadRecipe", "Deduct", "CheckPoints", "Redeem", "Earn", "Allocate", "Insert">>,
   status |-> <<"Claim">>,
   void   |-> <<"Claim", "Restore", "Clawback">>,
   refund |-> <<"Claim", "Restore", "Clawback">>]

InitialDb == [r \in Rows |-> CASE r \in Items -> InitialStock[r]
                               [] r \in Orders -> NoOrder
                               [] OTHER -> InitialPoints]

Init == /\ db = InitialDb
        /\ committed = InitialDb
        /\ lock = [r \in Rows |-> NoTxn]
        /\ tx = [t \in Txns |-> Idle]
        /\ events = [o \in Orders |-> <<>>]
        /\ answers = [c \in Requests |-> {}]
        /\ recipe = InitialRecipe
        /\ begun = 0
        /\ today = 1

-------------------------------------------------------------------------------
(* Transactions.                                                           *)

others == <<events, answers, recipe, begun, today>>

Runs(t, statement) == tx[t].code # <<>> /\ Head(tx[t].code) = statement

Continue(t, record) == tx' = [tx EXCEPT ![t] = [record EXCEPT !.code = Tail(@)]]

\* A statement that writes nothing.
ReadOnly == UNCHANGED <<db, committed, lock, others>>

\* A statement that writes one row, or none.
WriteIf(t, needed, r, value) ==
  /\ IF needed THEN MayWrite(t, r) /\ Write(t, r, value) ELSE UNCHANGED <<db, lock>>
  /\ UNCHANGED <<committed, others>>

\* The transaction is rolled back and the request goes on as record.
RollBackTo(t, record) == /\ UndoWrites(t)
                         /\ tx' = [tx EXCEPT ![t] = record]
                         /\ UNCHANGED others

Throw(t) == RollBackTo(t, Idle)

\* A timeout, a lost connection, a deadlock victim.
Abort(t) == tx[t].op # "none" /\ Throw(t)

\* The order and its outbox rows are committed together; a creation answers.
Commit(t) ==
  /\ tx[t].op # "none"
  /\ tx[t].code = <<>>
  /\ KeepWrites(t)
  /\ tx' = [tx EXCEPT ![t] = Idle]
  /\ events' = [events EXCEPT ![tx[t].order] = @ \o tx[t].events]
  /\ answers' = IF tx[t].op = "create" /\ tx[t].draft.request # NoRequest
                  THEN [answers EXCEPT ![tx[t].draft.request] = @ \union {tx[t].order}]
                  ELSE answers
  /\ UNCHANGED <<recipe, begun, today>>

-------------------------------------------------------------------------------
(* Beginning an operation: what is read before the transaction.            *)

Begin(t, record) ==
  /\ tx[t].op = "none"
  /\ record.op \in Ops
  /\ begun < MaxBegun
  /\ begun' = begun + 1
  /\ tx' = [tx EXCEPT ![t] = [record EXCEPT !.code = Program[record.op]]]
  /\ UNCHANGED <<db, committed, lock, events, answers, recipe, today>>

BeginCreate(t) ==
  \E p \in Products, c \in Requests \union {NoRequest}, m \in Buyers, ask \in Redemptions :
    /\ ask > 0 => m
    /\ Begin(t, [Idle EXCEPT !.op = "create", !.ask = ask,
                   !.draft = [NoOrder EXCEPT !.product = p, !.request = c, !.member = m]])

\* canTransitionOrderStatus
CanTransition(from, to) == \/ from = "PENDING" /\ to \in {"PREPARING", "COMPLETED"}
                           \/ from = "PREPARING" /\ to = "COMPLETED"

BeginStatus(t) ==
  \E o \in Orders, to \in Operational :
    /\ CanTransition(committed[o].st, to)
    /\ Begin(t, [Idle EXCEPT !.op = "status", !.order = o, !.read = committed[o].st,
                   !.target = to])

\* loadOrderForReversal reads the recipe of the day, not the one of the sale.
Reversal(op, o, target) ==
  [Idle EXCEPT !.op = op, !.order = o, !.target = target, !.draft = committed[o],
               !.recipe = recipe[committed[o].product]]

BeginVoid(t) ==
  \E o \in Orders :
    /\ committed[o].st \in Operational
    /\ committed[o].created = today
    /\ Begin(t, Reversal("void", o, "CANCELLED"))

BeginRefund(t) ==
  \E o \in Orders :
    /\ committed[o].st = "COMPLETED"
    /\ committed[o].created # today
    /\ Begin(t, Reversal("refund", o, "REFUNDED"))

-------------------------------------------------------------------------------
(* Creating an order.                                                      *)

ReadRecipe(t) ==
  LET p == tx[t].draft.product
  IN /\ Runs(t, "ReadRecipe")
     /\ IF p \in Kitchen /\ recipe[p] = 0 THEN Throw(t)
        ELSE Continue(t, [tx[t] EXCEPT !.recipe = recipe[p]]) /\ ReadOnly

\* deductInventoryFIFO: a guarded decrement.
Deduct(t) ==
  LET i == ItemOf[tx[t].draft.product]
      q == tx[t].recipe
  IN /\ Runs(t, "Deduct")
     /\ MayWrite(t, i)
     /\ IF db[i] < q THEN Throw(t)
        ELSE /\ WriteIf(t, q > 0, i, db[i] - q)
             /\ Continue(t, [tx[t] EXCEPT !.draft.used = q])

CheckPoints(t) ==
  /\ Runs(t, "CheckPoints")
  /\ IF tx[t].ask > 0 /\ Seen(t, Member) < tx[t].ask THEN Throw(t)
     ELSE Continue(t, tx[t]) /\ ReadOnly

\* Points are redeemed up to what the price can absorb; the decrement does not
\* look at the balance again.
Redeem(t) ==
  LET absorbed == Price[tx[t].draft.product] * PointsPerUnit
      r == IF tx[t].ask < absorbed THEN tx[t].ask ELSE absorbed
  IN /\ Runs(t, "Redeem")
     /\ WriteIf(t, r > 0, Member, db[Member] - r)
     /\ Continue(t, [tx[t] EXCEPT !.draft.redeemed = r])

\* pointsEarnedForSpend of what is left to pay.
PointsEarned(p, redeemed) ==
  (Price[p] * PointsPerUnit - redeemed) \div (PointsPerUnit * SpendPerPoint)

Earn(t) ==
  LET d == tx[t].draft
      e == IF d.member THEN PointsEarned(d.product, d.redeemed) ELSE 0
  IN /\ Runs(t, "Earn")
     /\ WriteIf(t, e > 0, Member, db[Member] + e)
     /\ Continue(t, [tx[t] EXCEPT !.draft.earned = e])

Sold(rows) == {o \in Orders : rows[o].st # "none"}

\* Mutant: the last queue number of any day.
AllocateAnyDay(t) ==
  LET taken == {committed[o].queue : o \in Sold(committed)}
  IN /\ Runs(t, "Allocate")
     /\ \E n \in {1} \union {q + 1 : q \in taken} :
          /\ \A q \in taken : q < n
          /\ Continue(t, [tx[t] EXCEPT !.draft.queue = n, !.draft.day = today])
     /\ ReadOnly

\* allocateQueueNumber: one more than the last number of the day.
Allocate(t) ==
  LET taken == {committed[o].queue : o \in {u \in Sold(committed) : committed[u].day = today}}
  IN /\ Runs(t, "Allocate")
     /\ \E n \in {1} \union {q + 1 : q \in taken} :
          /\ \A q \in taken : q < n
          /\ Continue(t, [tx[t] EXCEPT !.draft.queue = n, !.draft.day = today])
     /\ ReadOnly

SameRequest(d, row) == d.request # NoRequest /\ row.request = d.request
SameQueue(d, row) == row.day = d.day /\ row.queue = d.queue

\* Mutant: no unique constraint on clientRequestId.
ClashesOnQueue(t) == {o \in Sold(db) : SameQueue(tx[t].draft, db[o])}

\* Rows, committed or not, that break a unique constraint with the draft of t.
Clashes(t) == {o \in Sold(db) : \/ SameRequest(tx[t].draft, db[o])
                                \/ SameQueue(tx[t].draft, db[o])}

\* resolveInitialOrderStatus
InitialStatus(p) == IF p \in Kitchen THEN "PENDING" ELSE "COMPLETED"

\* order.create, and the ORDER_CREATED event.
Insert(t) ==
  LET free == {u \in Orders : db[u].st = "none" /\ lock[u] = NoTxn}
      st == InitialStatus(tx[t].draft.product)
  IN /\ Runs(t, "Insert")
     /\ Clashes(t) = {}
     /\ \E o \in free :
          /\ \A u \in free : o <= u
          /\ WriteIf(t, TRUE, o, [tx[t].draft EXCEPT !.st = st, !.created = today])
          /\ Continue(t, [tx[t] EXCEPT !.order = o, !.events = <<<<"CREATED", st>>>>])

\* Mutant: what the sale has done so far stays done.
InsertRepeatedKept(t) ==
  \E o \in Clashes(t) :
    /\ Runs(t, "Insert")
    /\ lock[o] = NoTxn
    /\ SameRequest(tx[t].draft, db[o])
    /\ KeepWrites(t)
    /\ tx' = [tx EXCEPT ![t].code = <<"FindExisting">>]
    /\ UNCHANGED others

\* The insert hits a committed row with the same clientRequestId (it waits for
\* one that is not committed): the sale is rolled back and that order looked up.
InsertRepeated(t) ==
  \E o \in Clashes(t) :
    /\ Runs(t, "Insert")
    /\ lock[o] = NoTxn
    /\ SameRequest(tx[t].draft, db[o])
    /\ RollBackTo(t, [tx[t] EXCEPT !.code = <<"FindExisting">>])

\* Mutant: the limit on the tries is not checked.
InsertOutrunForever(t) ==
  /\ Runs(t, "Insert")
  /\ \E o \in Clashes(t) : lock[o] = NoTxn /\ SameQueue(tx[t].draft, db[o])
  /\ RollBackTo(t, [tx[t] EXCEPT !.code = Program["create"], !.attempt = @ + 1])

\* The insert hits the queue number of another order: the whole sale is tried
\* again, a bounded number of times.
InsertOutrun(t) ==
  \E o \in Clashes(t) :
    /\ Runs(t, "Insert")
    /\ lock[o] = NoTxn
    /\ SameQueue(tx[t].draft, db[o])
    /\ IF tx[t].attempt < MaxRetries
         THEN RollBackTo(t,
                [Idle EXCEPT !.op = "create", !.code = Program["create"], !.ask = tx[t].ask,
                             !.attempt = tx[t].attempt + 1,
                             !.draft = [NoOrder EXCEPT !.product = tx[t].draft.product,
                                                       !.request = tx[t].draft.request,
                                                       !.member = tx[t].draft.member]])
         ELSE Throw(t)

FindExisting(t) ==
  LET c == tx[t].draft.request
  IN /\ Runs(t, "FindExisting")
     /\ \E o \in Orders :
          /\ SameRequest(tx[t].draft, committed[o])
          /\ answers' = [answers EXCEPT ![c] = @ \union {o}]
     /\ tx' = [tx EXCEPT ![t] = Idle]
     /\ UNCHANGED <<db, committed, lock, events, recipe, begun, today>>

-------------------------------------------------------------------------------
(* Changing and reversing an order.                                        *)

\* Mutant: a status update sets the status of any order that is not reversed.
ClaimableAny(t) == CASE tx[t].op = "status" -> Operational
                     [] tx[t].op = "void"   -> Operational
                     [] tx[t].op = "refund" -> {"COMPLETED"}

\* The statuses the updateMany of t asks for.
Claimable(t) == CASE tx[t].op = "status" -> {tx[t].read}
                  [] tx[t].op = "void"   -> Operational
                  [] tx[t].op = "refund" -> {"COMPLETED"}

\* The events of a change of status.
Announcements(t) ==
  CASE tx[t].op = "status" -> <<<<"STATUS", tx[t].target>>>>
    [] tx[t].op = "void"   -> <<<<"VOIDED", "CANCELLED">>, <<"STATUS", "CANCELLED">>>>
    [] tx[t].op = "refund" -> <<<<"REFUNDED", "REFUNDED">>, <<"STATUS", "REFUNDED">>>>

\* Mutant: the reversal does not look at the status it replaces.
ClaimUnguarded(t) ==
  LET o == tx[t].order
  IN /\ Runs(t, "Claim")
     /\ MayWrite(t, o)
     /\ WriteIf(t, TRUE, o, [db[o] EXCEPT !.st = tx[t].target])
     /\ Continue(t, [tx[t] EXCEPT !.events = Announcements(t)])

\* The compare-and-swap on the status that opens every change.
Claim(t) ==
  LET o == tx[t].order
  IN /\ Runs(t, "Claim")
     /\ MayWrite(t, o)
     /\ IF db[o].st \notin Claimable(t) THEN Throw(t)
        ELSE /\ WriteIf(t, TRUE, o, [db[o] EXCEPT !.st = tx[t].target])
             /\ Continue(t, [tx[t] EXCEPT !.events = Announcements(t)])

\* restoreInventory, by the recipe read.
Restore(t) ==
  LET i == ItemOf[tx[t].draft.product]
  IN /\ Runs(t, "Restore")
     /\ WriteIf(t, tx[t].recipe > 0, i, db[i] + tx[t].recipe)
     /\ Continue(t, tx[t])

\* Mutant: the points earned are left with the member.
ClawbackKeepsEarned(t) ==
  LET d == tx[t].draft
  IN /\ Runs(t, "Clawback")
     /\ WriteIf(t, d.member /\ d.redeemed > 0, Member, db[Member] + d.redeemed)
     /\ Continue(t, tx[t])

\* The points of the order are given back or taken back; taking back more than
\* the balance matches no row.
Clawback(t) ==
  LET d == tx[t].draft
      delta == d.redeemed - d.earned
  IN /\ Runs(t, "Clawback")
     /\ d.member /\ delta < 0 => MayWrite(t, Member)
     /\ IF d.member /\ delta < 0 /\ db[Member] < -delta
          THEN /\ tx' = [tx EXCEPT ![t].code = <<"Floor">>]
               /\ ReadOnly
          ELSE /\ WriteIf(t, d.member /\ delta # 0, Member, db[Member] + delta)
               /\ Continue(t, tx[t])

\* No row matched: the balance is set to zero, whatever it is by then.
Floor(t) == /\ Runs(t, "Floor")
            /\ WriteIf(t, TRUE, Member, 0)
            /\ Continue(t, tx[t])

-------------------------------------------------------------------------------
\* A manager edits a recipe.
EditRecipe == \E p \in Products, q \in RecipeChoices :
  /\ q # recipe[p]
  /\ recipe' = [recipe EXCEPT ![p] = q]
  /\ UNCHANGED <<db, committed, lock, tx, events, answers, begun, today>>

NextDay == /\ today < LastDay
           /\ today' = today + 1
           /\ UNCHANGED <<db, committed, lock, tx, events, answers, recipe, begun>>

Creating(t) == \/ BeginCreate(t) \/ ReadRecipe(t) \/ Deduct(t) \/ CheckPoints(t)
               \/ Redeem(t) \/ Earn(t) \/ Allocate(t) \/ Insert(t)
               \/ InsertRepeated(t) \/ InsertOutrun(t) \/ FindExisting(t)

Changing(t) == \/ BeginStatus(t) \/ BeginVoid(t) \/ BeginRefund(t)
               \/ Claim(t) \/ Restore(t) \/ Clawback(t) \/ Floor(t)

Next == \/ \E t \in Txns : Creating(t) \/ Changing(t) \/ Commit(t) \/ Abort(t)
        \/ EditRecipe
        \/ NextDay

Spec == Init /\ [][Next]_vars

-------------------------------------------------------------------------------
(* Properties.                                                             *)

OrderRow == [st : Operational \union Terminal \union {"none"},
             request : Requests \union {NoRequest}, queue : Nat, day : Nat, created : Nat,
             product : Products \union {NoTxn}, member : BOOLEAN,
             earned : Nat, redeemed : Nat, used : Nat]

\* Every row keeps its type, and nothing uncommitted outlives its transaction.
TypeOK ==
  /\ \A v \in {db, committed} :
       /\ DOMAIN v = Rows
       /\ \A r \in Items \union {Member} : v[r] \in Int
       /\ \A o \in Orders : v[o] \in OrderRow
  /\ FreeRowsCommitted
  /\ \A t \in Txns : /\ tx[t].op \in DOMAIN Program \union {"none"}
                     /\ tx[t].attempt \in 0 .. MaxRetries
                     /\ tx[t].op = "none" => \A r \in Rows : lock[r] # t
  /\ answers \in [Requests -> SUBSET Orders]
  /\ recipe \in [Products -> Nat]

Live == {o \in Orders : committed[o].st \in Operational}

Used(o) == committed[o].used
Gained(o) == committed[o].earned - committed[o].redeemed

\* The stock is what it was, less what the orders that stand took: a sale that
\* failed, was repeated or was reversed leaves none of it missing, and none is
\* given back twice.
StockFollowsOrders ==
  \A i \in Items :
    committed[i] = InitialStock[i]
      - SumFunction([o \in {u \in Live : ItemOf[committed[u].product] = i} |-> Used(o)])

\* The balance of the member is what it was plus what the orders that stand
\* earned less what they redeemed.
PointsFollowOrders ==
  committed[Member] =
    InitialPoints + SumFunction([o \in {u \in Live : committed[u].member} |-> Gained(o)])

\* A sale sent any number of times is one order, and every answer names it.
OneOrderPerRequest ==
  \A c \in Requests :
    /\ Cardinality({o \in Orders : committed[o].request = c}) <= 1
    /\ \A o \in answers[c] : committed[o].request = c

\* The orders of a day carry the tickets 1, 2, 3, ..., one each, none skipped.
QueueNumbersConsecutive ==
  \A d \in 1 .. LastDay :
    LET sold == {o \in Sold(committed) : committed[o].day = d}
    IN {committed[o].queue : o \in sold} = 1 .. Cardinality(sold)

Count(o, type) == Cardinality({k \in 1 .. Len(events[o]) : events[o][k][1] = type})

\* The outbox tells the story of every order: one creation, the last status is
\* that of the row, and one void or refund event exactly when it was reversed.
EventsFollowOrders ==
  \A o \in Orders :
    IF committed[o].st = "none" THEN events[o] = <<>>
    ELSE /\ Count(o, "CREATED") = 1 /\ events[o][1][1] = "CREATED"
         /\ Last(events[o])[2] = committed[o].st
         /\ Count(o, "VOIDED") = IF committed[o].st = "CANCELLED" THEN 1 ELSE 0
         /\ Count(o, "REFUNDED") = IF committed[o].st = "REFUNDED" THEN 1 ELSE 0

\* The status of a committed order moves forward only, whoever else moves it: it
\* never goes back to the kitchen, and a reversed order stays as it is.
StatusMovesForward ==
  [][\A o \in Orders :
       LET from == committed[o].st
           to == committed'[o].st
       IN from # to => \/ from = "none" /\ to \in Operational
                       \/ CanTransition(from, to)
                       \/ from \in Operational /\ to = "CANCELLED"
                       \/ from = "COMPLETED" /\ to = "REFUNDED"]_vars

\* docs/architecture.md: a balance of points is never negative.
PointsNonNegative == committed[Member] >= 0
===============================================================================
