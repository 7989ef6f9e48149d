------------------------------ MODULE OrdersProofs ------------------------------
(***************************************************************************)
(* Theorems about orders for every set of requests, products and orders,   *)
(* every recipe and price, and every number of operations and days.        *)
(***************************************************************************)
EXTENDS Orders, SumProofs, FiniteSetTheorems, TLAPS

OpNames == {"create", "status", "void", "refund"}
Creation == {"ReadRecipe", "Deduct", "CheckPoints", "Redeem", "Earn", "Allocate", "Insert",
             "FindExisting"}
Change == {"Claim", "Restore", "Clawback", "Floor"}
Statuses == Operational \union Terminal

TxRecords ==
  [op : OpNames \union {"none"}, code : Seq(Creation \union Change),
   order : Orders \union {0}, draft : OrderRow, ask : Nat, recipe : Nat,
   read : Statuses \union {"none"}, target : Statuses \union {"none"},
   attempt : 0 .. MaxRetries,
   events : Seq({"CREATED", "STATUS", "VOIDED", "REFUNDED"} \X Statuses)]

-------------------------------------------------------------------------------
(* The invariant.                                                          *)

\* How a status may change from one committed version to the next.
Forward(from, to) == \/ from = to
                     \/ from = "none" /\ to \in Operational
                     \/ CanTransition(from, to)
                     \/ from \in Operational /\ to = "CANCELLED"
                     \/ from = "COMPLETED" /\ to = "REFUNDED"

\* A version of every row.
Sound(v) == /\ v = [r \in Rows |-> v[r]]
            /\ \A r \in Items \union {Member} : v[r] \in Int
            /\ \A o \in Orders : /\ v[o] \in OrderRow
                                 /\ v[o].st = "none" => v[o].request = NoRequest
                                 /\ v[o].st # "none" => v[o].product \in Products

\* The latest version of an order is one step ahead of the committed one, of the
\* same sale; and no two latest versions are of one request.
RowsInv ==
  /\ Sound(db) /\ Sound(committed)
  /\ FreeRowsCommitted
  /\ \A o \in Orders : /\ Forward(committed[o].st, db[o].st)
                       /\ committed[o].st # "none" => /\ db[o].st # "none"
                                                      /\ db[o].request = committed[o].request
  /\ \A o, u \in Orders : db[o].request = db[u].request /\ db[o].request # NoRequest => o = u

\* What a transaction will do follows from its operation.
Shape(x) ==
  /\ x.op = "none" => x.code = <<>>
  /\ x.op = "create" =>
       /\ x.draft.product \in Products
       /\ x.draft.redeemed <= Price[x.draft.product] * PointsPerUnit
       /\ \A n \in 1 .. Len(x.code) :
            /\ x.code[n] \in Creation
            /\ x.code[n] \in {"Insert", "FindExisting"} <=> n = Len(x.code)
            /\ x.code[n] = "FindExisting" => n = 1
  /\ x.op \in OpNames \ {"create"} =>
       /\ x.order \in Orders
       /\ \A n \in 1 .. Len(x.code) :
            /\ x.code[n] \in Change
            /\ x.code[n] = "Claim" => /\ n = 1
                                      /\ CASE x.op = "status" -> CanTransition(x.read, x.target)
                                           [] x.op = "void"   -> x.target = "CANCELLED"
                                           [] x.op = "refund" -> x.target = "REFUNDED"
            /\ x.code[n] = "Restore" => x.draft.product \in Products

\* What a transaction holds: nothing before its first statement; the order it is
\* about to commit after its last one.
HoldsNothing(x) == \/ x.op = "none"
                   \/ x.code # <<>> /\ x.code[1] \in {"Claim", "FindExisting"}
Holdings(t) ==
  /\ HoldsNothing(tx[t]) => \A r \in Rows : lock[r] # t
  /\ tx[t].op = "create" /\ tx[t].code = <<>> =>
       /\ tx[t].order \in Orders
       /\ lock[tx[t].order] = t
       /\ db[tx[t].order].request = tx[t].draft.request

TxInv == /\ tx \in [Txns -> TxRecords]
         /\ \A t \in Txns : Shape(tx[t]) /\ Holdings(t)

AnswersInv == /\ answers \in [Requests -> SUBSET Orders]
              /\ \A c \in Requests : \A o \in answers[c] : committed[o].request = c

OrdersInv == /\ RowsInv /\ TxInv /\ AnswersInv
             /\ recipe \in [Products -> Nat] /\ today \in Nat

-------------------------------------------------------------------------------
(* The row store.                                                          *)

LEMMA RowKinds ==
  /\ Items \subseteq Rows /\ Orders \subseteq Rows /\ Member \in Rows
  /\ \A o \in Orders : o \notin Items \union {Member}
  /\ \A t \in Txns : t # NoTxn
BY OrdersAssumption DEF Rows

\* What a transaction that ends leaves of the locks.
LEMMA Released ==
  ASSUME NEW t \in Txns, lock \in [Rows -> Txns \union {NoTxn}], Release(t)
  PROVE  /\ lock' \in [Rows -> Txns \union {NoTxn}]
         /\ \A r \in Rows : /\ lock[r] = t => lock'[r] = NoTxn
                            /\ lock[r] # t => lock'[r] = lock[r]
BY DEF Release

LEMMA UndoKeeps ==
  ASSUME RowsInv, NEW t \in Txns, UndoWrites(t)
  PROVE  RowsInv'
<1>1. /\ db' = [r \in Rows |-> IF lock[r] = t THEN committed[r] ELSE db[r]]
      /\ committed' = committed
  BY DEF UndoWrites
<1>2. Sound(db')
  BY <1>1, RowKinds DEF RowsInv, Sound
<1>3. FreeRowsCommitted'
  BY <1>1, Released, RowKinds DEF RowsInv, FreeRowsCommitted, UndoWrites
<1>4. \A o \in Orders : /\ Forward(committed[o].st, db'[o].st)
                        /\ committed[o].st # "none" => /\ db'[o].st # "none"
                                                       /\ db'[o].request = committed[o].request
  BY <1>1, RowKinds DEF RowsInv, Forward
<1>5. \A o \in Orders : db'[o].request # NoRequest => db'[o].request = db[o].request
  BY <1>1, RowKinds DEF RowsInv, Sound
<1>6. \A o, u \in Orders : db'[o].request = db'[u].request /\ db'[o].request # NoRequest => o = u
  BY <1>5 DEF RowsInv
<1> QED BY <1>1, <1>2, <1>3, <1>4, <1>6 DEF RowsInv

LEMMA KeepKeeps ==
  ASSUME RowsInv, NEW t \in Txns, KeepWrites(t)
  PROVE  RowsInv'
<1>1. /\ committed' = [r \in Rows |-> IF lock[r] = t THEN db[r] ELSE committed[r]]
      /\ db' = db
  BY DEF KeepWrites
<1>2. Sound(committed')
  BY <1>1, RowKinds DEF RowsInv, Sound
<1>3. FreeRowsCommitted'
  BY <1>1, Released, RowKinds DEF RowsInv, FreeRowsCommitted, KeepWrites
<1>4. \A o \in Orders : /\ Forward(committed'[o].st, db[o].st)
                        /\ committed'[o].st # "none" => /\ db[o].st # "none"
                                                        /\ db[o].request = committed'[o].request
  BY <1>1, RowKinds DEF RowsInv, Forward
<1> QED BY <1>1, <1>2, <1>3, <1>4 DEF RowsInv

LEMMA WriteNumberKeeps ==
  ASSUME RowsInv, NEW t \in Txns, NEW r \in Items \union {Member}, NEW value \in Int,
         Write(t, r, value), UNCHANGED committed
  PROVE  RowsInv'
<1>1. /\ r \in Rows /\ r \notin Orders
      /\ db' = [db EXCEPT ![r] = value] /\ lock' = [lock EXCEPT ![r] = t]
  BY RowKinds DEF Write
<1>2. /\ Sound(db') /\ \A o \in Orders : db'[o] = db[o]
  BY <1>1, RowKinds DEF RowsInv, Sound
<1>3. FreeRowsCommitted'
  BY <1>1, RowKinds DEF RowsInv, FreeRowsCommitted, Sound
<1> QED BY <1>2, <1>3 DEF RowsInv

LEMMA WriteOrderKeeps ==
  ASSUME RowsInv, NEW t \in Txns, NEW o \in Orders, NEW value \in OrderRow,
         value.st # "none", value.product \in Products,
         Forward(committed[o].st, value.st),
         committed[o].st # "none" => value.request = committed[o].request,
         \A u \in Orders \ {o} : db[u].request # value.request \/ value.request = NoRequest,
         Write(t, o, value), UNCHANGED committed
  PROVE  RowsInv'
<1>1. /\ o \in Rows /\ o \notin Items \union {Member}
      /\ db' = [db EXCEPT ![o] = value] /\ lock' = [lock EXCEPT ![o] = t]
  BY RowKinds DEF Write
<1>2. /\ Sound(db') /\ db'[o] = value /\ \A u \in Orders \ {o} : db'[u] = db[u]
  BY <1>1, RowKinds DEF RowsInv, Sound
<1>3. FreeRowsCommitted'
  BY <1>1, RowKinds DEF RowsInv, FreeRowsCommitted, Sound
<1>4. \A u \in Orders : /\ Forward(committed[u].st, db'[u].st)
                        /\ committed[u].st # "none" => /\ db'[u].st # "none"
                                                       /\ db'[u].request = committed[u].request
  BY <1>2 DEF RowsInv
<1>5. \A u, w \in Orders : db'[u].request = db'[w].request /\ db'[u].request # NoRequest => u = w
  BY <1>2 DEF RowsInv
<1> QED BY <1>2, <1>3, <1>4, <1>5 DEF RowsInv

\* A write leaves the rows of the others alone.
LEMMA OthersUntouched ==
  ASSUME db = [p \in Rows |-> db[p]], lock \in [Rows -> Txns \union {NoTxn}],
         NEW t \in Txns, NEW r \in Rows, NEW value, MayWrite(t, r), Write(t, r, value)
  PROVE  \A u \in Txns \ {t} : \A p \in Rows :
           /\ lock'[p] = u => lock[p] = u
           /\ lock[p] = u => lock'[p] = u /\ db'[p] = db[p]
<1> SUFFICES ASSUME NEW u \in Txns \ {t}, NEW p \in Rows
             PROVE  /\ lock'[p] = u => lock[p] = u
                    /\ lock[p] = u => lock'[p] = u /\ db'[p] = db[p]
  OBVIOUS
<1>1. CASE p = r
  BY <1>1, RowKinds DEF Write, MayWrite
<1>2. CASE p # r
  BY <1>2 DEF Write
<1> QED BY <1>1, <1>2

-------------------------------------------------------------------------------
(* Transactions.                                                           *)

\* A transaction that does not move keeps what it holds.
LEMMA OthersHold ==
  ASSUME TxInv, NEW u \in Txns, tx'[u] = tx[u],
         \A r \in Rows : /\ lock'[r] = u => lock[r] = u
                         /\ lock[r] = u => lock'[r] = u /\ db'[r] = db[r]
  PROVE  Holdings(u)'
BY RowKinds DEF TxInv, Holdings

LEMMA TxSteps ==
  ASSUME RowsInv, TxInv, NEW t \in Txns, NEW x \in TxRecords, Shape(x),
         tx' = [tx EXCEPT ![t] = x], Holdings(t)',
         \A u \in Txns \ {t} : \A r \in Rows :
           /\ lock'[r] = u => lock[r] = u
           /\ lock[r] = u => lock'[r] = u /\ db'[r] = db[r]
  PROVE  TxInv'
<1>1. tx' \in [Txns -> TxRecords] /\ tx'[t] = x /\ \A u \in Txns \ {t} : tx'[u] = tx[u]
  BY DEF TxInv
<1>2. \A u \in Txns : Shape(tx'[u])
  BY <1>1 DEF TxInv
<1>3. \A u \in Txns \ {t} : Holdings(u)'
  BY <1>1, OthersHold
<1> QED BY <1>1, <1>2, <1>3 DEF TxInv

\* A transaction that is rolled back, to begin again or to end.
LEMMA RollBackKeeps ==
  ASSUME OrdersInv, NEW t \in Txns, NEW x \in TxRecords, Shape(x),
         x.op = "create" => x.code # <<>>, RollBackTo(t, x)
  PROVE  OrdersInv'
<1>1. /\ UndoWrites(t) /\ tx' = [tx EXCEPT ![t] = x]
      /\ UNCHANGED <<answers, recipe, today, committed>>
  BY DEF RollBackTo, others, UndoWrites
<1>2. RowsInv'
  BY <1>1, UndoKeeps DEF OrdersInv
<1>3. /\ \A r \in Rows : lock'[r] # t
      /\ \A u \in Txns \ {t} : \A r \in Rows :
           /\ lock'[r] = u => lock[r] = u
           /\ lock[r] = u => lock'[r] = u /\ db'[r] = db[r]
  BY <1>1, Released, RowKinds DEF UndoWrites, OrdersInv, RowsInv, FreeRowsCommitted
<1>4. tx'[t] = x
  BY <1>1 DEF OrdersInv, TxInv
<1>5. Holdings(t)'
  BY <1>3, <1>4 DEF Holdings
<1>6. TxInv'
  BY <1>1, <1>3, <1>5, TxSteps DEF OrdersInv
<1> QED BY <1>1, <1>2, <1>6 DEF OrdersInv, AnswersInv

LEMMA IdleShape == Idle \in TxRecords /\ Shape(Idle)
<1>1. NoOrder \in OrderRow
  BY DEF NoOrder, OrderRow
<1>2. 0 \in 0 .. MaxRetries
  BY PointsAssumption
<1>3. <<>> \in Seq(Creation \union Change)
      /\ <<>> \in Seq({"CREATED", "STATUS", "VOIDED", "REFUNDED"} \X Statuses)
  OBVIOUS
<1>4. Idle \in TxRecords
  BY <1>1, <1>2, <1>3 DEF Idle, TxRecords
<1>5. Shape(Idle)
  BY DEF Idle, Shape, OpNames
<1> QED BY <1>4, <1>5

LEMMA ThrowKeeps ==
  ASSUME OrdersInv, NEW t \in Txns, Throw(t)
  PROVE  OrdersInv'
BY IdleShape, RollBackKeeps DEF Throw, Idle

\* A statement that writes the stock or the points, or nothing.
LEMMA StatementKeeps ==
  ASSUME OrdersInv, NEW t \in Txns, NEW x \in TxRecords, Shape(x),
         ~HoldsNothing(x), x.op = "create" => x.code # <<>>, tx' = [tx EXCEPT ![t] = x],
         \/ UNCHANGED <<db, lock>>
         \/ \E r \in Items \union {Member} : \E value \in Int : MayWrite(t, r) /\ Write(t, r, value),
         UNCHANGED <<committed, answers, recipe, today>>
  PROVE  OrdersInv'
<1>1. tx'[t] = x
  BY DEF OrdersInv, TxInv
<1>2. Holdings(t)'
  BY <1>1 DEF Holdings
<1>3. CASE UNCHANGED <<db, lock>>
  <2>1. RowsInv'
    BY <1>3 DEF OrdersInv, RowsInv, FreeRowsCommitted
  <2>2. TxInv'
    BY <1>2, <1>3, TxSteps DEF OrdersInv
  <2> QED BY <2>1, <2>2 DEF OrdersInv, AnswersInv
<1>4. ASSUME NEW r \in Items \union {Member}, NEW value \in Int, MayWrite(t, r), Write(t, r, value)
      PROVE  OrdersInv'
  <2>1. RowsInv'
    BY <1>4, WriteNumberKeeps DEF OrdersInv
  <2>2. \A u \in Txns \ {t} : \A p \in Rows :
          /\ lock'[p] = u => lock[p] = u
          /\ lock[p] = u => lock'[p] = u /\ db'[p] = db[p]
    BY <1>4, RowKinds, OthersUntouched DEF OrdersInv, RowsInv, Sound, FreeRowsCommitted
  <2>3. TxInv'
    BY <1>2, <2>2, TxSteps DEF OrdersInv
  <2> QED BY <2>1, <2>3 DEF OrdersInv, AnswersInv
<1> QED BY <1>3, <1>4

\* Going on to the next statement.
LEMMA TailShape ==
  ASSUME NEW x \in TxRecords, Shape(x), x.code # <<>>, x.code[1] \notin {"Insert", "FindExisting"}
  PROVE  LET y == [x EXCEPT !.code = Tail(@)]
         IN /\ y \in TxRecords /\ Shape(y)
            /\ ~HoldsNothing(y)
            /\ y.op = "create" => y.code # <<>>
<1> DEFINE y == [x EXCEPT !.code = Tail(@)]
<1>1. /\ x.code \in Seq(Creation \union Change) /\ Len(x.code) \in Nat \ {0}
      /\ x.op \in OpNames
  BY DEF TxRecords, Shape
<1>2. /\ Tail(x.code) \in Seq(Creation \union Change)
      /\ Len(Tail(x.code)) = Len(x.code) - 1
      /\ \A n \in 1 .. Len(Tail(x.code)) : /\ n + 1 \in 1 .. Len(x.code)
                                           /\ Tail(x.code)[n] = x.code[n + 1]
  BY <1>1
<1>3. /\ y \in TxRecords /\ y.code = Tail(x.code) /\ y.op = x.op /\ y.order = x.order
      /\ y.draft = x.draft /\ y.read = x.read /\ y.target = x.target
  BY <1>2 DEF TxRecords
<1> HIDE DEF y
<1>4. CASE x.op = "create"
  <2>1. Len(x.code) > 1
    <3>1. 1 \in 1 .. Len(x.code)
      BY <1>1
    <3> QED BY <1>1, <1>4, <3>1 DEF Shape
  <2>2. Len(y.code) > 0 /\ y.code # <<>>
    <3>1. Len(y.code) > 0
      BY <1>2, <1>3, <2>1
    <3> QED BY <3>1
  <2>3. \A n \in 1 .. Len(y.code) : /\ n + 1 \in 1 .. Len(x.code) /\ y.code[n] = x.code[n + 1]
                                    /\ (n + 1 = Len(x.code) <=> n = Len(y.code))
    BY <1>1, <1>2, <1>3
  <2>4. Shape(y)
    <3>1. \A n \in 1 .. Len(y.code) :
            /\ y.code[n] \in Creation
            /\ y.code[n] \in {"Insert", "FindExisting"} <=> n = Len(y.code)
            /\ y.code[n] # "FindExisting"
      <4> SUFFICES ASSUME NEW n \in 1 .. Len(y.code)
                   PROVE  /\ y.code[n] \in Creation
                          /\ y.code[n] \in {"Insert", "FindExisting"} <=> n = Len(y.code)
                          /\ y.code[n] # "FindExisting"
        OBVIOUS
      <4>1. /\ n + 1 \in 1 .. Len(x.code) /\ y.code[n] = x.code[n + 1]
            /\ n + 1 = Len(x.code) <=> n = Len(y.code)
        BY <2>3
      <4>2. n + 1 # 1
        OBVIOUS
      <4> QED BY <1>4, <4>1, <4>2 DEF Shape
    <3> QED BY <1>3, <1>4, <3>1 DEF Shape, OpNames
  <2>5. ~HoldsNothing(y)
    <3>1. 1 \in 1 .. Len(y.code)
      BY <1>1, <1>2, <1>3, <2>2
    <3>2. y.code[1] \in Creation
      BY <1>3, <1>4, <2>4, <3>1 DEF Shape
    <3>3. y.code[1] # "FindExisting"
      <4>1. 2 \in 1 .. Len(x.code) /\ y.code[1] = x.code[2]
        BY <1>3, <1>2, <2>3, <3>1
      <4> QED BY <1>4, <4>1 DEF Shape
    <3> QED BY <1>3, <1>4, <3>2, <3>3 DEF HoldsNothing, Creation
  <2> QED BY <1>3, <2>2, <2>4, <2>5 DEF y
<1>5. CASE x.op # "create"
  <2>1. \A n \in 1 .. Len(y.code) : /\ y.code[n] \in Change
                                    /\ y.code[n] # "Claim"
                                    /\ y.code[n] = "Restore" => y.draft.product \in Products
    <3> SUFFICES ASSUME NEW n \in 1 .. Len(y.code)
                 PROVE  /\ y.code[n] \in Change
                        /\ y.code[n] # "Claim"
                        /\ y.code[n] = "Restore" => y.draft.product \in Products
      OBVIOUS
    <3>1. n + 1 \in 1 .. Len(x.code) /\ y.code[n] = x.code[n + 1] /\ n + 1 # 1
      BY <1>1, <1>2, <1>3
    <3> QED BY <1>1, <1>3, <1>5, <3>1 DEF Shape
  <2>2. Shape(y)
    BY <1>1, <1>3, <1>5, <2>1 DEF Shape, OpNames
  <2>3. ~HoldsNothing(y)
    <3>1. y.code # <<>> => 1 \in 1 .. Len(y.code)
      BY <1>2, <1>3
    <3> QED BY <1>1, <1>3, <2>1, <3>1 DEF HoldsNothing, OpNames, Change
  <2> QED BY <1>3, <1>5, <2>2, <2>3 DEF y
<1> QED BY <1>4, <1>5 DEF y

LEMMA LastTail ==
  ASSUME NEW S, NEW s \in Seq(S), Len(s) = 1
  PROVE  Tail(s) = <<>> /\ Tail(s) \in Seq(S)
<1>1. s # <<>>
  OBVIOUS
<1>2. Tail(s) \in Seq(S) /\ Len(Tail(s)) = 0
  BY <1>1
<1> DEFINE e == Tail(s)
<1> HIDE DEF e
<1>3. e \in Seq(S) /\ Len(e) = 0 => e = <<>>
  OBVIOUS
<1> QED BY <1>2, <1>3 DEF e

\* What is known of a transaction about to execute a statement.
LEMMA Running ==
  ASSUME OrdersInv, NEW t \in Txns, NEW statement, Runs(t, statement)
  PROVE  /\ tx[t] \in TxRecords /\ Shape(tx[t])
         /\ tx[t].code # <<>> /\ tx[t].op \in OpNames
         /\ 1 \in 1 .. Len(tx[t].code) /\ tx[t].code[1] = statement
         /\ tx[t].draft \in OrderRow /\ tx[t].ask \in Nat /\ tx[t].recipe \in Nat
         /\ tx[t].op = "create" <=> statement \in Creation
<1>1. tx[t] \in TxRecords /\ Shape(tx[t]) /\ tx[t].code # <<>>
  BY DEF OrdersInv, TxInv, Runs
<1>2. /\ tx[t].code \in Seq(Creation \union Change) /\ tx[t].op \in OpNames
      /\ tx[t].draft \in OrderRow /\ tx[t].ask \in Nat /\ tx[t].recipe \in Nat
  BY <1>1 DEF TxRecords, Shape
<1>3. 1 \in 1 .. Len(tx[t].code) /\ tx[t].code[1] = statement
  BY <1>1, <1>2 DEF Runs
<1>4. tx[t].op = "create" <=> statement \in Creation
  BY <1>1, <1>2, <1>3 DEF Shape, Creation, Change
<1> QED BY <1>1, <1>2, <1>3, <1>4

LEMMA ContinueKeeps ==
  ASSUME OrdersInv, NEW t \in Txns, NEW x \in TxRecords, Shape(x), Continue(t, x),
         x.code # <<>>, x.code[1] \notin {"Insert", "FindExisting"},
         \/ UNCHANGED <<db, lock>>
         \/ \E r \in Items \union {Member} : \E value \in Int : MayWrite(t, r) /\ Write(t, r, value),
         UNCHANGED <<committed, answers, recipe, today>>
  PROVE  OrdersInv'
<1> DEFINE y == [x EXCEPT !.code = Tail(@)]
<1>1. /\ y \in TxRecords /\ Shape(y)
      /\ ~HoldsNothing(y)
      /\ y.op = "create" => y.code # <<>>
  BY TailShape
<1>2. tx' = [tx EXCEPT ![t] = y]
  BY DEF Continue
<1> HIDE DEF y
<1> QED BY <1>1, <1>2, StatementKeeps

-------------------------------------------------------------------------------
(* Beginnings.                                                             *)

LEMMA ProgramCode ==
  /\ Program["create"] \in Seq(Creation \union Change) /\ Program["create"] # <<>>
  /\ \A n \in 1 .. Len(Program["create"]) :
       /\ Program["create"][n] \in Creation
       /\ Program["create"][n] \in {"Insert", "FindExisting"} <=> n = Len(Program["create"])
       /\ Program["create"][n] # "FindExisting"
  /\ \A op \in OpNames \ {"create"} :
       /\ Program[op] \in Seq(Creation \union Change)
       /\ Program[op] # <<>> /\ Program[op][1] = "Claim"
       /\ \A n \in 1 .. Len(Program[op]) :
            /\ Program[op][n] \in Change
            /\ Program[op][n] = "Claim" => n = 1
            /\ Program[op][n] = "Restore" => op \in {"void", "refund"}
<1>1. Program["create"] = <<"ReadRecipe", "Deduct", "CheckPoints", "Redeem", "Earn", "Allocate", "Insert">>
  BY DEF Program
<1>2. /\ Program["create"] \in Seq(Creation \union Change) /\ Program["create"] # <<>>
      /\ \A n \in 1 .. Len(Program["create"]) :
           /\ Program["create"][n] \in Creation
           /\ Program["create"][n] \in {"Insert", "FindExisting"} <=> n = Len(Program["create"])
           /\ Program["create"][n] # "FindExisting"
  BY <1>1 DEF Creation
<1>3. Program["status"] = <<"Claim">>
  BY DEF Program
<1>4. /\ Program["void"] = <<"Claim", "Restore", "Clawback">>
      /\ Program["refund"] = <<"Claim", "Restore", "Clawback">>
  BY DEF Program
<1>5. ASSUME NEW op \in OpNames \ {"create"}
      PROVE  /\ Program[op] \in Seq(Creation \union Change)
             /\ Program[op] # <<>> /\ Program[op][1] = "Claim"
             /\ \A n \in 1 .. Len(Program[op]) :
                  /\ Program[op][n] \in Change
                  /\ Program[op][n] = "Claim" => n = 1
                  /\ Program[op][n] = "Restore" => op \in {"void", "refund"}
  <2>1. CASE op = "status"
    BY <2>1, <1>3 DEF Change, Creation
  <2>2. CASE op \in {"void", "refund"}
    <3>1. Program[op] = <<"Claim", "Restore", "Clawback">>
      BY <2>2, <1>4
    <3> QED BY <2>2, <3>1 DEF Change, Creation
  <2> QED BY <1>5, <2>1, <2>2 DEF OpNames
<1> QED BY <1>2, <1>5

\* A sale at its beginning.
Sale(x) == /\ x.op = "create" /\ x.code = Program["create"]
           /\ x.draft.product \in Products /\ x.draft.redeemed = 0

LEMMA SaleShape ==
  ASSUME NEW x \in TxRecords, Sale(x)
  PROVE  Shape(x) /\ x.code # <<>> /\ ~HoldsNothing(x)
<1>1. 0 <= Price[x.draft.product] * PointsPerUnit
  BY ProductsAssumption, PointsAssumption DEF Sale
<1>2. /\ x.code # <<>>
      /\ \A n \in 1 .. Len(x.code) : /\ x.code[n] \in Creation
                                     /\ x.code[n] \in {"Insert", "FindExisting"} <=> n = Len(x.code)
                                     /\ x.code[n] # "FindExisting"
  BY ProgramCode DEF Sale
<1>3. Shape(x)
  BY <1>1, <1>2 DEF Shape, Sale
<1>4. 1 \in 1 .. Len(x.code)
  BY <1>2 DEF TxRecords
<1>5. ~HoldsNothing(x)
  BY <1>2, <1>4 DEF HoldsNothing, Sale, Creation
<1> QED BY <1>2, <1>3, <1>5

\* The draft of a sale nothing has been done for.
LEMMA DraftOf ==
  ASSUME NEW p \in Products, NEW c \in Requests \union {NoRequest}, NEW m \in BOOLEAN
  PROVE  LET d == [NoOrder EXCEPT !.product = p, !.request = c, !.member = m]
         IN d \in OrderRow /\ d.product = p /\ d.redeemed = 0
<1>1. NoOrder \in OrderRow /\ NoOrder.redeemed = 0
  BY DEF NoOrder, OrderRow
<1> QED BY <1>1 DEF OrderRow

LEMMA BeginKeeps ==
  ASSUME OrdersInv, NEW t \in Txns, tx[t].op = "none",
         NEW x \in TxRecords, Shape(x), x.code # <<>>,
         tx' = [tx EXCEPT ![t] = x], UNCHANGED <<db, committed, lock, answers, recipe, today>>
  PROVE  OrdersInv'
<1>1. RowsInv'
  BY DEF OrdersInv, RowsInv, FreeRowsCommitted
<1>2. tx'[t] = x
  BY DEF OrdersInv, TxInv
<1>3. \A r \in Rows : lock[r] # t
  BY DEF OrdersInv, TxInv, Holdings, HoldsNothing
<1>4. Holdings(t)'
  BY <1>2, <1>3 DEF Holdings
<1>5. TxInv'
  BY <1>4, TxSteps DEF OrdersInv
<1> QED BY <1>1, <1>5 DEF OrdersInv, AnswersInv

LEMMA BeginCreateKeeps ==
  ASSUME OrdersInv, NEW t \in Txns, BeginCreate(t)
  PROVE  OrdersInv'
<1>1. PICK p \in Products, c \in Requests \union {NoRequest}, m \in Buyers, ask \in Redemptions :
        Begin(t, [Idle EXCEPT !.op = "create", !.ask = ask,
                    !.draft = [NoOrder EXCEPT !.product = p, !.request = c, !.member = m]])
  BY DEF BeginCreate
<1> DEFINE d == [NoOrder EXCEPT !.product = p, !.request = c, !.member = m]
           y == [Idle EXCEPT !.op = "create", !.ask = ask, !.draft = d]
           x == [y EXCEPT !.code = Program[y.op]]
<1>2. Begin(t, y)
  BY <1>1
<1>3. d \in OrderRow /\ d.product = p /\ d.redeemed = 0 /\ ask \in Nat
  <2>1. m \in BOOLEAN /\ ask \in Nat
    BY PointsAssumption
  <2>2. d \in OrderRow /\ d.product = p /\ d.redeemed = 0
    BY ONLY <2>1, DraftOf, p \in Products, c \in Requests \union {NoRequest}, m \in BOOLEAN
  <2> QED BY <2>1, <2>2
<1> HIDE DEF d
<1>4. y \in TxRecords /\ y.op = "create" /\ y.draft = d
  BY <1>3, IdleShape DEF TxRecords, OpNames
<1> HIDE DEF y
<1>5. x \in TxRecords /\ x.op = "create" /\ x.draft = d /\ x.code = Program["create"]
  BY <1>4, ProgramCode DEF TxRecords
<1>6. tx' = [tx EXCEPT ![t] = x]
  BY <1>2 DEF Begin
<1> HIDE DEF x
<1>7. Shape(x) /\ x.code # <<>>
  BY <1>3, <1>5, SaleShape DEF Sale
<1> QED BY <1>2, <1>5, <1>6, <1>7, BeginKeeps DEF Begin

\* The beginning of a change of an order.
LEMMA ChangeKeeps ==
  ASSUME OrdersInv, NEW t \in Txns, NEW y \in TxRecords, Begin(t, y),
         y.op \in OpNames \ {"create"}, y.order \in Orders,
         CASE y.op = "status" -> CanTransition(y.read, y.target)
           [] y.op = "void"   -> y.target = "CANCELLED"
           [] y.op = "refund" -> y.target = "REFUNDED",
         y.op \in {"void", "refund"} => y.draft.product \in Products
  PROVE  OrdersInv'
<1> DEFINE x == [y EXCEPT !.code = Program[y.op]]
<1>1. /\ Program[y.op] \in Seq(Creation \union Change) /\ Program[y.op] # <<>>
      /\ \A n \in 1 .. Len(Program[y.op]) : /\ Program[y.op][n] \in Change
                                            /\ Program[y.op][n] = "Claim" => n = 1
                                            /\ Program[y.op][n] = "Restore" => y.op \in {"void", "refund"}
  BY ProgramCode
<1>2. /\ x \in TxRecords /\ x.op = y.op /\ x.order = y.order /\ x.read = y.read
      /\ x.target = y.target /\ x.draft = y.draft /\ x.code = Program[y.op]
  BY <1>1 DEF TxRecords
<1>3. tx' = [tx EXCEPT ![t] = x]
  BY DEF Begin
<1> HIDE DEF x
<1>4. Shape(x) /\ x.code # <<>>
  BY <1>1, <1>2 DEF Shape, OpNames
<1> QED BY <1>2, <1>3, <1>4, BeginKeeps DEF Begin

LEMMA BeginStatusKeeps ==
  ASSUME OrdersInv, NEW t \in Txns, BeginStatus(t)
  PROVE  OrdersInv'
<1>1. PICK o \in Orders, to \in Operational :
        /\ CanTransition(committed[o].st, to)
        /\ Begin(t, [Idle EXCEPT !.op = "status", !.order = o, !.read = committed[o].st,
                       !.target = to])
  BY DEF BeginStatus
<1> DEFINE from == committed[o].st
           y == [Idle EXCEPT !.op = "status", !.order = o, !.read = from, !.target = to]
<1>2. from \in Statuses \union {"none"} /\ CanTransition(from, to)
  BY <1>1 DEF OrdersInv, RowsInv, Sound, OrderRow, Statuses
<1>3. Begin(t, y)
  BY <1>1
<1> HIDE DEF from
<1>4. /\ y \in TxRecords /\ y.op = "status" /\ y.order = o /\ y.read = from /\ y.target = to
  BY <1>2, IdleShape DEF TxRecords, OpNames, Statuses
<1> HIDE DEF y
<1> QED BY <1>2, <1>3, <1>4, ChangeKeeps DEF OpNames

LEMMA BeginReversalKeeps ==
  ASSUME OrdersInv, NEW t \in Txns, NEW o \in Orders, committed[o].st \in Statuses,
         NEW op \in {"void", "refund"}, NEW target \in {"CANCELLED", "REFUNDED"},
         op = "void" => target = "CANCELLED", op = "refund" => target = "REFUNDED",
         Begin(t, Reversal(op, o, target))
  PROVE  OrdersInv'
<1> DEFINE d == committed[o]
           q == recipe[d.product]
           y == [Idle EXCEPT !.op = op, !.order = o, !.target = target, !.draft = d, !.recipe = q]
<1>1. d \in OrderRow /\ d.product \in Products
  BY DEF OrdersInv, RowsInv, Sound, Statuses, Operational, Terminal
<1>2. q \in Nat
  BY <1>1 DEF OrdersInv
<1>3. Begin(t, y)
  BY DEF Reversal
<1> HIDE DEF d, q
<1>4. y \in TxRecords /\ y.op = op /\ y.order = o /\ y.target = target /\ y.draft = d
  BY <1>1, <1>2, IdleShape DEF TxRecords, OpNames, Statuses, Terminal
<1> HIDE DEF y
<1> QED BY <1>1, <1>3, <1>4, ChangeKeeps DEF OpNames

LEMMA BeginVoidKeeps ==
  ASSUME OrdersInv, NEW t \in Txns, BeginVoid(t) \/ BeginRefund(t)
  PROVE  OrdersInv'
<1>1. CASE BeginVoid(t)
  BY <1>1, BeginReversalKeeps DEF BeginVoid, Statuses
<1>2. CASE BeginRefund(t)
  BY <1>2, BeginReversalKeeps DEF BeginRefund, Statuses, Operational
<1> QED BY <1>1, <1>2

-------------------------------------------------------------------------------
(* The statements of a sale.                                               *)

\* The draft and the recipe read may change, the product sold may not.
LEMMA DraftShape ==
  ASSUME NEW x \in TxRecords, Shape(x), NEW d \in OrderRow, d.product = x.draft.product,
         x.op = "create" => d.redeemed <= Price[d.product] * PointsPerUnit
  PROVE  LET y == [x EXCEPT !.draft = d]
         IN y \in TxRecords /\ Shape(y) /\ y.code = x.code
<1> DEFINE y == [x EXCEPT !.draft = d]
<1>1. /\ y \in TxRecords /\ y.code = x.code /\ y.op = x.op /\ y.order = x.order
      /\ y.draft = d /\ y.read = x.read /\ y.target = x.target
  BY DEF TxRecords
<1> HIDE DEF y
<1>2. Shape(y)
  BY <1>1 DEF Shape
<1> QED BY <1>1, <1>2 DEF y

\* The statement writes one row of numbers, or none.
LEMMA WriteIfWrites ==
  ASSUME NEW t, NEW needed, NEW r, NEW value, WriteIf(t, needed, r, value)
  PROVE  /\ UNCHANGED <<committed, answers, recipe, today>>
         /\ UNCHANGED <<db, lock>> \/ (MayWrite(t, r) /\ Write(t, r, value))
BY DEF WriteIf, others

LEMMA Numbers ==
  ASSUME OrdersInv
  PROVE  \A r \in Items \union {Member} : db[r] \in Int
BY DEF OrdersInv, RowsInv, Sound

LEMMA ReadRecipeKeeps ==
  ASSUME OrdersInv, NEW t \in Txns, ReadRecipe(t)
  PROVE  OrdersInv'
<1> DEFINE x == tx[t]
           q == recipe[x.draft.product]
           y == [x EXCEPT !.recipe = q]
<1>1. /\ x \in TxRecords /\ Shape(x) /\ x.code # <<>> /\ x.code[1] = "ReadRecipe" /\ x.op = "create"
  BY Running DEF ReadRecipe, Creation
<1>2. q \in Nat
  BY <1>1 DEF Shape, OrdersInv
<1>3. CASE Throw(t)
  BY <1>3, ThrowKeeps
<1>4. CASE Continue(t, y) /\ ReadOnly
  <2> HIDE DEF q
  <2>1. /\ y \in TxRecords /\ y.code = x.code /\ y.op = x.op /\ y.order = x.order
        /\ y.draft = x.draft /\ y.read = x.read /\ y.target = x.target
    BY <1>1, <1>2 DEF TxRecords
  <2>2. Continue(t, y) /\ UNCHANGED <<db, lock, committed, answers, recipe, today>>
    BY <1>4 DEF ReadOnly, others
  <2> HIDE DEF y, x
  <2>3. Shape(y)
    BY <1>1, <2>1 DEF Shape
  <2> QED BY <1>1, <2>1, <2>2, <2>3, ContinueKeeps
<1> QED BY <1>3, <1>4 DEF ReadRecipe

\* A statement of a sale that writes a number and notes in the draft what it did.
LEMMA DraftStepKeeps ==
  ASSUME OrdersInv, NEW t \in Txns, NEW d \in OrderRow, d.product = tx[t].draft.product,
         d.redeemed <= Price[d.product] * PointsPerUnit,
         NEW statement \in Creation \ {"Insert", "FindExisting"}, Runs(t, statement),
         Continue(t, [tx[t] EXCEPT !.draft = d]),
         \/ UNCHANGED <<db, lock>>
         \/ \E r \in Items \union {Member} : \E value \in Int : MayWrite(t, r) /\ Write(t, r, value),
         UNCHANGED <<committed, answers, recipe, today>>
  PROVE  OrdersInv'
<1> DEFINE y == [tx[t] EXCEPT !.draft = d]
<1>1. /\ tx[t] \in TxRecords /\ Shape(tx[t]) /\ tx[t].code # <<>> /\ tx[t].code[1] = statement
  BY Running
<1>2. y \in TxRecords /\ Shape(y) /\ y.code = tx[t].code
  BY <1>1, DraftShape
<1> HIDE DEF y
<1>3. Continue(t, y)
  BY DEF y
<1> QED BY <1>1, <1>2, <1>3, ContinueKeeps

\* The draft of a sale under way.
LEMMA SaleDraft ==
  ASSUME OrdersInv, NEW t \in Txns, NEW statement \in Creation, Runs(t, statement)
  PROVE  /\ tx[t].draft \in OrderRow /\ tx[t].draft.product \in Products
         /\ tx[t].draft.redeemed \in Nat
         /\ tx[t].draft.redeemed <= Price[tx[t].draft.product] * PointsPerUnit
         /\ Price[tx[t].draft.product] * PointsPerUnit \in Nat
         /\ ItemOf[tx[t].draft.product] \in Items
<1>1. tx[t].draft \in OrderRow /\ Shape(tx[t]) /\ tx[t].op = "create"
  BY Running
<1>2. /\ tx[t].draft.product \in Products
      /\ tx[t].draft.redeemed <= Price[tx[t].draft.product] * PointsPerUnit
  BY <1>1 DEF Shape
<1>3. Price[tx[t].draft.product] \in Nat /\ ItemOf[tx[t].draft.product] \in Items
  BY <1>2, ProductsAssumption
<1>4. Price[tx[t].draft.product] * PointsPerUnit \in Nat
  BY <1>3, PointsAssumption
<1> QED BY <1>1, <1>2, <1>3, <1>4 DEF OrderRow

LEMMA DeductKeeps ==
  ASSUME OrdersInv, NEW t \in Txns, Deduct(t)
  PROVE  OrdersInv'
<1> DEFINE i == ItemOf[tx[t].draft.product]
           q == tx[t].recipe
           d == [tx[t].draft EXCEPT !.used = q]
<1>1. Runs(t, "Deduct") /\ "Deduct" \in Creation \ {"Insert", "FindExisting"}
  BY DEF Deduct, Creation
<1>2. q \in Nat /\ i \in Items /\ db[i] \in Int
  BY <1>1, Running, SaleDraft, Numbers
<1>3. CASE Throw(t)
  BY <1>3, ThrowKeeps
<1>4. CASE /\ WriteIf(t, q > 0, i, db[i] - q)
           /\ Continue(t, [tx[t] EXCEPT !.draft.used = q])
  <2>1. /\ d \in OrderRow /\ d.product = tx[t].draft.product
        /\ d.redeemed = tx[t].draft.redeemed
    BY <1>1, <1>2, SaleDraft DEF OrderRow
  <2>2. d.redeemed <= Price[d.product] * PointsPerUnit
    BY <1>1, <2>1, SaleDraft
  <2>3. Continue(t, [tx[t] EXCEPT !.draft = d])
    BY <1>4
  <2> HIDE DEF d
  <2>4. /\ UNCHANGED <<committed, answers, recipe, today>>
        /\ UNCHANGED <<db, lock>> \/ (MayWrite(t, i) /\ Write(t, i, db[i] - q))
    BY <1>4, <1>2, WriteIfWrites
  <2> HIDE DEF q, i
  <2>5. db[i] - q \in Int
    BY <1>2
  <2> QED BY <1>1, <1>2, <2>1, <2>2, <2>3, <2>4, <2>5, DraftStepKeeps
<1> QED BY <1>3, <1>4 DEF Deduct

LEMMA CheckPointsKeeps ==
  ASSUME OrdersInv, NEW t \in Txns, CheckPoints(t)
  PROVE  OrdersInv'
<1>1. /\ tx[t] \in TxRecords /\ Shape(tx[t]) /\ tx[t].code # <<>>
      /\ tx[t].code[1] \notin {"Insert", "FindExisting"}
  BY Running DEF CheckPoints
<1>2. CASE Throw(t)
  BY <1>2, ThrowKeeps
<1>3. CASE Continue(t, tx[t]) /\ ReadOnly
  BY <1>1, <1>3, ContinueKeeps DEF ReadOnly, others
<1> QED BY <1>2, <1>3 DEF CheckPoints

LEMMA RedeemKeeps ==
  ASSUME OrdersInv, NEW t \in Txns, Redeem(t)
  PROVE  OrdersInv'
<1> DEFINE absorbed == Price[tx[t].draft.product] * PointsPerUnit
           r == IF tx[t].ask < absorbed THEN tx[t].ask ELSE absorbed
           d == [tx[t].draft EXCEPT !.redeemed = r]
<1>1. Runs(t, "Redeem") /\ "Redeem" \in Creation \ {"Insert", "FindExisting"}
  BY DEF Redeem, Creation
<1>2. tx[t].ask \in Nat /\ absorbed \in Nat
  BY <1>1, Running, SaleDraft
<1>3. /\ WriteIf(t, r > 0, Member, db[Member] - r)
      /\ Continue(t, [tx[t] EXCEPT !.draft = d])
  BY DEF Redeem
<1> HIDE DEF absorbed
<1>4. r \in Nat /\ r <= absorbed
  BY <1>2
<1> HIDE DEF r
<1>5. d \in OrderRow /\ d.product = tx[t].draft.product /\ d.redeemed = r
  BY <1>1, <1>4, SaleDraft DEF OrderRow
<1>6. d.redeemed <= Price[d.product] * PointsPerUnit
  BY <1>4, <1>5 DEF absorbed
<1> HIDE DEF d
<1>7. db[Member] - r \in Int /\ Member \in Items \union {Member}
  BY <1>4, Numbers
<1>8. /\ UNCHANGED <<committed, answers, recipe, today>>
      /\ UNCHANGED <<db, lock>> \/ (MayWrite(t, Member) /\ Write(t, Member, db[Member] - r))
  BY <1>3, <1>4, WriteIfWrites
<1> QED BY <1>1, <1>3, <1>5, <1>6, <1>7, <1>8, DraftStepKeeps

\* What is earned is never negative.
LEMMA EarnedType ==
  ASSUME NEW p \in Products, NEW n \in Nat, n <= Price[p] * PointsPerUnit
  PROVE  PointsEarned(p, n) \in Nat
<1>1. Price[p] \in Nat /\ PointsPerUnit \in Nat \ {0} /\ SpendPerPoint \in Nat \ {0}
  BY ProductsAssumption, PointsAssumption
<1> DEFINE left == Price[p] * PointsPerUnit - n
           step == PointsPerUnit * SpendPerPoint
<1>2. left \in Nat
  BY <1>1
<1>3. step \in Nat \ {0}
  BY <1>1
<1> HIDE DEF left, step
<1>4. left \div step \in Nat
  BY <1>2, <1>3
<1> QED BY <1>4 DEF PointsEarned, left, step

LEMMA EarnKeeps ==
  ASSUME OrdersInv, NEW t \in Txns, Earn(t)
  PROVE  OrdersInv'
<1> DEFINE b == tx[t].draft
           e == IF b.member THEN PointsEarned(b.product, b.redeemed) ELSE 0
           d == [b EXCEPT !.earned = e]
<1>1. Runs(t, "Earn") /\ "Earn" \in Creation \ {"Insert", "FindExisting"}
  BY DEF Earn, Creation
<1>2. /\ b \in OrderRow /\ b.product \in Products /\ b.redeemed \in Nat
      /\ b.redeemed <= Price[b.product] * PointsPerUnit
  BY <1>1, SaleDraft
<1>3. /\ WriteIf(t, e > 0, Member, db[Member] + e)
      /\ Continue(t, [tx[t] EXCEPT !.draft = d])
  BY DEF Earn
<1>4. PointsEarned(b.product, b.redeemed) \in Nat
  BY <1>2, EarnedType
<1>5. e \in Nat
  BY <1>4
<1> HIDE DEF e
<1>6. d \in OrderRow /\ d.product = b.product /\ d.redeemed = b.redeemed
  BY <1>2, <1>5 DEF OrderRow
<1> HIDE DEF d
<1>7. db[Member] + e \in Int /\ Member \in Items \union {Member}
  BY <1>5, Numbers
<1>8. /\ UNCHANGED <<committed, answers, recipe, today>>
      /\ UNCHANGED <<db, lock>> \/ (MayWrite(t, Member) /\ Write(t, Member, db[Member] + e))
  BY <1>3, <1>5, WriteIfWrites
<1> QED BY <1>1, <1>2, <1>3, <1>6, <1>7, <1>8, DraftStepKeeps

LEMMA AllocateKeeps ==
  ASSUME OrdersInv, NEW t \in Txns, Allocate(t)
  PROVE  OrdersInv'
<1> DEFINE b == tx[t].draft
           taken == {committed[o].queue : o \in {u \in Sold(committed) : committed[u].day = today}}
<1>1. Runs(t, "Allocate") /\ "Allocate" \in Creation \ {"Insert", "FindExisting"}
  BY DEF Allocate, Creation
<1>2. PICK n \in {1} \union {q + 1 : q \in taken} :
        Continue(t, [tx[t] EXCEPT !.draft.queue = n, !.draft.day = today])
  BY DEF Allocate
<1>3. n \in Nat /\ today \in Nat
  <2>1. \A q \in taken : q \in Nat
    BY DEF OrdersInv, RowsInv, Sound, OrderRow, Sold
  <2> QED BY <2>1 DEF OrdersInv
<1> DEFINE d == [b EXCEPT !.queue = n, !.day = today]
<1>4. /\ b \in OrderRow /\ b.redeemed <= Price[b.product] * PointsPerUnit
  BY <1>1, SaleDraft
<1>5. d \in OrderRow /\ d.product = b.product /\ d.redeemed = b.redeemed
  BY <1>3, <1>4 DEF OrderRow
<1>6. Continue(t, [tx[t] EXCEPT !.draft = d])
  BY <1>2
<1> HIDE DEF d
<1>7. UNCHANGED <<db, lock, committed, answers, recipe, today>>
  BY DEF Allocate, ReadOnly, others
<1> QED BY <1>1, <1>4, <1>5, <1>6, <1>7, DraftStepKeeps

\* A statement that writes the row of an order.
LEMMA OrderStatementKeeps ==
  ASSUME OrdersInv, NEW t \in Txns, NEW x \in TxRecords, Shape(x), ~HoldsNothing(x),
         tx' = [tx EXCEPT ![t] = x],
         NEW o \in Orders, NEW value \in OrderRow,
         value.st # "none", value.product \in Products,
         Forward(committed[o].st, value.st),
         committed[o].st # "none" => value.request = committed[o].request,
         \A u \in Orders \ {o} : db[u].request # value.request \/ value.request = NoRequest,
         x.op = "create" /\ x.code = <<>> => x.order = o /\ value.request = x.draft.request,
         MayWrite(t, o), Write(t, o, value), UNCHANGED <<committed, answers, recipe, today>>
  PROVE  OrdersInv'
<1>1. RowsInv'
  BY WriteOrderKeeps DEF OrdersInv
<1>2. tx'[t] = x
  BY DEF OrdersInv, TxInv
<1>3. \A u \in Txns \ {t} : \A p \in Rows :
        /\ lock'[p] = u => lock[p] = u
        /\ lock[p] = u => lock'[p] = u /\ db'[p] = db[p]
  BY RowKinds, OthersUntouched DEF OrdersInv, RowsInv, Sound, FreeRowsCommitted
<1>4. lock'[o] = t /\ db'[o] = value
  BY RowKinds DEF Write, OrdersInv, RowsInv, Sound, FreeRowsCommitted
<1>5. Holdings(t)'
  BY <1>2, <1>4 DEF Holdings
<1>6. TxInv'
  BY <1>3, <1>5, TxSteps DEF OrdersInv
<1> QED BY <1>1, <1>6 DEF OrdersInv, AnswersInv

LEMMA InsertKeeps ==
  ASSUME OrdersInv, NEW t \in Txns, Insert(t)
  PROVE  OrdersInv'
<1> DEFINE x == tx[t]
           b == tx[t].draft
           st == InitialStatus(b.product)
           v == [b EXCEPT !.st = st, !.created = today]
<1>1. /\ Runs(t, "Insert") /\ "Insert" \in Creation /\ Clashes(t) = {}
  BY DEF Insert, Creation
<1>2. PICK o \in Orders :
        /\ db[o].st = "none" /\ lock[o] = NoTxn
        /\ WriteIf(t, TRUE, o, v)
        /\ Continue(t, [x EXCEPT !.order = o, !.events = <<<<"CREATED", st>>>>])
  BY DEF Insert
<1>3. /\ x \in TxRecords /\ Shape(x) /\ x.op = "create" /\ Len(x.code) = 1 /\ x.code # <<>>
      /\ b \in OrderRow /\ b.product \in Products
  BY <1>1, Running, SaleDraft DEF Shape
<1>4. st \in Operational /\ st # "none" /\ today \in Nat
  BY DEF InitialStatus, Operational, OrdersInv
<1> HIDE DEF st
<1>5. v \in OrderRow /\ v.st = st /\ v.product = b.product /\ v.request = b.request
  BY <1>3, <1>4 DEF OrderRow
<1>6. \A u \in Orders \ {o} : db[u].request # b.request \/ b.request = NoRequest
  BY <1>1 DEF Clashes, Sold, SameRequest, OrdersInv, RowsInv, Sound
<1>7. committed[o].st = "none"
  BY <1>2, RowKinds DEF OrdersInv, RowsInv, FreeRowsCommitted
<1>8. Forward(committed[o].st, st)
  BY <1>4, <1>7 DEF Forward
<1> HIDE DEF v
<1> DEFINE e == <<<<"CREATED", st>>>>
           y == [x EXCEPT !.order = o, !.events = e]
           z == [y EXCEPT !.code = Tail(@)]
<1>9. e \in Seq({"CREATED", "STATUS", "VOIDED", "REFUNDED"} \X Statuses)
  BY <1>4 DEF Statuses
<1>10. Continue(t, y)
  BY <1>2
<1> HIDE DEF e
<1>11. y \in TxRecords /\ y.op = "create" /\ y.order = o /\ y.draft = b /\ y.code = x.code
  BY <1>3, <1>9 DEF TxRecords
<1> HIDE DEF y
<1>12. Tail(x.code) = <<>> /\ Tail(x.code) \in Seq(Creation \union Change)
  BY <1>3, LastTail DEF TxRecords
<1>13. z \in TxRecords /\ z.op = "create" /\ z.order = o /\ z.draft = b /\ z.code = <<>>
  BY <1>11, <1>12 DEF TxRecords
<1>14. tx' = [tx EXCEPT ![t] = z]
  BY <1>10 DEF Continue
<1> HIDE DEF z
<1>15. Shape(z) /\ ~HoldsNothing(z)
  BY <1>3, <1>13 DEF Shape, HoldsNothing
<1>16. MayWrite(t, o) /\ Write(t, o, v) /\ UNCHANGED <<committed, answers, recipe, today>>
  BY <1>2 DEF WriteIf, others
<1> QED BY <1>3, <1>4, <1>5, <1>6, <1>7, <1>8, <1>13, <1>14, <1>15, <1>16, OrderStatementKeeps

\* The sale looks up the order its request already made, or begins again.
LEMMA InsertRepeatedKeeps ==
  ASSUME OrdersInv, NEW t \in Txns, InsertRepeated(t)
  PROVE  OrdersInv'
<1> DEFINE y == [tx[t] EXCEPT !.code = <<"FindExisting">>]
<1>1. Runs(t, "Insert") /\ "Insert" \in Creation /\ RollBackTo(t, y)
  BY DEF InsertRepeated, Creation
<1>2. tx[t] \in TxRecords /\ tx[t].op = "create" /\ Shape(tx[t])
  BY <1>1, Running
<1>3. <<"FindExisting">> \in Seq(Creation \union Change)
  BY DEF Creation
<1>4. /\ y \in TxRecords /\ y.op = "create" /\ y.code = <<"FindExisting">>
      /\ y.draft = tx[t].draft
  BY <1>2, <1>3 DEF TxRecords
<1> HIDE DEF y
<1>5. Shape(y) /\ y.code # <<>>
  BY <1>2, <1>4 DEF Shape, Creation
<1> QED BY <1>1, <1>4, <1>5, RollBackKeeps

LEMMA InsertOutrunKeeps ==
  ASSUME OrdersInv, NEW t \in Txns, InsertOutrun(t)
  PROVE  OrdersInv'
<1> DEFINE b == tx[t].draft
           d == [NoOrder EXCEPT !.product = b.product, !.request = b.request, !.member = b.member]
           a == tx[t].attempt + 1
           y == [Idle EXCEPT !.op = "create", !.code = Program["create"], !.ask = tx[t].ask,
                             !.attempt = a, !.draft = d]
<1>1. Runs(t, "Insert") /\ "Insert" \in Creation
  BY DEF InsertOutrun, Creation
<1>2. CASE Throw(t)
  BY <1>2, ThrowKeeps
<1>3. CASE tx[t].attempt < MaxRetries /\ RollBackTo(t, y)
  <2>1. /\ tx[t] \in TxRecords /\ tx[t].ask \in Nat /\ b \in OrderRow
        /\ b.product \in Products
    BY <1>1, Running, SaleDraft
  <2>2. d \in OrderRow /\ d.product = b.product /\ d.redeemed = 0
    <3> DEFINE p == b.product
               c == b.request
               m == b.member
    <3>1. p \in Products /\ c \in Requests \union {NoRequest} /\ m \in BOOLEAN
      BY <2>1 DEF OrderRow
    <3> HIDE DEF p, c, m
    <3>2. LET f == [NoOrder EXCEPT !.product = p, !.request = c, !.member = m]
          IN f \in OrderRow /\ f.product = p /\ f.redeemed = 0
      BY ONLY <3>1, DraftOf
    <3> QED BY <3>2 DEF p, c, m
  <2>3. a \in 0 .. MaxRetries
    BY <1>3, <2>1, PointsAssumption DEF TxRecords
  <2> HIDE DEF d, a, b
  <2>4. /\ y \in TxRecords /\ y.op = "create" /\ y.code = Program["create"] /\ y.draft = d
    BY <2>1, <2>2, <2>3, IdleShape, ProgramCode DEF TxRecords, OpNames
  <2> HIDE DEF y
  <2>5. Sale(y)
    BY <2>1, <2>2, <2>4 DEF Sale
  <2> QED BY <1>3, <2>4, <2>5, SaleShape, RollBackKeeps
<1> QED BY <1>2, <1>3 DEF InsertOutrun

LEMMA FindExistingKeeps ==
  ASSUME OrdersInv, NEW t \in Txns, FindExisting(t)
  PROVE  OrdersInv'
<1> DEFINE c == tx[t].draft.request
<1>1. Runs(t, "FindExisting")
  BY DEF FindExisting
<1>2. \A r \in Rows : lock[r] # t
  BY <1>1, Running DEF OrdersInv, TxInv, Holdings, HoldsNothing
<1>3. /\ tx' = [tx EXCEPT ![t] = Idle]
      /\ UNCHANGED <<db, committed, lock, recipe, today>>
  BY DEF FindExisting
<1>4. tx'[t] = Idle
  BY <1>3 DEF OrdersInv, TxInv
<1>5. Holdings(t)'
  BY <1>2, <1>3, <1>4 DEF Holdings, Idle
<1>6. TxInv'
  BY <1>3, <1>5, IdleShape, TxSteps DEF OrdersInv
<1>7. RowsInv'
  BY <1>3 DEF OrdersInv, RowsInv, FreeRowsCommitted
<1>8. PICK o \in Orders : /\ SameRequest(tx[t].draft, committed[o])
                          /\ answers' = [answers EXCEPT ![c] = @ \union {o}]
  BY DEF FindExisting
<1>9. c \in Requests /\ committed[o].request = c
  BY <1>1, <1>8, Running DEF SameRequest, OrderRow
<1>10. AnswersInv'
  BY <1>3, <1>8, <1>9 DEF OrdersInv, AnswersInv
<1> QED BY <1>3, <1>6, <1>7, <1>10 DEF OrdersInv

-------------------------------------------------------------------------------
(* The statements of a change.                                             *)

LEMMA AnnouncementsType ==
  ASSUME NEW t \in Txns, tx[t].op \in OpNames \ {"create"}, tx[t].target \in Statuses
  PROVE  Announcements(t) \in Seq({"CREATED", "STATUS", "VOIDED", "REFUNDED"} \X Statuses)
<1> DEFINE Event == {"CREATED", "STATUS", "VOIDED", "REFUNDED"} \X Statuses
<1>1. /\ <<"STATUS", tx[t].target>> \in Event
      /\ <<"VOIDED", "CANCELLED">> \in Event /\ <<"STATUS", "CANCELLED">> \in Event
      /\ <<"REFUNDED", "REFUNDED">> \in Event /\ <<"STATUS", "REFUNDED">> \in Event
  BY DEF Statuses, Terminal
<1> HIDE DEF Event
<1>2. /\ \A a \in Event : <<a>> \in Seq(Event)
      /\ \A a, b \in Event : <<a, b>> \in Seq(Event)
  OBVIOUS
<1>3. CASE tx[t].op = "status"
  <2>1. Announcements(t) = <<<<"STATUS", tx[t].target>>>>
    BY <1>3 DEF Announcements
  <2>2. Announcements(t) \in Seq(Event)
    BY <1>1, <1>2, <2>1
  <2> QED BY <2>2 DEF Event
<1>4. CASE tx[t].op = "void"
  <2>1. Announcements(t) = <<<<"VOIDED", "CANCELLED">>, <<"STATUS", "CANCELLED">>>>
    BY <1>4 DEF Announcements
  <2>2. Announcements(t) \in Seq(Event)
    BY <1>1, <1>2, <2>1
  <2> QED BY <2>2 DEF Event
<1>5. CASE tx[t].op = "refund"
  <2>1. Announcements(t) = <<<<"REFUNDED", "REFUNDED">>, <<"STATUS", "REFUNDED">>>>
    BY <1>5 DEF Announcements
  <2>2. Announcements(t) \in Seq(Event)
    BY <1>1, <1>2, <2>1
  <2> QED BY <2>2 DEF Event
<1> QED BY <1>3, <1>4, <1>5 DEF OpNames, Event

\* Whatever the status it replaces, the claim moves the order forward.
LEMMA ClaimForward ==
  ASSUME OrdersInv, NEW t \in Txns, Runs(t, "Claim"),
         db[tx[t].order].st \in Claimable(t)
  PROVE  /\ Forward(db[tx[t].order].st, tx[t].target)
         /\ tx[t].target \in Statuses /\ db[tx[t].order].st # "none"
<1>1. tx[t].op \in OpNames \ {"create"} /\ Shape(tx[t]) /\ tx[t].code[1] = "Claim"
      /\ 1 \in 1 .. Len(tx[t].code)
  BY Running DEF Creation
<1>2. CASE tx[t].op = "status"
  <2>1. db[tx[t].order].st = tx[t].read /\ CanTransition(tx[t].read, tx[t].target)
    BY <1>1, <1>2 DEF Claimable, Shape
  <2> QED BY <2>1 DEF CanTransition, Forward, Statuses, Operational
<1>3. CASE tx[t].op = "void"
  <2>1. db[tx[t].order].st \in Operational /\ tx[t].target = "CANCELLED"
    BY <1>1, <1>3 DEF Claimable, Shape
  <2> QED BY <2>1 DEF Forward, Statuses, Operational, Terminal
<1>4. CASE tx[t].op = "refund"
  <2>1. db[tx[t].order].st = "COMPLETED" /\ tx[t].target = "REFUNDED"
    BY <1>1, <1>4 DEF Claimable, Shape
  <2> QED BY <2>1 DEF Forward, Statuses, Terminal
<1> QED BY <1>1, <1>2, <1>3, <1>4 DEF OpNames

LEMMA ClaimKeeps ==
  ASSUME OrdersInv, NEW t \in Txns, Claim(t)
  PROVE  OrdersInv'
<1> DEFINE o == tx[t].order
           v == [db[o] EXCEPT !.st = tx[t].target]
           e == Announcements(t)
           y == [tx[t] EXCEPT !.events = e]
           z == [y EXCEPT !.code = Tail(@)]
<1>1. Runs(t, "Claim") /\ "Claim" \notin Creation /\ MayWrite(t, o)
  BY DEF Claim, Creation
<1>2. /\ tx[t] \in TxRecords /\ Shape(tx[t]) /\ tx[t].code # <<>> /\ tx[t].code[1] = "Claim"
      /\ tx[t].op \in OpNames \ {"create"} /\ o \in Orders
  BY <1>1, Running DEF Shape
<1>3. CASE Throw(t)
  BY <1>3, ThrowKeeps
<1>4. CASE /\ db[o].st \in Claimable(t)
           /\ WriteIf(t, TRUE, o, v)
           /\ Continue(t, y)
  <2>1. /\ Forward(db[o].st, tx[t].target)
        /\ tx[t].target \in Statuses /\ tx[t].target # "none" /\ db[o].st # "none"
    BY <1>1, <1>4, ClaimForward DEF Statuses, Operational, Terminal
  <2>2. lock[o] = NoTxn
    <3>1. HoldsNothing(tx[t]) /\ o \in Rows
      BY <1>2, RowKinds DEF HoldsNothing
    <3> QED BY <1>1, <3>1 DEF MayWrite, OrdersInv, TxInv, Holdings
  <2>3. committed[o] = db[o]
    BY <1>2, <2>2, RowKinds DEF OrdersInv, RowsInv, FreeRowsCommitted
  <2>4. db[o] \in OrderRow /\ db[o].product \in Products
    BY <1>2, <2>1 DEF OrdersInv, RowsInv, Sound
  <2>5. /\ v \in OrderRow /\ v.st = tx[t].target /\ v.product = db[o].product
        /\ v.request = db[o].request
    BY <2>1, <2>4 DEF OrderRow, Statuses
  <2>6. \A u \in Orders \ {o} : db[u].request # v.request \/ v.request = NoRequest
    BY <1>2, <2>5 DEF OrdersInv, RowsInv
  <2>7. e \in Seq({"CREATED", "STATUS", "VOIDED", "REFUNDED"} \X Statuses)
    BY <1>2, <2>1, AnnouncementsType
  <2>8. MayWrite(t, o) /\ Write(t, o, v) /\ UNCHANGED <<committed, answers, recipe, today>>
    BY <1>1, <1>4 DEF WriteIf, others
  <2> HIDE DEF e, v
  <2>9. /\ y \in TxRecords /\ y.code = tx[t].code /\ y.op = tx[t].op /\ y.order = o
        /\ y.draft = tx[t].draft /\ y.read = tx[t].read /\ y.target = tx[t].target
    BY <1>2, <2>7 DEF TxRecords
  <2>10. Continue(t, y)
    BY <1>4
  <2> HIDE DEF y
  <2>11. Shape(y)
    BY <1>2, <2>9 DEF Shape
  <2>12. z \in TxRecords /\ Shape(z) /\ ~HoldsNothing(z) /\ z.op # "create"
    <3>1. z \in TxRecords /\ Shape(z) /\ ~HoldsNothing(z)
      BY <1>2, <2>9, <2>11, TailShape
    <3>2. z.op = y.op
      BY <2>9 DEF TxRecords
    <3> QED BY <1>2, <2>9, <3>1, <3>2
  <2>13. tx' = [tx EXCEPT ![t] = z]
    BY <2>10 DEF Continue
  <2> HIDE DEF z
  <2> QED BY <1>2, <2>1, <2>3, <2>4, <2>5, <2>6, <2>8, <2>12, <2>13, OrderStatementKeeps
<1> QED BY <1>3, <1>4 DEF Claim

LEMMA RestoreKeeps ==
  ASSUME OrdersInv, NEW t \in Txns, Restore(t)
  PROVE  OrdersInv'
<1> DEFINE i == ItemOf[tx[t].draft.product]
           value == db[i] + tx[t].recipe
<1>1. Runs(t, "Restore") /\ "Restore" \notin Creation
  BY DEF Restore, Creation
<1>2. /\ tx[t] \in TxRecords /\ Shape(tx[t]) /\ tx[t].code # <<>> /\ tx[t].code[1] = "Restore"
      /\ tx[t].draft.product \in Products /\ tx[t].recipe \in Nat
  <2>1. /\ tx[t] \in TxRecords /\ Shape(tx[t]) /\ tx[t].code # <<>> /\ tx[t].code[1] = "Restore"
        /\ tx[t].op \in OpNames \ {"create"} /\ 1 \in 1 .. Len(tx[t].code) /\ tx[t].recipe \in Nat
    BY <1>1, Running
  <2>2. tx[t].draft.product \in Products
    BY <2>1 DEF Shape
  <2> QED BY <2>1, <2>2
<1>3. i \in Items /\ value \in Int
  BY <1>2, ProductsAssumption, Numbers
<1>4. WriteIf(t, tx[t].recipe > 0, i, value) /\ Continue(t, tx[t])
  BY DEF Restore
<1> HIDE DEF i, value
<1>5. /\ UNCHANGED <<committed, answers, recipe, today>>
      /\ UNCHANGED <<db, lock>> \/ (MayWrite(t, i) /\ Write(t, i, value))
  BY <1>4, WriteIfWrites
<1> QED BY <1>2, <1>3, <1>4, <1>5, ContinueKeeps

\* A statement that writes the points and goes on.
LEMMA PointsStepKeeps ==
  ASSUME OrdersInv, NEW t \in Txns, NEW statement \in {"Clawback", "Floor"}, Runs(t, statement),
         NEW needed, NEW value \in Int, WriteIf(t, needed, Member, value), Continue(t, tx[t])
  PROVE  OrdersInv'
<1>1. /\ tx[t] \in TxRecords /\ Shape(tx[t]) /\ tx[t].code # <<>> /\ tx[t].code[1] = statement
  BY Running
<1>2. /\ UNCHANGED <<committed, answers, recipe, today>>
      /\ UNCHANGED <<db, lock>> \/ (MayWrite(t, Member) /\ Write(t, Member, value))
  BY WriteIfWrites
<1> QED BY <1>1, <1>2, ContinueKeeps

LEMMA ClawbackKeeps ==
  ASSUME OrdersInv, NEW t \in Txns, Clawback(t)
  PROVE  OrdersInv'
<1> DEFINE d == tx[t].draft
           delta == d.redeemed - d.earned
           y == [tx[t] EXCEPT !.code = <<"Floor">>]
<1>1. Runs(t, "Clawback") /\ "Clawback" \notin Creation
  BY DEF Clawback, Creation
<1>2. /\ tx[t] \in TxRecords /\ Shape(tx[t]) /\ d \in OrderRow
      /\ tx[t].op \in OpNames \ {"create"} /\ tx[t].order \in Orders
  BY <1>1, Running DEF Shape
<1>3. CASE tx' = [tx EXCEPT ![t].code = <<"Floor">>] /\ ReadOnly
  <2>1. <<"Floor">> \in Seq(Creation \union Change)
    BY DEF Change
  <2>2. /\ y \in TxRecords /\ y.op = tx[t].op /\ y.code = <<"Floor">> /\ y.order = tx[t].order
    BY <1>2, <2>1 DEF TxRecords
  <2>3. tx' = [tx EXCEPT ![t] = y]
    BY <1>3
  <2> HIDE DEF y
  <2>4. y.code # <<>> /\ y.code[1] = "Floor" /\ \A n \in 1 .. Len(y.code) : y.code[n] = "Floor"
    BY <2>2
  <2>5. y.op \in OpNames \ {"create"} /\ y.order \in Orders
    BY <1>2, <2>2
  <2>6. Shape(y)
    BY <2>4, <2>5 DEF Shape, OpNames, Change
  <2>7. ~HoldsNothing(y) /\ y.op # "create"
    BY <2>4, <2>5 DEF HoldsNothing, OpNames
  <2> QED BY <1>3, <2>2, <2>3, <2>6, <2>7, StatementKeeps DEF ReadOnly, others
<1>4. CASE /\ WriteIf(t, d.member /\ delta # 0, Member, db[Member] + delta)
           /\ Continue(t, tx[t])
  <2>1. db[Member] + delta \in Int
    BY <1>2, Numbers DEF OrderRow
  <2> QED BY <1>1, <1>4, <2>1, PointsStepKeeps
<1> QED BY <1>3, <1>4 DEF Clawback

LEMMA FloorKeeps ==
  ASSUME OrdersInv, NEW t \in Txns, Floor(t)
  PROVE  OrdersInv'
<1>1. Runs(t, "Floor") /\ WriteIf(t, TRUE, Member, 0) /\ Continue(t, tx[t])
  BY Zenon DEF Floor
<1>2. "Floor" \in {"Clawback", "Floor"} /\ 0 \in Int
  OBVIOUS
<1> QED BY <1>1, <1>2, PointsStepKeeps, Zenon

-------------------------------------------------------------------------------
(* The end of a transaction, and the rest of the world.                    *)

LEMMA CommitKeeps ==
  ASSUME OrdersInv, NEW t \in Txns, Commit(t)
  PROVE  OrdersInv'
<1>1. /\ KeepWrites(t) /\ tx' = [tx EXCEPT ![t] = Idle] /\ UNCHANGED <<recipe, today>>
      /\ tx[t].code = <<>>
  BY DEF Commit
<1>2. RowsInv'
  BY <1>1, KeepKeeps DEF OrdersInv
<1>3. /\ \A r \in Rows : lock'[r] # t
      /\ \A u \in Txns \ {t} : \A r \in Rows :
           /\ lock'[r] = u => lock[r] = u
           /\ lock[r] = u => lock'[r] = u /\ db'[r] = db[r]
  BY <1>1, Released, RowKinds DEF KeepWrites, OrdersInv, RowsInv, FreeRowsCommitted
<1>4. tx'[t] = Idle
  BY <1>1 DEF OrdersInv, TxInv
<1>5. Holdings(t)'
  BY <1>3, <1>4 DEF Holdings, Idle
<1>6. TxInv'
  BY <1>1, <1>3, <1>5, IdleShape, TxSteps DEF OrdersInv
<1>7. \A o \in Orders : committed'[o] = IF lock[o] = t THEN db[o] ELSE committed[o]
  BY <1>1, RowKinds DEF KeepWrites
<1>8. \A c \in Requests : \A o \in answers[c] : o \in Orders /\ committed'[o].request = c
  <2> SUFFICES ASSUME NEW c \in Requests, NEW o \in answers[c]
               PROVE  o \in Orders /\ committed'[o].request = c
    OBVIOUS
  <2>1. o \in Orders /\ committed[o].request = c /\ c # NoRequest
    BY PointsAssumption DEF OrdersInv, AnswersInv
  <2>2. db[o].request = c
    BY <2>1 DEF OrdersInv, RowsInv, Sound
  <2> QED BY <1>7, <2>1, <2>2
<1>9. ASSUME answers' = answers
      PROVE  AnswersInv'
  <2>1. answers' \in [Requests -> SUBSET Orders]
    BY <1>9 DEF OrdersInv, AnswersInv
  <2>2. \A c \in Requests : \A o \in answers'[c] : committed'[o].request = c
    BY <1>8, <1>9
  <2> QED BY <2>1, <2>2 DEF AnswersInv
<1>10. ASSUME tx[t].op = "create", tx[t].draft.request # NoRequest,
              answers' = [answers EXCEPT ![tx[t].draft.request] = @ \union {tx[t].order}]
       PROVE  AnswersInv'
  <2> DEFINE c == tx[t].draft.request
             o == tx[t].order
  <2>1. c \in Requests
    BY <1>10 DEF OrdersInv, TxInv, TxRecords, OrderRow
  <2>2. o \in Orders /\ committed'[o].request = c
    BY <1>1, <1>7, <1>10 DEF OrdersInv, TxInv, Holdings
  <2> HIDE DEF c, o
  <2>3. answers' = [answers EXCEPT ![c] = @ \union {o}]
    BY <1>10 DEF c, o
  <2>4. answers \in [Requests -> SUBSET Orders]
    BY DEF OrdersInv, AnswersInv
  <2>5. answers' \in [Requests -> SUBSET Orders]
    BY <2>1, <2>2, <2>3, <2>4
  <2>6. \A b \in Requests : \A u \in answers'[b] : u \in answers[b] \/ (b = c /\ u = o)
    BY <2>1, <2>3, <2>4
  <2>7. \A b \in Requests : \A u \in answers'[b] : committed'[u].request = b
    BY <1>8, <2>2, <2>6
  <2> QED BY <2>5, <2>7 DEF AnswersInv
<1>11. AnswersInv'
  BY <1>9, <1>10 DEF Commit
<1> QED BY <1>1, <1>2, <1>6, <1>11 DEF OrdersInv

LEMMA NextKeeps ==
  ASSUME OrdersInv, Next
  PROVE  OrdersInv'
<1>1. ASSUME NEW t \in Txns, Creating(t)
      PROVE  OrdersInv'
  BY <1>1, BeginCreateKeeps, ReadRecipeKeeps, DeductKeeps, CheckPointsKeeps, RedeemKeeps,
     EarnKeeps, AllocateKeeps, InsertKeeps, InsertRepeatedKeeps, InsertOutrunKeeps,
     FindExistingKeeps DEF Creating
<1>2. ASSUME NEW t \in Txns, Changing(t)
      PROVE  OrdersInv'
  BY <1>2, BeginStatusKeeps, BeginVoidKeeps, ClaimKeeps, RestoreKeeps, ClawbackKeeps,
     FloorKeeps DEF Changing
<1>3. ASSUME NEW t \in Txns, Abort(t)
      PROVE  OrdersInv'
  BY <1>3, ThrowKeeps DEF Abort
<1>4. CASE EditRecipe
  <2>1. recipe' \in [Products -> Nat] /\ UNCHANGED <<db, committed, lock, tx, answers, today>>
    BY <1>4, ProductsAssumption DEF EditRecipe, OrdersInv
  <2> QED BY <2>1 DEF OrdersInv, RowsInv, FreeRowsCommitted, TxInv, Holdings, AnswersInv
<1>5. CASE NextDay
  <2>1. today' \in Nat /\ UNCHANGED <<db, committed, lock, tx, answers, recipe>>
    BY <1>5 DEF NextDay, OrdersInv
  <2> QED BY <2>1 DEF OrdersInv, RowsInv, FreeRowsCommitted, TxInv, Holdings, AnswersInv
<1> QED BY <1>1, <1>2, <1>3, <1>4, <1>5, CommitKeeps DEF Next

LEMMA InitHolds == Init => OrdersInv
<1> SUFFICES ASSUME Init
             PROVE  OrdersInv
  OBVIOUS
<1>1. db = InitialDb /\ committed = InitialDb /\ lock = [r \in Rows |-> NoTxn]
      /\ tx = [t \in Txns |-> Idle]
  BY DEF Init
<1>2. NoOrder \in OrderRow /\ NoOrder.st = "none" /\ NoOrder.request = NoRequest
  BY DEF NoOrder, OrderRow
<1>3. /\ \A o \in Orders : InitialDb[o] = NoOrder
      /\ \A r \in Items \union {Member} : InitialDb[r] \in Int
      /\ InitialDb = [r \in Rows |-> InitialDb[r]]
  <2>1. \A o \in Orders : InitialDb[o] = NoOrder
    BY OrdersAssumption, RowKinds DEF InitialDb
  <2>2. \A i \in Items : InitialDb[i] = InitialStock[i] /\ InitialStock[i] \in Nat
    BY RowKinds, ProductsAssumption DEF InitialDb
  <2>3. InitialDb[Member] = InitialPoints /\ InitialPoints \in Nat
    BY OrdersAssumption, RowKinds, PointsAssumption DEF InitialDb
  <2>4. InitialDb = [r \in Rows |-> InitialDb[r]]
    BY DEF InitialDb
  <2> QED BY <2>1, <2>2, <2>3, <2>4
<1> HIDE DEF InitialDb, NoOrder
<1>4. Sound(InitialDb)
  BY <1>2, <1>3 DEF Sound
<1>5. RowsInv
  BY <1>1, <1>2, <1>3, <1>4 DEF RowsInv, FreeRowsCommitted, Forward
<1>6. TxInv
  BY <1>1, IdleShape, RowKinds DEF TxInv, Holdings, Idle
<1> QED BY <1>5, <1>6, ProductsAssumption DEF OrdersInv, AnswersInv, Init

THEOREM Invariant == Spec => []OrdersInv
<1>1. ASSUME OrdersInv, UNCHANGED vars
      PROVE  OrdersInv'
  BY <1>1 DEF vars, OrdersInv, RowsInv, FreeRowsCommitted, TxInv, Holdings, AnswersInv
<1>2. OrdersInv /\ [Next]_vars => OrdersInv'
  BY <1>1, NextKeeps
<1> QED BY InitHolds, <1>2, PTL DEF Spec

-------------------------------------------------------------------------------
(* Theorems.                                                               *)

LEMMA TypesFollow == OrdersInv => TypeOK
<1> SUFFICES ASSUME OrdersInv
             PROVE  TypeOK
  OBVIOUS
<1>1. \A v \in {db, committed} : /\ DOMAIN v = Rows
                                 /\ \A r \in Items \union {Member} : v[r] \in Int
                                 /\ \A o \in Orders : v[o] \in OrderRow
  <2>1. ASSUME NEW v, Sound(v)
        PROVE  /\ DOMAIN v = Rows
               /\ \A r \in Items \union {Member} : v[r] \in Int
               /\ \A o \in Orders : v[o] \in OrderRow
    <3>1. v = [r \in Rows |-> v[r]]
      BY <2>1 DEF Sound
    <3>2. DOMAIN v = Rows
      BY <3>1
    <3> QED BY <2>1, <3>2 DEF Sound
  <2> QED BY <2>1 DEF OrdersInv, RowsInv
<1>2. \A t \in Txns : /\ tx[t].op \in DOMAIN Program \union {"none"}
                      /\ tx[t].attempt \in 0 .. MaxRetries
                      /\ tx[t].op = "none" => \A r \in Rows : lock[r] # t
  <2>1. DOMAIN Program = OpNames
    BY DEF Program, OpNames
  <2>2. \A t \in Txns : tx[t].op \in OpNames \union {"none"} /\ tx[t].attempt \in 0 .. MaxRetries
    BY DEF OrdersInv, TxInv, TxRecords
  <2>3. \A t \in Txns : tx[t].op = "none" => \A r \in Rows : lock[r] # t
    BY DEF OrdersInv, TxInv, Holdings, HoldsNothing
  <2> QED BY <2>1, <2>2, <2>3
<1> QED BY <1>1, <1>2 DEF TypeOK, OrdersInv, RowsInv, AnswersInv

\* Rows keep their types, a transaction that ended holds no row, and a sale is
\* tried at most MAX_QUEUE_NUMBER_RETRIES times again.
THEOREM TypeCorrect == Spec => []TypeOK
BY Invariant, TypesFollow, PTL

LEMMA OneOrder ==
  ASSUME OrdersInv, NEW c \in Requests, NEW o \in Orders, NEW u \in Orders,
         committed[o].request = c, committed[u].request = c
  PROVE  o = u
<1>1. c # NoRequest
  BY PointsAssumption
<1>2. db[o].request = c /\ db[u].request = c
  BY <1>1 DEF OrdersInv, RowsInv, Sound
<1> QED BY <1>1, <1>2 DEF OrdersInv, RowsInv

LEMMA OneOrderFollows == OrdersInv => OneOrderPerRequest
<1> SUFFICES ASSUME OrdersInv, NEW c \in Requests
             PROVE  /\ Cardinality({o \in Orders : committed[o].request = c}) <= 1
                    /\ \A o \in answers[c] : committed[o].request = c
  BY DEF OneOrderPerRequest
<1> DEFINE S == {o \in Orders : committed[o].request = c}
<1>1. Cardinality(S) <= 1
  <2>1. CASE S = {}
    BY <2>1, FS_EmptySet
  <2>2. ASSUME NEW o \in S
        PROVE  Cardinality(S) = 1
    <3>1. S = {o}
      BY OneOrder
    <3> QED BY <3>1, FS_Singleton
  <2> QED BY <2>1, <2>2
<1> QED BY <1>1 DEF OrdersInv, AnswersInv

\* However often and by however many requests a sale is sent, it is one order,
\* and every answer a till was given is that order.
THEOREM OneOrderPerRequestHolds == Spec => []OneOrderPerRequest
BY Invariant, OneOrderFollows, PTL

\* Committed orders change only when a transaction commits.
LEMMA CommittedChanges ==
  ASSUME Next
  PROVE  committed' = committed \/ \E t \in Txns : KeepWrites(t)
<1>1. ASSUME NEW t \in Txns, Creating(t)
      PROVE  committed' = committed
  BY <1>1 DEF Creating, BeginCreate, ReadRecipe, Deduct, CheckPoints, Redeem, Earn, Allocate,
     Insert, InsertRepeated, InsertOutrun, FindExisting, Begin, WriteIf, ReadOnly, RollBackTo,
     Throw, UndoWrites
<1>2. ASSUME NEW t \in Txns, Changing(t)
      PROVE  committed' = committed
  BY <1>2 DEF Changing, BeginStatus, BeginVoid, BeginRefund, Claim, Restore, Clawback, Floor,
     Begin, WriteIf, ReadOnly, RollBackTo, Throw, UndoWrites
<1>3. ASSUME NEW t \in Txns, Abort(t)
      PROVE  committed' = committed
  BY <1>3 DEF Abort, Throw, RollBackTo, UndoWrites
<1>4. CASE EditRecipe \/ NextDay
  BY <1>4 DEF EditRecipe, NextDay
<1> QED BY <1>1, <1>2, <1>3, <1>4 DEF Next, Commit

\* A status, once committed, only moves forward, whatever the managers and the
\* kitchen do at the same time.
THEOREM StatusMovesForwardHolds == Spec => StatusMovesForward
<1> DEFINE A == \A o \in Orders :
                  LET from == committed[o].st
                      to == committed'[o].st
                  IN from # to => \/ from = "none" /\ to \in Operational
                                  \/ CanTransition(from, to)
                                  \/ from \in Operational /\ to = "CANCELLED"
                                  \/ from = "COMPLETED" /\ to = "REFUNDED"
<1>1. ASSUME OrdersInv, [Next]_vars
      PROVE  A
  <2> SUFFICES ASSUME NEW o \in Orders
               PROVE  Forward(committed[o].st, committed'[o].st)
    BY DEF Forward
  <2>1. CASE committed' = committed
    BY <2>1 DEF Forward
  <2>2. ASSUME NEW t \in Txns, KeepWrites(t)
        PROVE  Forward(committed[o].st, committed'[o].st)
    <3>1. committed'[o] = IF lock[o] = t THEN db[o] ELSE committed[o]
      BY <2>2, RowKinds DEF KeepWrites
    <3> QED BY <1>1, <3>1 DEF OrdersInv, RowsInv, Forward
  <2> QED BY <1>1, <2>1, <2>2, CommittedChanges DEF vars
<1>2. Spec => [][A]_vars
  BY Invariant, <1>1, PTL DEF Spec
<1> QED BY <1>2 DEF StatusMovesForward

-------------------------------------------------------------------------------
(* The life of an order, and what a request has done of it so far.         *)

Reversals == {"void", "refund"}

\* Where a request can be in its program.
Stage(x) ==
  \/ x.op = "none"
  \/ /\ x.op = "create"
     /\ x.code \in
          {<<"ReadRecipe", "Deduct", "CheckPoints", "Redeem", "Earn", "Allocate", "Insert">>,
           <<"Deduct", "CheckPoints", "Redeem", "Earn", "Allocate", "Insert">>,
           <<"CheckPoints", "Redeem", "Earn", "Allocate", "Insert">>,
           <<"Redeem", "Earn", "Allocate", "Insert">>, <<"Earn", "Allocate", "Insert">>,
           <<"Allocate", "Insert">>, <<"Insert">>, <<"FindExisting">>, <<>>}
  \/ x.op = "status" /\ x.code \in {<<"Claim">>, <<>>}
  \/ /\ x.op \in Reversals
     /\ x.code \in {<<"Claim", "Restore", "Clawback">>, <<"Restore", "Clawback">>,
                    <<"Clawback">>, <<"Floor">>, <<>>}

\* It has written the row of its order.
Acted(x) == IF x.op \in Reversals THEN x.code # <<"Claim", "Restore", "Clawback">>
            ELSE x.op # "none" /\ x.code = <<>>

\* What never changes of an order.
SameSale(a, b) ==
  /\ a.product = b.product /\ a.member = b.member /\ a.used = b.used
  /\ a.earned = b.earned /\ a.redeemed = b.redeemed
  /\ a.queue = b.queue /\ a.day = b.day

\* The row a request has written, and the events it will put in the outbox.
Created(x) == /\ committed[x.order].st = "none"
              /\ db[x.order].st \in Operational
              /\ SameSale(db[x.order], x.draft)
              /\ x.events = <<<<"CREATED", db[x.order].st>>>>

Changed(x) ==
  /\ committed[x.order].st \in Operational
  /\ SameSale(db[x.order], committed[x.order])
  /\ db[x.order].st = x.target
  /\ CASE x.op = "status" -> /\ x.target \in Operational
                             /\ x.events = <<<<"STATUS", x.target>>>>
       [] x.op = "void"   -> /\ x.target = "CANCELLED"
                             /\ x.events = <<<<"VOIDED", "CANCELLED">>, <<"STATUS", "CANCELLED">>>>
       [] x.op = "refund" -> /\ x.target = "REFUNDED"
                             /\ x.events = <<<<"REFUNDED", "REFUNDED">>, <<"STATUS", "REFUNDED">>>>

\* The numbers before the one a sale has been given are those of committed orders.
Numbered(x) ==
  x.op = "create" /\ x.code \in {<<"Insert">>, <<>>} =>
    /\ x.draft.queue >= 1
    /\ \A n \in 1 .. x.draft.queue - 1 : \E o \in Sold(committed) :
         committed[o].day = x.draft.day /\ committed[o].queue = n

\* A reversal has read the order it is about.
Loaded(x) ==
  x.op \in Reversals => /\ x.order \in Orders
                        /\ committed[x.order].st # "none"
                        /\ SameSale(x.draft, committed[x.order])

Life(t) ==
  /\ Stage(tx[t])
  /\ \A o \in Orders : lock[o] = t <=> Acted(tx[t]) /\ o = tx[t].order
  /\ Acted(tx[t]) => /\ tx[t].order \in Orders
                     /\ IF tx[t].op = "create" THEN Created(tx[t]) ELSE Changed(tx[t])
  /\ Numbered(tx[t]) /\ Loaded(tx[t])

\* No two orders, committed or not, carry the same number on the same day.
NumbersUnique == \A o, u \in Sold(db) : SameQueue(db[o], db[u]) => o = u

LifeInv == (\A t \in Txns : Life(t)) /\ NumbersUnique

\* Committed orders stay committed, the sale they are of as it is.
Kept == \A o \in Orders : committed[o].st # "none" =>
          committed'[o].st # "none" /\ SameSale(committed'[o], committed[o])

\* The programs, a statement at a time.
LEMMA Codes ==
  /\ Len(<<"ReadRecipe", "Deduct", "CheckPoints", "Redeem", "Earn", "Allocate", "Insert">>) = 7
  /\ Head(<<"ReadRecipe", "Deduct", "CheckPoints", "Redeem", "Earn", "Allocate", "Insert">>)
       = "ReadRecipe"
  /\ Tail(<<"ReadRecipe", "Deduct", "CheckPoints", "Redeem", "Earn", "Allocate", "Insert">>)
       = <<"Deduct", "CheckPoints", "Redeem", "Earn", "Allocate", "Insert">>
  /\ Len(<<"Deduct", "CheckPoints", "Redeem", "Earn", "Allocate", "Insert">>) = 6
  /\ Head(<<"Deduct", "CheckPoints", "Redeem", "Earn", "Allocate", "Insert">>) = "Deduct"
  /\ Tail(<<"Deduct", "CheckPoints", "Redeem", "Earn", "Allocate", "Insert">>)
       = <<"CheckPoints", "Redeem", "Earn", "Allocate", "Insert">>
  /\ Len(<<"CheckPoints", "Redeem", "Earn", "Allocate", "Insert">>) = 5
  /\ Head(<<"CheckPoints", "Redeem", "Earn", "Allocate", "Insert">>) = "CheckPoints"
  /\ Tail(<<"CheckPoints", "Redeem", "Earn", "Allocate", "Insert">>)
       = <<"Redeem", "Earn", "Allocate", "Insert">>
  /\ Len(<<"Redeem", "Earn", "Allocate", "Insert">>) = 4
  /\ Head(<<"Redeem", "Earn", "Allocate", "Insert">>) = "Redeem"
  /\ Tail(<<"Redeem", "Earn", "Allocate", "Insert">>) = <<"Earn", "Allocate", "Insert">>
  /\ Len(<<"Earn", "Allocate", "Insert">>) = 3
  /\ Head(<<"Earn", "Allocate", "Insert">>) = "Earn"
  /\ Tail(<<"Earn", "Allocate", "Insert">>) = <<"Allocate", "Insert">>
  /\ Len(<<"Allocate", "Insert">>) = 2
  /\ Head(<<"Allocate", "Insert">>) = "Allocate" /\ Tail(<<"Allocate", "Insert">>) = <<"Insert">>
  /\ Len(<<"Insert">>) = 1 /\ Head(<<"Insert">>) = "Insert" /\ Tail(<<"Insert">>) = <<>>
  /\ Len(<<"FindExisting">>) = 1 /\ Head(<<"FindExisting">>) = "FindExisting"
  /\ Len(<<"Claim">>) = 1 /\ Head(<<"Claim">>) = "Claim" /\ Tail(<<"Claim">>) = <<>>
  /\ Len(<<"Claim", "Restore", "Clawback">>) = 3
  /\ Head(<<"Claim", "Restore", "Clawback">>) = "Claim"
  /\ Tail(<<"Claim", "Restore", "Clawback">>) = <<"Restore", "Clawback">>
  /\ Len(<<"Restore", "Clawback">>) = 2 /\ Head(<<"Restore", "Clawback">>) = "Restore"
  /\ Tail(<<"Restore", "Clawback">>) = <<"Clawback">>
  /\ Len(<<"Clawback">>) = 1 /\ Head(<<"Clawback">>) = "Clawback" /\ Tail(<<"Clawback">>) = <<>>
  /\ Len(<<"Floor">>) = 1 /\ Head(<<"Floor">>) = "Floor" /\ Tail(<<"Floor">>) = <<>>
  /\ Len(<<>>) = 0
OBVIOUS

LEMMA Spots ==
  ASSUME NEW x, Stage(x), NEW s, x.op # "none", x.code # <<>>, Head(x.code) = s
  PROVE  /\ s = "ReadRecipe" => x.op = "create" /\ x.code =
              <<"ReadRecipe", "Deduct", "CheckPoints", "Redeem", "Earn", "Allocate", "Insert">>
         /\ s = "Deduct" => x.op = "create" /\ x.code =
              <<"Deduct", "CheckPoints", "Redeem", "Earn", "Allocate", "Insert">>
         /\ s = "CheckPoints" => x.op = "create" /\ x.code =
              <<"CheckPoints", "Redeem", "Earn", "Allocate", "Insert">>
         /\ s = "Redeem" => x.op = "create" /\ x.code =
              <<"Redeem", "Earn", "Allocate", "Insert">>
         /\ s = "Earn" => x.op = "create" /\ x.code = <<"Earn", "Allocate", "Insert">>
         /\ s = "Allocate" => x.op = "create" /\ x.code = <<"Allocate", "Insert">>
         /\ s = "Insert" => x.op = "create" /\ x.code = <<"Insert">>
         /\ s = "FindExisting" => x.op = "create" /\ x.code = <<"FindExisting">>
         /\ s = "Claim" => \/ x.op = "status" /\ x.code = <<"Claim">>
                           \/ x.op \in Reversals /\ x.code = <<"Claim", "Restore", "Clawback">>
         /\ s = "Restore" => x.op \in Reversals /\ x.code = <<"Restore", "Clawback">>
         /\ s = "Clawback" => x.op \in Reversals /\ x.code = <<"Clawback">>
         /\ s = "Floor" => x.op \in Reversals /\ x.code = <<"Floor">>
<1>1. CASE x.op = "create"
  BY <1>1, Codes DEF Stage, Reversals
<1>2. CASE x.op = "status"
  BY <1>2, Codes DEF Stage, Reversals
<1>3. CASE x.op \in Reversals
  BY <1>3, Codes DEF Stage, Reversals
<1> QED BY <1>1, <1>2, <1>3 DEF Stage

\* What is known of the request that executes s, and of the others.
\* The same with what is left of the program of a sale, for the statements before Insert.
LEMMA SaleRest ==
  ASSUME NEW x, Stage(x), x.op # "none", x.code # <<>>, NEW s, Head(x.code) = s,
         s \in {"ReadRecipe", "Deduct", "CheckPoints", "Redeem", "Earn", "Allocate"}
  PROVE  /\ x.op = "create"
         /\ s = "ReadRecipe" =>
              /\ x.code =
                   <<"ReadRecipe", "Deduct", "CheckPoints", "Redeem", "Earn", "Allocate", "Insert">>
              /\ Tail(x.code) = <<"Deduct", "CheckPoints", "Redeem", "Earn", "Allocate", "Insert">>
         /\ s = "Deduct" =>
              /\ x.code = <<"Deduct", "CheckPoints", "Redeem", "Earn", "Allocate", "Insert">>
              /\ Tail(x.code) = <<"CheckPoints", "Redeem", "Earn", "Allocate", "Insert">>
         /\ s = "CheckPoints" =>
              /\ x.code = <<"CheckPoints", "Redeem", "Earn", "Allocate", "Insert">>
              /\ Tail(x.code) = <<"Redeem", "Earn", "Allocate", "Insert">>
         /\ s = "Redeem" => /\ x.code = <<"Redeem", "Earn", "Allocate", "Insert">>
                            /\ Tail(x.code) = <<"Earn", "Allocate", "Insert">>
         /\ s = "Earn" => /\ x.code = <<"Earn", "Allocate", "Insert">>
                          /\ Tail(x.code) = <<"Allocate", "Insert">>
         /\ s = "Allocate" => x.code = <<"Allocate", "Insert">> /\ Tail(x.code) = <<"Insert">>
<1>1. CASE s = "ReadRecipe"
  <2>1. x.op = "create" /\ x.code =
          <<"ReadRecipe", "Deduct", "CheckPoints", "Redeem", "Earn", "Allocate", "Insert">>
    BY <1>1, Spots
  <2> QED BY <1>1, <2>1, Codes
<1>2. CASE s = "Deduct"
  <2>1. x.op = "create" /\ x.code =
          <<"Deduct", "CheckPoints", "Redeem", "Earn", "Allocate", "Insert">>
    BY <1>2, Spots
  <2> QED BY <1>2, <2>1, Codes
<1>3. CASE s = "CheckPoints"
  <2>1. x.op = "create" /\ x.code = <<"CheckPoints", "Redeem", "Earn", "Allocate", "Insert">>
    BY <1>3, Spots
  <2> QED BY <1>3, <2>1, Codes
<1>4. CASE s = "Redeem"
  <2>1. x.op = "create" /\ x.code = <<"Redeem", "Earn", "Allocate", "Insert">>
    BY <1>4, Spots
  <2> QED BY <1>4, <2>1, Codes
<1>5. CASE s = "Earn"
  <2>1. x.op = "create" /\ x.code = <<"Earn", "Allocate", "Insert">>
    BY <1>5, Spots
  <2> QED BY <1>5, <2>1, Codes
<1>6. CASE s = "Allocate"
  <2>1. x.op = "create" /\ x.code = <<"Allocate", "Insert">>
    BY <1>6, Spots
  <2> QED BY <1>6, <2>1, Codes
<1> QED BY <1>1, <1>2, <1>3, <1>4, <1>5, <1>6

LEMMA SpotOf ==
  ASSUME OrdersInv, LifeInv, NEW t \in Txns, NEW s, Runs(t, s)
  PROVE  /\ tx[t] \in TxRecords /\ tx[t].op # "none" /\ tx[t].code # <<>>
         /\ Head(tx[t].code) = s /\ Stage(tx[t]) /\ Life(t)
<1>1. tx[t].op \in OpNames /\ tx[t] \in TxRecords
  BY Running
<1> QED BY <1>1 DEF Runs, LifeInv, Life, OpNames

-------------------------------------------------------------------------------
(* The life of an order: what the steps of one request leave alone.        *)

LEMMA SameSaleLaws ==
  /\ \A a : SameSale(a, a)
  /\ \A a, b, c : SameSale(a, b) /\ SameSale(b, c) => SameSale(a, c)
  /\ \A a, b : SameSale(a, b) => SameSale(b, a)
BY DEF SameSale

LEMMA OthersLive ==
  ASSUME NEW u \in Txns, Life(u), tx'[u] = tx[u], Kept,
         \A o \in Orders : lock'[o] = u <=> lock[o] = u,
         \A o \in Orders : lock[o] = u => db'[o] = db[o] /\ committed'[o] = committed[o]
  PROVE  Life(u)'
<1>1. ASSUME Acted(tx[u])
      PROVE  /\ tx[u].order \in Orders
             /\ db'[tx[u].order] = db[tx[u].order]
             /\ committed'[tx[u].order] = committed[tx[u].order]
  BY <1>1 DEF Life
<1>2. Acted(tx[u]) => /\ tx[u].order \in Orders
                      /\ IF tx[u].op = "create" THEN Created(tx[u])' ELSE Changed(tx[u])'
  BY <1>1 DEF Life, Created, Changed
<1>3. Numbered(tx[u])'
  <2>1. Numbered(tx[u])
    BY DEF Life
  <2>2. \A o \in Sold(committed) : /\ o \in Sold(committed)'
                                   /\ committed'[o].day = committed[o].day
                                   /\ committed'[o].queue = committed[o].queue
    BY DEF Kept, Sold, SameSale
  <2> QED BY <2>1, <2>2 DEF Numbered
<1>4. Loaded(tx[u])'
  BY SameSaleLaws DEF Life, Loaded, Kept
<1> QED BY <1>2, <1>3, <1>4 DEF Life

LEMMA KeptAlone == ASSUME UNCHANGED committed PROVE Kept
BY SameSaleLaws DEF Kept

\* A step of t on the rows of orders it holds, and on no other.
LEMMA LifeSteps ==
  ASSUME LifeInv, NEW t \in Txns, Life(t)', Kept,
         \A u \in Txns \ {t} : tx'[u] = tx[u],
         \A u \in Txns \ {t} : \A o \in Orders :
           /\ lock'[o] = u <=> lock[o] = u
           /\ lock[o] = u => db'[o] = db[o] /\ committed'[o] = committed[o],
         NumbersUnique'
  PROVE  LifeInv'
<1>1. ASSUME NEW u \in Txns, u # t PROVE Life(u)'
  <2>1. Life(u)
    BY DEF LifeInv
  <2> QED BY <1>1, <2>1, OthersLive
<1> QED BY <1>1 DEF LifeInv

\* A statement that writes no order.
LEMMA QuietLife ==
  ASSUME OrdersInv, LifeInv, NEW t \in Txns, NEW y, tx' = [tx EXCEPT ![t] = y],
         Stage(y), Numbered(y), y.op = tx[t].op, y.order = tx[t].order,
         y.events = tx[t].events, y.target = tx[t].target, Acted(y) <=> Acted(tx[t]),
         Acted(y) \/ y.op \in Reversals => y.draft = tx[t].draft,
         \A o \in Orders : lock'[o] = lock[o] /\ db'[o] = db[o], UNCHANGED committed
  PROVE  LifeInv'
<1>1. tx'[t] = y /\ \A u \in Txns \ {t} : tx'[u] = tx[u]
  BY DEF OrdersInv, TxInv
<1>2. Life(t)
  BY DEF LifeInv
<1>3. Acted(y) => /\ y.order \in Orders
                  /\ IF y.op = "create" THEN Created(y)' ELSE Changed(y)'
  BY <1>2 DEF Life, Created, Changed
<1>4. Numbered(y)' /\ Loaded(y)'
  BY <1>2 DEF Life, Loaded, Numbered, Sold
<1>5. Life(t)'
  BY <1>1, <1>2, <1>3, <1>4 DEF Life
<1>6. NumbersUnique'
  BY DEF LifeInv, NumbersUnique, Sold
<1> QED BY <1>1, <1>5, <1>6, KeptAlone, LifeSteps

\* A request begins, or begins again, having read what it will change.
LEMMA FreshLife ==
  ASSUME OrdersInv, LifeInv, NEW t \in Txns, NEW y, tx' = [tx EXCEPT ![t] = y],
         Stage(y), ~Acted(y), Numbered(y), Loaded(y), UNCHANGED committed,
         \A o \in Orders : lock'[o] # t,
         \A u \in Txns \ {t} : \A o \in Orders :
           lock'[o] = u <=> lock[o] = u,
         \A o \in Orders : db'[o] = IF lock[o] = t THEN committed[o] ELSE db[o]
  PROVE  LifeInv'
<1>1. tx'[t] = y /\ \A u \in Txns \ {t} : tx'[u] = tx[u]
  BY DEF OrdersInv, TxInv
<1>2. Life(t)'
  BY <1>1 DEF Life, Loaded, Numbered, Sold
<1>3. NumbersUnique'
  <2>1. \A o \in Orders : db'[o].st # "none" => db[o].st # "none" /\ SameSale(db'[o], db[o])
    <3> SUFFICES ASSUME NEW o \in Orders, db'[o].st # "none"
                 PROVE  db[o].st # "none" /\ SameSale(db'[o], db[o])
      OBVIOUS
    <3>1. CASE lock[o] # t
      BY <3>1, SameSaleLaws
    <3>2. CASE lock[o] = t
      <4>1. Acted(tx[t]) /\ o = tx[t].order /\ committed[o].st # "none" /\ db'[o] = committed[o]
        BY <3>2 DEF LifeInv, Life
      <4>2. Changed(tx[t])
        BY <4>1 DEF LifeInv, Life, Created
      <4> QED BY <4>1, <4>2, SameSaleLaws DEF Changed, OrdersInv, RowsInv
    <3> QED BY <3>1, <3>2
  <2> QED BY <2>1 DEF LifeInv, NumbersUnique, Sold, SameQueue, SameSale
<1>4. \A u \in Txns \ {t} : \A o \in Orders : lock[o] = u => db'[o] = db[o]
  OBVIOUS
<1> QED BY <1>1, <1>2, <1>3, <1>4, KeptAlone, LifeSteps

LEMMA RollBackLife ==
  ASSUME OrdersInv, LifeInv, NEW t \in Txns, NEW y, RollBackTo(t, y),
         Stage(y), ~Acted(y), Numbered(y), Loaded(y)
  PROVE  LifeInv'
<1>1. /\ tx' = [tx EXCEPT ![t] = y] /\ UNCHANGED committed
      /\ UndoWrites(t) /\ Release(t)
  BY DEF RollBackTo, UndoWrites
<1>2. \A o \in Orders : db'[o] = IF lock[o] = t THEN committed[o] ELSE db[o]
  BY <1>1, RowKinds DEF UndoWrites
<1>3. \A o \in Orders : lock'[o] # t
  BY <1>1, Released, RowKinds DEF OrdersInv, RowsInv, FreeRowsCommitted
<1>4. \A u \in Txns \ {t} : \A o \in Orders : lock'[o] = u <=> lock[o] = u
  BY <1>1, Released, RowKinds DEF OrdersInv, RowsInv, FreeRowsCommitted
<1> QED BY <1>1, <1>2, <1>3, <1>4, FreshLife

LEMMA IdleLife == Stage(Idle) /\ ~Acted(Idle) /\ Numbered(Idle) /\ Loaded(Idle)
BY DEF Stage, Acted, Numbered, Loaded, Idle, Reversals

LEMMA ThrowLife ==
  ASSUME OrdersInv, LifeInv, NEW t \in Txns, Throw(t)
  PROVE  LifeInv'
BY IdleLife, RollBackLife DEF Throw

LEMMA BeginLife ==
  ASSUME OrdersInv, LifeInv, NEW t \in Txns, NEW y, tx[t].op = "none",
         tx' = [tx EXCEPT ![t] = y], UNCHANGED <<db, committed, lock>>,
         Stage(y), ~Acted(y), Numbered(y), Loaded(y)
  PROVE  LifeInv'
<1>1. \A o \in Orders : lock[o] # t
  BY DEF LifeInv, Life, Acted, Reversals
<1> QED BY <1>1, FreshLife

-------------------------------------------------------------------------------
(* The life of an order: the statements.                                   *)

\* Going on with the next statement, the record otherwise as it was, or a new
\* recipe or draft in it.
LEMMA Onward ==
  ASSUME NEW x \in TxRecords, NEW d, NEW q,
         NEW z, z \in {x, [x EXCEPT !.draft = d], [x EXCEPT !.recipe = q]}
  PROVE  LET y == [z EXCEPT !.code = Tail(@)]
         IN /\ y.op = x.op /\ y.order = x.order /\ y.events = x.events /\ y.target = x.target
            /\ y.code = Tail(x.code) /\ y.ask = x.ask
            /\ y.draft = IF z = [x EXCEPT !.draft = d] THEN d ELSE x.draft
            /\ y.recipe = IF z = [x EXCEPT !.recipe = q] THEN q ELSE x.recipe
<1>1. CASE z = x
  BY <1>1 DEF TxRecords
<1>2. CASE z = [x EXCEPT !.draft = d]
  BY <1>2 DEF TxRecords
<1>3. CASE z = [x EXCEPT !.recipe = q]
  BY <1>3 DEF TxRecords
<1> QED BY <1>1, <1>2, <1>3

LEMMA NumbersWritten ==
  ASSUME OrdersInv, NEW t, NEW needed, NEW r \in Items \union {Member}, NEW value,
         WriteIf(t, needed, r, value)
  PROVE  /\ \A o \in Orders : lock'[o] = lock[o] /\ db'[o] = db[o]
         /\ UNCHANGED <<committed, others>>
<1>1. /\ UNCHANGED <<committed, others>>
      /\ UNCHANGED <<db, lock>> \/ Write(t, r, value)
  BY DEF WriteIf
<1>2. ASSUME Write(t, r, value), NEW o \in Orders PROVE lock'[o] = lock[o] /\ db'[o] = db[o]
  BY <1>2, RowKinds DEF Write, OrdersInv, RowsInv, Sound, FreeRowsCommitted
<1> QED BY <1>1, <1>2

\* A statement of a sale before the last: what it notes in the draft is not yet
\* in any row.
LEMMA SaleLife ==
  ASSUME OrdersInv, LifeInv, NEW t \in Txns, NEW s \in Creation \ {"Insert", "FindExisting"},
         Runs(t, s), NEW y, tx' = [tx EXCEPT ![t] = y], y.op = tx[t].op, y.order = tx[t].order,
         y.events = tx[t].events, y.target = tx[t].target, y.code = Tail(tx[t].code),
         s = "Allocate" => Numbered(y),
         \A o \in Orders : lock'[o] = lock[o] /\ db'[o] = db[o], UNCHANGED committed
  PROVE  LifeInv'
<1> DEFINE x == tx[t]
<1>1. /\ x.op # "none" /\ x.code # <<>> /\ Head(x.code) = s /\ Stage(x)
  BY SpotOf
<1> HIDE DEF x
<1> DEFINE rest == Tail(x.code)
<1>2. /\ x.op = "create"
      /\ s = "ReadRecipe" => rest =
           <<"Deduct", "CheckPoints", "Redeem", "Earn", "Allocate", "Insert">>
      /\ s = "Deduct" => rest = <<"CheckPoints", "Redeem", "Earn", "Allocate", "Insert">>
      /\ s = "CheckPoints" => rest = <<"Redeem", "Earn", "Allocate", "Insert">>
      /\ s = "Redeem" => rest = <<"Earn", "Allocate", "Insert">>
      /\ s = "Earn" => rest = <<"Allocate", "Insert">>
      /\ s = "Allocate" => rest = <<"Insert">>
  <2>1. s \in {"ReadRecipe", "Deduct", "CheckPoints", "Redeem", "Earn", "Allocate"}
    BY DEF Creation
  <2> QED BY <1>1, <2>1, SaleRest
<1>3. y.op = "create" /\ y.code = rest
  BY <1>2 DEF x
<1> HIDE DEF rest
<1>4. Stage(y) /\ y.code # <<>> /\ (s # "Allocate" => y.code # <<"Insert">>)
  <2>1. s \in {"ReadRecipe", "Deduct", "CheckPoints", "Redeem", "Earn", "Allocate"}
    BY DEF Creation
  <2>2. rest # <<>> /\ (s # "Allocate" => rest # <<"Insert">>)
    <3>1. s # "Allocate" => Len(rest) \in {2, 3, 4, 5, 6}
      BY ONLY <1>2, <2>1, Codes
    <3>2. s = "Allocate" => Len(rest) = 1
      BY ONLY <1>2, Codes
    <3>3. Len(<<>>) = 0 /\ Len(<<"Insert">>) = 1
      OBVIOUS
    <3> QED BY ONLY <2>1, <3>1, <3>2, <3>3
  <2>3. y.code # <<>> /\ (s # "Allocate" => y.code # <<"Insert">>)
    BY ONLY <1>3, <2>2
  <2>4. Stage(y)
    BY ONLY <1>2, <1>3, <2>1 DEF Stage
  <2> QED BY ONLY <2>3, <2>4
<1>5. ~Acted(y) /\ ~Acted(x)
  BY <1>1, <1>2, <1>3, <1>4 DEF Acted, Reversals
<1>6. Numbered(y)
  BY <1>4 DEF Numbered
<1>7. y.op \notin Reversals
  BY <1>3 DEF Reversals
<1> QED BY <1>4, <1>5, <1>6, <1>7, QuietLife DEF x

LEMMA ReadRecipeLife ==
  ASSUME OrdersInv, LifeInv, NEW t \in Txns, ReadRecipe(t)
  PROVE  LifeInv'
<1>1. Runs(t, "ReadRecipe") /\ tx[t] \in TxRecords
  BY SpotOf DEF ReadRecipe
<1>2. CASE Throw(t)
  BY <1>2, ThrowLife
<1>3. CASE Continue(t, [tx[t] EXCEPT !.recipe = recipe[tx[t].draft.product]]) /\ ReadOnly
  <2> DEFINE z == [tx[t] EXCEPT !.recipe = recipe[tx[t].draft.product]]
             y == [z EXCEPT !.code = Tail(@)]
  <2>1. /\ y.op = tx[t].op /\ y.order = tx[t].order /\ y.events = tx[t].events
        /\ y.target = tx[t].target /\ y.code = Tail(tx[t].code)
    BY <1>1, Onward
  <2>2. tx' = [tx EXCEPT ![t] = y] /\ UNCHANGED <<db, committed, lock>>
    BY <1>3 DEF Continue, ReadOnly
  <2> HIDE DEF y
  <2>9. "ReadRecipe" \in Creation \ {"Insert", "FindExisting"} /\ "ReadRecipe" # "Allocate"
    BY DEF Creation
  <2> QED BY <1>1, <2>1, <2>2, <2>9, SaleLife
<1> QED BY <1>2, <1>3 DEF ReadRecipe

LEMMA DeductLife ==
  ASSUME OrdersInv, LifeInv, NEW t \in Txns, Deduct(t)
  PROVE  LifeInv'
<1> DEFINE i == ItemOf[tx[t].draft.product]
           q == tx[t].recipe
           d == [tx[t].draft EXCEPT !.used = q]
           z == [tx[t] EXCEPT !.draft = d]
           y == [z EXCEPT !.code = Tail(@)]
<1>1. Runs(t, "Deduct") /\ tx[t] \in TxRecords /\ i \in Items
  BY SpotOf, SaleDraft DEF Deduct, Creation
<1>2. CASE Throw(t)
  BY <1>2, ThrowLife
<1>3. CASE WriteIf(t, q > 0, i, db[i] - q) /\ Continue(t, z)
  <2>1. /\ y.op = tx[t].op /\ y.order = tx[t].order /\ y.events = tx[t].events
        /\ y.target = tx[t].target /\ y.code = Tail(tx[t].code)
    BY <1>1, Onward
  <2>2. tx' = [tx EXCEPT ![t] = y]
    BY <1>3 DEF Continue
  <2>3. (\A o \in Orders : lock'[o] = lock[o] /\ db'[o] = db[o]) /\ UNCHANGED committed
    BY <1>1, <1>3, NumbersWritten
  <2> HIDE DEF y
  <2>9. "Deduct" \in Creation \ {"Insert", "FindExisting"} /\ "Deduct" # "Allocate"
    BY DEF Creation
  <2> QED BY <1>1, <2>1, <2>2, <2>3, <2>9, SaleLife
<1> QED BY <1>2, <1>3 DEF Deduct

LEMMA CheckPointsLife ==
  ASSUME OrdersInv, LifeInv, NEW t \in Txns, CheckPoints(t)
  PROVE  LifeInv'
<1>1. Runs(t, "CheckPoints") /\ tx[t] \in TxRecords
  BY SpotOf DEF CheckPoints
<1>2. CASE Throw(t)
  BY <1>2, ThrowLife
<1>3. CASE Continue(t, tx[t]) /\ ReadOnly
  <2> DEFINE y == [tx[t] EXCEPT !.code = Tail(@)]
  <2>1. /\ y.op = tx[t].op /\ y.order = tx[t].order /\ y.events = tx[t].events
        /\ y.target = tx[t].target /\ y.code = Tail(tx[t].code)
    BY <1>1, Onward
  <2>2. tx' = [tx EXCEPT ![t] = y] /\ UNCHANGED <<db, committed, lock>>
    BY <1>3 DEF Continue, ReadOnly
  <2> HIDE DEF y
  <2>9. "CheckPoints" \in Creation \ {"Insert", "FindExisting"} /\ "CheckPoints" # "Allocate"
    BY DEF Creation
  <2> QED BY <1>1, <2>1, <2>2, <2>9, SaleLife
<1> QED BY <1>2, <1>3 DEF CheckPoints

\* Points taken or given in a sale.
LEMMA DraftedLife ==
  ASSUME OrdersInv, LifeInv, NEW t \in Txns, NEW s \in {"Redeem", "Earn"}, Runs(t, s),
         NEW needed, NEW value, WriteIf(t, needed, Member, value),
         NEW d, Continue(t, [tx[t] EXCEPT !.draft = d])
  PROVE  LifeInv'
<1> DEFINE z == [tx[t] EXCEPT !.draft = d]
           y == [z EXCEPT !.code = Tail(@)]
<1>1. tx[t] \in TxRecords
  BY SpotOf
<1>2. /\ y.op = tx[t].op /\ y.order = tx[t].order /\ y.events = tx[t].events
      /\ y.target = tx[t].target /\ y.code = Tail(tx[t].code)
  BY <1>1, Onward
<1>3. tx' = [tx EXCEPT ![t] = y]
  BY DEF Continue
<1>4. (\A o \in Orders : lock'[o] = lock[o] /\ db'[o] = db[o]) /\ UNCHANGED committed
  BY NumbersWritten
<1>5. s \in Creation \ {"Insert", "FindExisting"} /\ s # "Allocate"
  BY DEF Creation
<1> HIDE DEF y
<1> QED BY <1>2, <1>3, <1>4, <1>5, SaleLife

LEMMA RedeemLife ==
  ASSUME OrdersInv, LifeInv, NEW t \in Txns, Redeem(t)
  PROVE  LifeInv'
BY DraftedLife DEF Redeem

LEMMA EarnLife ==
  ASSUME OrdersInv, LifeInv, NEW t \in Txns, Earn(t)
  PROVE  LifeInv'
BY DraftedLife DEF Earn

NumbersOf(d) == {committed[o].queue : o \in {u \in Sold(committed) : committed[u].day = d}}
SoldOn(d) == {o \in Sold(committed) : committed[o].day = d}

\* Also on days beyond the bound of the instance.
NumbersInv == \A d \in Nat : IsFiniteSet(SoldOn(d)) /\ NumbersOf(d) = 1 .. Cardinality(SoldOn(d))

\* The number given is one more than the last, and the earlier ones are taken.
LEMMA AllocateLife ==
  ASSUME OrdersInv, LifeInv, NumbersInv, NEW t \in Txns, Allocate(t)
  PROVE  LifeInv'
<1> DEFINE taken == NumbersOf(today)
<1>1. Runs(t, "Allocate") /\ tx[t] \in TxRecords /\ today \in Nat
  BY SpotOf DEF Allocate, OrdersInv
<1>2. PICK n \in {1} \union {q + 1 : q \in taken} :
        /\ \A q \in taken : q < n
        /\ Continue(t, [tx[t] EXCEPT !.draft.queue = n, !.draft.day = today])
  BY DEF Allocate, NumbersOf
<1> DEFINE d == [tx[t].draft EXCEPT !.queue = n, !.day = today]
           z == [tx[t] EXCEPT !.draft = d]
           y == [z EXCEPT !.code = Tail(@)]
<1>3. /\ y.op = tx[t].op /\ y.order = tx[t].order /\ y.events = tx[t].events
      /\ y.target = tx[t].target /\ y.code = Tail(tx[t].code)
  BY <1>1, Onward
<1>9. y.draft = d
  BY <1>1, Onward
<1>4. tx' = [tx EXCEPT ![t] = y]
  BY <1>2 DEF Continue
<1>5. (\A o \in Orders : lock'[o] = lock[o] /\ db'[o] = db[o]) /\ UNCHANGED committed
  BY DEF Allocate, ReadOnly
<1> HIDE DEF y
<1>6. y.draft.queue = n /\ y.draft.day = today
  <2>1. tx[t].draft \in OrderRow
    BY <1>1, Running
  <2> QED BY <1>9, <2>1 DEF OrderRow
<1>7. Numbered(y)
  <2>1. IsFiniteSet(SoldOn(today)) /\ taken = 1 .. Cardinality(SoldOn(today))
    BY <1>1 DEF NumbersInv
  <2>2. Cardinality(SoldOn(today)) \in Nat
    BY <2>1, FS_CardinalityType
  <2> HIDE DEF taken
  <2>3. n >= 1 /\ \A k \in 1 .. n - 1 : k \in taken
    BY <1>2, <2>1, <2>2
  <2>4. \A k \in taken : \E o \in Sold(committed) : committed[o].day = today /\ committed[o].queue = k
    BY DEF taken, NumbersOf
  <2> QED BY <1>6, <2>3, <2>4 DEF Numbered
<1>8. "Allocate" \in Creation \ {"Insert", "FindExisting"}
  BY DEF Creation
<1> QED BY <1>1, <1>3, <1>4, <1>5, <1>7, <1>8, SaleLife

\* A sale about to be inserted holds no order yet; then it holds the one it made.
LEMMA InsertLife ==
  ASSUME OrdersInv, LifeInv, NEW t \in Txns, Insert(t)
  PROVE  LifeInv'
<1> DEFINE x == tx[t]
           b == tx[t].draft
           st == InitialStatus(b.product)
           v == [b EXCEPT !.st = st, !.created = today]
<1>1. /\ Runs(t, "Insert") /\ Clashes(t) = {} /\ x \in TxRecords /\ b \in OrderRow
      /\ x.op = "create" /\ x.code = <<"Insert">> /\ Numbered(x)
  <2>1. Runs(t, "Insert") /\ Clashes(t) = {}
    BY DEF Insert
  <2>2. x \in TxRecords /\ Stage(x) /\ Life(t) /\ x.op # "none" /\ x.code # <<>> /\ Head(x.code) = "Insert"
    BY <2>1, SpotOf
  <2>3. x.op = "create" /\ x.code = <<"Insert">>
    BY <2>2, Spots
  <2> QED BY <2>1, <2>2, <2>3 DEF Life, TxRecords
<1>2. PICK o \in Orders :
        /\ db[o].st = "none" /\ lock[o] = NoTxn
        /\ WriteIf(t, TRUE, o, v)
        /\ Continue(t, [x EXCEPT !.order = o, !.events = <<<<"CREATED", st>>>>])
  BY DEF Insert
<1>3. st \in Operational /\ st # "none"
  BY DEF InitialStatus, Operational
<1> HIDE DEF st
<1>4. v.st = st /\ SameSale(v, b)
  BY <1>1 DEF OrderRow, SameSale
<1> HIDE DEF v
<1> DEFINE e == <<<<"CREATED", st>>>>
           z == [x EXCEPT !.order = o, !.events = e]
<1>20. PICK y : y = [z EXCEPT !.code = Tail(@)]
  OBVIOUS
<1>5. /\ y.op = "create" /\ y.order = o /\ y.draft = b /\ y.events = e /\ y.code = Tail(x.code)
  BY <1>1, <1>20 DEF TxRecords
<1>6. y.code = <<>>
  BY <1>1, <1>5, Codes
<1>7. tx' = [tx EXCEPT ![t] = y]
  BY <1>2, <1>20 DEF Continue
<1>8. tx'[t] = y /\ \A u \in Txns \ {t} : tx'[u] = tx[u]
  BY <1>7 DEF OrdersInv, TxInv
<1>9. /\ \A u \in Orders : db'[u] = IF u = o THEN v ELSE db[u]
      /\ \A u \in Orders : lock'[u] = IF u = o THEN t ELSE lock[u]
      /\ UNCHANGED committed
  BY <1>2, RowKinds DEF WriteIf, Write, OrdersInv, RowsInv, Sound, FreeRowsCommitted
<1>10. \A u \in Orders : lock[u] # t
  <2>1. ~Acted(x)
    BY <1>1 DEF Acted, Reversals
  <2> QED BY <2>1 DEF LifeInv, Life
<1>11. committed[o].st = "none"
  BY <1>2, RowKinds DEF OrdersInv, RowsInv, FreeRowsCommitted
<1>12. Stage(y) /\ Acted(y)
  BY <1>5, <1>6 DEF Stage, Acted, Reversals
<1>13. Created(y)'
  <2>1. y.order = o /\ y.draft = b /\ y.events = <<<<"CREATED", st>>>>
    BY <1>5
  <2>2. db'[o] = v /\ committed'[o].st = "none"
    BY <1>9, <1>11
  <2> QED BY <1>3, <1>4, <2>1, <2>2 DEF Created
<1>14. Numbered(y)' /\ Loaded(y)'
  <2>1. y.op = "create" /\ y.draft = x.draft /\ committed' = committed
    BY <1>5, <1>9
  <2> QED BY <1>1, <2>1 DEF Numbered, Loaded, Reversals, Sold
<1>15. Life(t)'
  <2>1. y.order = o /\ y.op = "create"
    BY <1>5
  <2> QED BY <1>8, <1>9, <1>10, <1>12, <1>13, <1>14, <2>1 DEF Life
<1>16. NumbersUnique'
  <2>1. \A u \in Sold(db) : ~SameQueue(b, db[u])
    BY <1>1 DEF Clashes
  <2>2. \A u \in Sold(db)' : u # o => u \in Sold(db) /\ db'[u] = db[u]
    BY <1>9 DEF Sold
  <2>3. db'[o].day = b.day /\ db'[o].queue = b.queue
    BY <1>4, <1>9 DEF SameSale
  <2> QED BY <2>1, <2>2, <2>3 DEF NumbersUnique, SameQueue, LifeInv
<1>17. \A u \in Txns \ {t} : \A w \in Orders :
         /\ lock'[w] = u <=> lock[w] = u
         /\ lock[w] = u => db'[w] = db[w] /\ committed'[w] = committed[w]
  BY <1>2, <1>9, RowKinds
<1> QED BY <1>8, <1>9, <1>15, <1>16, <1>17, KeptAlone, LifeSteps

LEMMA InsertRepeatedLife ==
  ASSUME OrdersInv, LifeInv, NEW t \in Txns, InsertRepeated(t)
  PROVE  LifeInv'
<1> DEFINE y == [tx[t] EXCEPT !.code = <<"FindExisting">>]
<1>1. Runs(t, "Insert") /\ RollBackTo(t, y)
  BY DEF InsertRepeated
<1>2. tx[t] \in TxRecords /\ tx[t].op = "create"
  BY <1>1, Running DEF Creation
<1>3. y.op = "create" /\ y.code = <<"FindExisting">>
  BY <1>2 DEF TxRecords
<1> HIDE DEF y
<1>4. Stage(y) /\ ~Acted(y) /\ Numbered(y) /\ Loaded(y)
  BY <1>3 DEF Stage, Acted, Numbered, Loaded, Reversals
<1> QED BY <1>1, <1>4, RollBackLife

\* A sale at its beginning.
LEMMA NewSale ==
  ASSUME NEW y, y.op = "create", y.code = Program["create"]
  PROVE  Stage(y) /\ ~Acted(y) /\ Numbered(y) /\ Loaded(y)
<1>1. y.code = <<"ReadRecipe", "Deduct", "CheckPoints", "Redeem", "Earn", "Allocate", "Insert">>
  BY DEF Program
<1>2. y.code # <<>> /\ y.code # <<"Insert">>
  BY <1>1
<1> QED BY <1>1, <1>2 DEF Stage, Acted, Numbered, Loaded, Reversals

LEMMA InsertOutrunLife ==
  ASSUME OrdersInv, LifeInv, NEW t \in Txns, InsertOutrun(t)
  PROVE  LifeInv'
<1> DEFINE d == [NoOrder EXCEPT !.product = tx[t].draft.product,
                                !.request = tx[t].draft.request, !.member = tx[t].draft.member]
           y == [Idle EXCEPT !.op = "create", !.code = Program["create"], !.ask = tx[t].ask,
                             !.attempt = tx[t].attempt + 1, !.draft = d]
<1>1. CASE Throw(t)
  BY <1>1, ThrowLife
<1>2. CASE RollBackTo(t, y)
  <2>1. y.op = "create" /\ y.code = Program["create"]
    BY DEF Idle
  <2> HIDE DEF y
  <2> QED BY <1>2, <2>1, NewSale, RollBackLife
<1> QED BY <1>1, <1>2 DEF InsertOutrun

LEMMA FindExistingLife ==
  ASSUME OrdersInv, LifeInv, NEW t \in Txns, FindExisting(t)
  PROVE  LifeInv'
<1>1. Runs(t, "FindExisting") /\ tx' = [tx EXCEPT ![t] = Idle] /\ UNCHANGED <<db, committed, lock>>
  BY DEF FindExisting
<1>2. \A r \in Rows : lock[r] # t
  BY <1>1, Running DEF OrdersInv, TxInv, Holdings, HoldsNothing
<1>3. \A o \in Orders : lock'[o] # t
  BY <1>1, <1>2, RowKinds
<1>4. \A o \in Orders : db'[o] = IF lock[o] = t THEN committed[o] ELSE db[o]
  BY <1>1, <1>2, RowKinds
<1>5. \A u \in Txns \ {t} : \A o \in Orders : lock'[o] = u <=> lock[o] = u
  BY <1>1
<1>6. UNCHANGED committed
  BY <1>1
<1> QED BY <1>1, <1>3, <1>4, <1>5, <1>6, IdleLife, FreshLife

\* A claim moves the row of its order and puts the events in the request.
LEMMA ClaimLife ==
  ASSUME OrdersInv, LifeInv, NEW t \in Txns, Claim(t)
  PROVE  LifeInv'
<1> DEFINE x == tx[t]
           o == tx[t].order
           v == [db[o] EXCEPT !.st = x.target]
           e == Announcements(t)
           z == [x EXCEPT !.events = e]
<1>1. /\ Runs(t, "Claim") /\ MayWrite(t, o) /\ x \in TxRecords /\ Life(t) /\ Shape(x)
      /\ x.op \in OpNames \ {"create"} /\ o \in Orders /\ x.code[1] = "Claim"
      /\ 1 \in 1 .. Len(x.code)
  <2>1. Runs(t, "Claim") /\ MayWrite(t, o)
    BY DEF Claim
  <2>2. "Claim" \notin Creation
    BY DEF Creation
  <2>3. /\ x \in TxRecords /\ Shape(x) /\ x.op \in OpNames /\ x.op # "create"
        /\ x.code[1] = "Claim" /\ 1 \in 1 .. Len(x.code)
    BY <2>1, <2>2, Running
  <2>4. o \in Orders
    BY <2>3 DEF Shape
  <2> QED BY <2>1, <2>3, <2>4 DEF LifeInv
<1>2. \/ x.op = "status" /\ x.code = <<"Claim">>
      \/ x.op \in Reversals /\ x.code = <<"Claim", "Restore", "Clawback">>
  <2>1. Stage(x) /\ x.op # "none" /\ x.code # <<>> /\ Head(x.code) = "Claim"
    BY <1>1, SpotOf
  <2> QED BY <2>1, Spots
<1>3. CASE Throw(t)
  BY <1>3, ThrowLife
<1>4. CASE db[o].st \in Claimable(t) /\ WriteIf(t, TRUE, o, v) /\ Continue(t, z)
  <2>1. ~Acted(x)
    BY <1>2 DEF Acted, Reversals
  <2>2. \A u \in Orders : lock[u] # t
    BY <1>1, <2>1 DEF Life
  <2>3. lock[o] = NoTxn /\ committed[o] = db[o] /\ db[o] \in OrderRow
    BY <1>1, <2>2, RowKinds DEF MayWrite, OrdersInv, RowsInv, FreeRowsCommitted, Sound
  <2>4. v.st = x.target /\ SameSale(v, db[o])
    BY <2>3 DEF OrderRow, SameSale
  <2>5. PICK y : y = [z EXCEPT !.code = Tail(@)]
    OBVIOUS
  <2> HIDE DEF v
  <2>6. /\ y.op = x.op /\ y.order = o /\ y.draft = x.draft /\ y.target = x.target
        /\ y.events = e
    BY <1>1, <2>5 DEF TxRecords
  <2>7. \/ y.op = "status" /\ y.code = <<>>
        \/ y.op \in Reversals /\ y.code = <<"Restore", "Clawback">>
    <3>1. y.code = Tail(x.code)
      BY <1>1, <2>5 DEF TxRecords
    <3> QED BY <1>2, <2>6, <3>1, Codes
  <2>8. tx' = [tx EXCEPT ![t] = y]
    BY <1>4, <2>5 DEF Continue
  <2>9. tx'[t] = y /\ \A u \in Txns \ {t} : tx'[u] = tx[u]
    BY <2>8 DEF OrdersInv, TxInv
  <2>10. /\ \A u \in Orders : db'[u] = IF u = o THEN v ELSE db[u]
         /\ \A u \in Orders : lock'[u] = IF u = o THEN t ELSE lock[u]
         /\ UNCHANGED committed
    BY <1>1, <1>4, RowKinds DEF WriteIf, Write, OrdersInv, RowsInv, Sound, FreeRowsCommitted
  <2>11. Stage(y) /\ Acted(y)
    <3>1. Stage(y)
      BY <2>7 DEF Stage
    <3> QED BY <2>7, <3>1 DEF Acted, Reversals
  <2>12. Changed(y)'
    <3>1. /\ db[o].st \in Operational
          /\ CASE y.op = "status" -> /\ y.target \in Operational
                                     /\ y.events = <<<<"STATUS", y.target>>>>
               [] y.op = "void"   -> /\ y.target = "CANCELLED"
                                     /\ y.events = <<<<"VOIDED", "CANCELLED">>, <<"STATUS", "CANCELLED">>>>
               [] y.op = "refund" -> /\ y.target = "REFUNDED"
                                     /\ y.events = <<<<"REFUNDED", "REFUNDED">>, <<"STATUS", "REFUNDED">>>>
      <4>1. CASE x.op = "status"
        <5>1. db[o].st = x.read /\ CanTransition(x.read, x.target)
          BY <1>1, <1>4, <4>1 DEF Claimable, Shape
        <5> QED BY <2>6, <4>1, <5>1 DEF CanTransition, Announcements, Operational
      <4>2. CASE x.op = "void"
        <5>1. db[o].st \in Operational /\ x.target = "CANCELLED"
          BY <1>1, <1>4, <4>2 DEF Claimable, Shape
        <5> QED BY <2>6, <4>2, <5>1 DEF Announcements
      <4>3. CASE x.op = "refund"
        <5>1. db[o].st = "COMPLETED" /\ x.target = "REFUNDED"
          BY <1>1, <1>4, <4>3 DEF Claimable, Shape
        <5> QED BY <2>6, <4>3, <5>1 DEF Announcements, Operational
      <4> QED BY <1>1, <4>1, <4>2, <4>3 DEF OpNames
    <3>2. y.order = o /\ y.target = x.target
      BY <2>6
    <3> PICK w : w = o
      OBVIOUS
    <3>3. y.order = w /\ db'[w] = v /\ committed'[w] = db[w]
      BY <1>1, <2>3, <2>10, <3>2
    <3>4. committed'[w].st \in Operational /\ SameSale(db'[w], committed'[w]) /\ db'[w].st = y.target
      BY <2>4, <3>1, <3>2, <3>3
    <3> QED BY <3>1, <3>3, <3>4 DEF Changed
  <2>13. Numbered(y)' /\ Loaded(y)'
    <3>1. Loaded(x) /\ y.op # "create"
      BY <1>1, <2>6 DEF Life
    <3>2. y.op = x.op /\ y.order = x.order /\ y.draft = x.draft /\ committed' = committed
      BY <2>6, <2>10
    <3> QED BY <3>1, <3>2 DEF Numbered, Loaded
  <2>14. Life(t)'
    <3>1. y.order = o /\ y.op # "create"
      BY <1>1, <2>6
    <3> QED BY <1>1, <2>2, <2>9, <2>10, <2>11, <2>12, <2>13, <3>1 DEF Life
  <2>15. NumbersUnique'
    <3>1. \A u \in Sold(db)' : /\ u \in Sold(db)
                               /\ db'[u].day = db[u].day /\ db'[u].queue = db[u].queue
      <4>1. db[o].st # "none"
        BY <1>1, <1>4, ClaimForward
      <4> QED BY <2>4, <2>10, <4>1 DEF Sold, SameSale
    <3> QED BY <3>1 DEF NumbersUnique, SameQueue, LifeInv
  <2>16. \A u \in Txns \ {t} : \A w \in Orders :
           /\ lock'[w] = u <=> lock[w] = u
           /\ lock[w] = u => db'[w] = db[w] /\ committed'[w] = committed[w]
    BY <2>3, <2>10, RowKinds
  <2> QED BY <2>9, <2>10, <2>14, <2>15, <2>16, KeptAlone, LifeSteps
<1> QED BY <1>3, <1>4 DEF Claim

\* A statement of a reversal after its claim.
LEMMA ReversalLife ==
  ASSUME OrdersInv, LifeInv, NEW t \in Txns, NEW s \in {"Restore", "Clawback", "Floor"},
         Runs(t, s), NEW y, tx' = [tx EXCEPT ![t] = y],
         y.op = tx[t].op, y.order = tx[t].order, y.events = tx[t].events,
         y.target = tx[t].target, y.draft = tx[t].draft,
         y.code \in {<<"Clawback">>, <<"Floor">>, <<>>},
         \A o \in Orders : lock'[o] = lock[o] /\ db'[o] = db[o], UNCHANGED committed
  PROVE  LifeInv'
<1>1. Stage(tx[t]) /\ tx[t].op # "none" /\ tx[t].code # <<>> /\ Head(tx[t].code) = s
  BY SpotOf
<1>2. /\ tx[t].op \in Reversals
      /\ tx[t].code \in {<<"Restore", "Clawback">>, <<"Clawback">>, <<"Floor">>}
  BY <1>1, Spots
<1>3. Acted(tx[t]) /\ Acted(y)
  <2>1. y.code # <<"Claim", "Restore", "Clawback">>
    OBVIOUS
  <2>2. tx[t].code # <<"Claim", "Restore", "Clawback">>
    BY <1>2
  <2> QED BY <1>2, <2>1, <2>2 DEF Acted
<1>4. Stage(y) /\ Numbered(y)
  BY <1>2 DEF Stage, Numbered, Reversals
<1> QED BY <1>3, <1>4, QuietLife

LEMMA RestoreLife ==
  ASSUME OrdersInv, LifeInv, NEW t \in Txns, Restore(t)
  PROVE  LifeInv'
<1> DEFINE i == ItemOf[tx[t].draft.product]
           y == [tx[t] EXCEPT !.code = Tail(@)]
<1>1. Runs(t, "Restore") /\ tx[t] \in TxRecords /\ i \in Items
  <2>1. Runs(t, "Restore")
    BY DEF Restore
  <2>2. Shape(tx[t]) /\ tx[t].code[1] = "Restore" /\ 1 \in 1 .. Len(tx[t].code)
        /\ tx[t].op \in OpNames \ {"create"}
    BY <2>1, Running DEF Creation
  <2>3. tx[t].draft.product \in Products
    BY <2>2 DEF Shape
  <2> QED BY <2>1, <2>3, SpotOf, ProductsAssumption
<1>2. WriteIf(t, tx[t].recipe > 0, i, db[i] + tx[t].recipe) /\ tx' = [tx EXCEPT ![t] = y]
  BY DEF Restore, Continue
<1>3. (\A o \in Orders : lock'[o] = lock[o] /\ db'[o] = db[o]) /\ UNCHANGED committed
  BY <1>1, <1>2, NumbersWritten
<1>4. /\ y.op = tx[t].op /\ y.order = tx[t].order /\ y.events = tx[t].events
      /\ y.target = tx[t].target /\ y.draft = tx[t].draft
  BY <1>1 DEF TxRecords
<1>5. y.code \in {<<"Clawback">>, <<"Floor">>, <<>>}
  <2>1. tx[t].code = <<"Restore", "Clawback">>
    BY <1>1, SpotOf, Spots
  <2>2. y.code = Tail(tx[t].code)
    BY <1>1 DEF TxRecords
  <2> QED BY <2>1, <2>2, Codes
<1> HIDE DEF y
<1> QED BY <1>1, <1>2, <1>3, <1>4, <1>5, ReversalLife

\* Points given back or taken back.
LEMMA PointsStepLife ==
  ASSUME OrdersInv, LifeInv, NEW t \in Txns, NEW s \in {"Clawback", "Floor"}, Runs(t, s),
         NEW needed, NEW value, WriteIf(t, needed, Member, value), Continue(t, tx[t])
  PROVE  LifeInv'
<1> DEFINE y == [tx[t] EXCEPT !.code = Tail(@)]
<1>1. tx[t] \in TxRecords
  BY SpotOf
<1>2. tx' = [tx EXCEPT ![t] = y]
  BY DEF Continue
<1>3. (\A o \in Orders : lock'[o] = lock[o] /\ db'[o] = db[o]) /\ UNCHANGED committed
  BY NumbersWritten
<1>4. /\ y.op = tx[t].op /\ y.order = tx[t].order /\ y.events = tx[t].events
      /\ y.target = tx[t].target /\ y.draft = tx[t].draft
  BY <1>1 DEF TxRecords
<1>5. y.code \in {<<"Clawback">>, <<"Floor">>, <<>>}
  <2>1. tx[t].code \in {<<"Clawback">>, <<"Floor">>}
    BY SpotOf, Spots
  <2>2. y.code = Tail(tx[t].code)
    BY <1>1 DEF TxRecords
  <2> QED BY <2>1, <2>2, Codes
<1> HIDE DEF y
<1> QED BY <1>2, <1>3, <1>4, <1>5, ReversalLife

LEMMA ClawbackLife ==
  ASSUME OrdersInv, LifeInv, NEW t \in Txns, Clawback(t)
  PROVE  LifeInv'
<1>1. Runs(t, "Clawback") /\ tx[t] \in TxRecords
  BY SpotOf DEF Clawback
<1>2. CASE tx' = [tx EXCEPT ![t].code = <<"Floor">>] /\ ReadOnly
  <2> DEFINE y == [tx[t] EXCEPT !.code = <<"Floor">>]
  <2>1. /\ y.op = tx[t].op /\ y.order = tx[t].order /\ y.events = tx[t].events
        /\ y.target = tx[t].target /\ y.draft = tx[t].draft
        /\ y.code \in {<<"Clawback">>, <<"Floor">>, <<>>}
    BY <1>1 DEF TxRecords
  <2>2. tx' = [tx EXCEPT ![t] = y] /\ UNCHANGED <<db, lock, committed>>
    BY <1>2 DEF ReadOnly
  <2> HIDE DEF y
  <2> QED BY <1>1, <2>1, <2>2, ReversalLife
<1>3. CASE \E needed, value : WriteIf(t, needed, Member, value) /\ Continue(t, tx[t])
  BY <1>1, <1>3, PointsStepLife
<1> QED BY <1>2, <1>3 DEF Clawback

LEMMA FloorLife ==
  ASSUME OrdersInv, LifeInv, NEW t \in Txns, Floor(t)
  PROVE  LifeInv'
<1>1. Runs(t, "Floor") /\ WriteIf(t, TRUE, Member, 0) /\ Continue(t, tx[t])
  BY Zenon DEF Floor
<1>2. "Floor" \in {"Clawback", "Floor"}
  OBVIOUS
<1> QED BY <1>1, <1>2, PointsStepLife, Zenon

\* A beginning: what the operation has read, and its program.
LEMMA StartLife ==
  ASSUME OrdersInv, LifeInv, NEW t \in Txns, NEW x, Begin(t, x), x.op \in OpNames, Loaded(x),
         NEW y, y = [x EXCEPT !.code = Program[x.op]],
         y.op = x.op, y.code = Program[x.op], y.order = x.order, y.draft = x.draft
  PROVE  LifeInv'
<1>1. tx[t].op = "none" /\ tx' = [tx EXCEPT ![t] = y] /\ UNCHANGED <<db, committed, lock>>
  BY DEF Begin
<1>2. CASE y.op = "create"
  <2>1. y.code = Program["create"]
    BY <1>2
  <2> QED BY <1>1, <1>2, <2>1, NewSale, BeginLife
<1>3. CASE y.op # "create"
  <2>1. \/ y.op = "status" /\ y.code = <<"Claim">>
        \/ y.op \in Reversals /\ y.code = <<"Claim", "Restore", "Clawback">>
    BY <1>3 DEF OpNames, Reversals, Program
  <2>2. Stage(y)
    BY <2>1 DEF Stage
  <2>3. ~Acted(y)
    <3>1. CASE y.op \in Reversals
      BY <2>1, <3>1 DEF Acted, Reversals
    <3>2. CASE y.op \notin Reversals
      <4>1. y.code = <<"Claim">> /\ <<"Claim">> # <<>>
        BY <2>1, <3>2
      <4> QED BY <3>2, <4>1 DEF Acted
    <3> QED BY <3>1, <3>2
  <2>4. Numbered(y) /\ Loaded(y)
    BY <1>3 DEF Numbered, Loaded
  <2> QED BY <1>1, <2>2, <2>3, <2>4, BeginLife
<1> QED BY <1>2, <1>3

LEMMA ReversalLoaded ==
  ASSUME NEW op \in {"void", "refund"}, NEW o \in Orders, NEW target,
         committed[o].st # "none"
  PROVE  Loaded(Reversal(op, o, target))
BY SameSaleLaws DEF Loaded, Reversal, Idle

LEMMA BeginsLife ==
  ASSUME OrdersInv, LifeInv, NEW t \in Txns,
         BeginCreate(t) \/ BeginStatus(t) \/ BeginVoid(t) \/ BeginRefund(t)
  PROVE  LifeInv'
<1>1. CASE BeginCreate(t)
  <2>1. PICK d, ask : Begin(t, [Idle EXCEPT !.op = "create", !.ask = ask, !.draft = d])
    BY <1>1 DEF BeginCreate
  <2> DEFINE x == [Idle EXCEPT !.op = "create", !.ask = ask, !.draft = d]
             y == [x EXCEPT !.code = Program[x.op]]
  <2>2. /\ x.op = "create" /\ y.op = x.op /\ y.code = Program[x.op] /\ y.order = x.order
        /\ y.draft = x.draft
    BY DEF Idle
  <2>3. Begin(t, x) /\ y = [x EXCEPT !.code = Program[x.op]]
    BY <2>1
  <2> HIDE DEF x, y
  <2>4. x.op \in OpNames /\ Loaded(x)
    BY <2>2 DEF OpNames, Loaded, Reversals
  <2> QED BY <2>2, <2>3, <2>4, StartLife
<1>2. CASE BeginStatus(t)
  <2>1. PICK o, read, target :
          Begin(t, [Idle EXCEPT !.op = "status", !.order = o, !.read = read, !.target = target])
    BY <1>2 DEF BeginStatus
  <2> DEFINE x == [Idle EXCEPT !.op = "status", !.order = o, !.read = read, !.target = target]
             y == [x EXCEPT !.code = Program[x.op]]
  <2>2. /\ x.op = "status" /\ y.op = x.op /\ y.code = Program[x.op] /\ y.order = x.order
        /\ y.draft = x.draft
    BY DEF Idle
  <2>3. Begin(t, x) /\ y = [x EXCEPT !.code = Program[x.op]]
    BY <2>1
  <2> HIDE DEF x, y
  <2>4. x.op \in OpNames /\ Loaded(x)
    BY <2>2 DEF OpNames, Loaded, Reversals
  <2> QED BY <2>2, <2>3, <2>4, StartLife
<1>3. ASSUME NEW op \in {"void", "refund"}, NEW o \in Orders, NEW target,
             committed[o].st # "none", Begin(t, Reversal(op, o, target))
      PROVE  LifeInv'
  <2> DEFINE x == Reversal(op, o, target)
             y == [x EXCEPT !.code = Program[x.op]]
  <2>1. /\ x.op = op /\ y.op = x.op /\ y.code = Program[x.op] /\ y.order = x.order
        /\ y.draft = x.draft
    BY DEF Reversal, Idle
  <2>2. Begin(t, x) /\ y = [x EXCEPT !.code = Program[x.op]] /\ Loaded(x)
    BY <1>3, ReversalLoaded
  <2> HIDE DEF x, y
  <2>3. x.op \in OpNames
    BY <2>1 DEF OpNames
  <2> QED BY <2>1, <2>2, <2>3, StartLife
<1>4. CASE BeginVoid(t) \/ BeginRefund(t)
  BY <1>3, <1>4 DEF BeginVoid, BeginRefund, Operational
<1> QED BY <1>1, <1>2, <1>4

\* A commit frees the order, and what it makes committed keeps the sale it is of.
LEMMA CommitKept ==
  ASSUME OrdersInv, LifeInv, NEW t \in Txns, Commit(t)
  PROVE  Kept
<1> SUFFICES ASSUME NEW o \in Orders, committed[o].st # "none"
             PROVE  committed'[o].st # "none" /\ SameSale(committed'[o], committed[o])
  BY DEF Kept
<1>1. committed'[o] = IF lock[o] = t THEN db[o] ELSE committed[o]
  BY RowKinds DEF Commit, KeepWrites
<1>2. CASE lock[o] # t
  BY <1>1, <1>2, SameSaleLaws
<1>3. CASE lock[o] = t
  <2>1. Acted(tx[t]) /\ o = tx[t].order
    BY <1>3 DEF LifeInv, Life
  <2>2. Changed(tx[t])
    BY <2>1 DEF LifeInv, Life, Created
  <2> QED BY <1>1, <1>3, <2>1, <2>2 DEF Changed, OrdersInv, RowsInv
<1> QED BY <1>2, <1>3

LEMMA CommitLife ==
  ASSUME OrdersInv, LifeInv, NEW t \in Txns, Commit(t)
  PROVE  LifeInv'
<1>1. /\ KeepWrites(t) /\ Release(t) /\ tx' = [tx EXCEPT ![t] = Idle]
      /\ db' = db
  BY DEF Commit, KeepWrites
<1>2. tx'[t] = Idle /\ \A u \in Txns \ {t} : tx'[u] = tx[u]
  BY <1>1 DEF OrdersInv, TxInv
<1>3. \A o \in Orders : committed'[o] = IF lock[o] = t THEN db[o] ELSE committed[o]
  BY <1>1, RowKinds DEF KeepWrites
<1>4. /\ \A o \in Orders : lock'[o] # t
      /\ \A u \in Txns \ {t} : \A o \in Orders : lock'[o] = u <=> lock[o] = u
  BY <1>1, Released, RowKinds DEF OrdersInv, RowsInv, FreeRowsCommitted
<1>5. Life(t)'
  BY <1>2, <1>4 DEF Life, Stage, Acted, Numbered, Loaded, Idle, Reversals
<1>6. NumbersUnique'
  BY <1>1 DEF LifeInv, NumbersUnique, Sold
<1>7. \A u \in Txns \ {t} : \A o \in Orders :
        lock[o] = u => db'[o] = db[o] /\ committed'[o] = committed[o]
  BY <1>1, <1>3
<1> QED BY <1>2, <1>4, <1>5, <1>6, <1>7, CommitKept, LifeSteps

LEMMA CreatingLife ==
  ASSUME OrdersInv, LifeInv, NumbersInv, NEW t \in Txns, Creating(t)
  PROVE  LifeInv'
BY BeginsLife, ReadRecipeLife, DeductLife, CheckPointsLife, RedeemLife, EarnLife, AllocateLife,
   InsertLife, InsertRepeatedLife, InsertOutrunLife, FindExistingLife DEF Creating

LEMMA ChangingLife ==
  ASSUME OrdersInv, LifeInv, NEW t \in Txns, Changing(t)
  PROVE  LifeInv'
BY BeginsLife, ClaimLife, RestoreLife, ClawbackLife, FloorLife DEF Changing

LEMMA NextLife ==
  ASSUME OrdersInv, LifeInv, NumbersInv, [Next]_vars
  PROVE  LifeInv'
<1>1. ASSUME UNCHANGED <<db, committed, lock, tx>> PROVE LifeInv'
  <2>1. ASSUME NEW u \in Txns PROVE Life(u)'
    <3>1. tx'[u] = tx[u] /\ \A o \in Orders : lock'[o] = u <=> lock[o] = u
      BY <1>1
    <3>2. \A o \in Orders : lock[o] = u => db'[o] = db[o] /\ committed'[o] = committed[o]
      BY <1>1
    <3>3. Life(u) /\ Kept
      BY <1>1, KeptAlone DEF LifeInv
    <3> QED BY <3>1, <3>2, <3>3, OthersLive
  <2> QED BY <1>1, <2>1 DEF LifeInv, NumbersUnique, Sold
<1>2. CASE EditRecipe \/ NextDay \/ UNCHANGED vars
  BY <1>1, <1>2 DEF EditRecipe, NextDay, vars
<1> QED BY <1>2, CreatingLife, ChangingLife, CommitLife, ThrowLife DEF Next, Abort

-------------------------------------------------------------------------------
(* What a commit makes of the orders.                                      *)

\* A version of an order nobody has committed yet is of the committed sale.
LEMMA LatestSale ==
  ASSUME OrdersInv, LifeInv, NEW o \in Orders, committed[o].st # "none"
  PROVE  db[o].st # "none" /\ SameSale(db[o], committed[o])
<1>1. db[o].st # "none"
  BY DEF OrdersInv, RowsInv
<1>2. lock[o] \in Txns \union {NoTxn} /\ (lock[o] = NoTxn => db[o] = committed[o])
  BY RowKinds DEF OrdersInv, RowsInv, FreeRowsCommitted
<1>3. CASE lock[o] = NoTxn
  BY <1>1, <1>2, <1>3, SameSaleLaws
<1>4. ASSUME NEW u \in Txns, lock[o] = u PROVE SameSale(db[o], committed[o])
  <2>1. Acted(tx[u]) /\ o = tx[u].order
    BY <1>4 DEF LifeInv, Life
  <2>2. Changed(tx[u])
    BY <2>1 DEF LifeInv, Life, Created
  <2> QED BY <2>1, <2>2 DEF Changed
<1> QED BY <1>1, <1>2, <1>3, <1>4

\* The rows that orders share, and what a request has changed of one.
Shared == Items \union {Member}
Delta(t, r) == IF lock[r] = t THEN db[r] - committed[r] ELSE 0

LEMMA Committing ==
  ASSUME OrdersInv, LifeInv, NEW t \in Txns, Commit(t), NEW x, x = tx[t], NEW o, o = x.order
  PROVE  /\ x \in TxRecords /\ x.op \in OpNames /\ x.code = <<>>
         /\ o \in Orders /\ lock[o] = t
         /\ x.op = "create" => Created(x)
         /\ x.op # "create" => Changed(x)
<1>1. x \in TxRecords /\ x.op # "none" /\ x.code = <<>> /\ Life(t)
  BY DEF Commit, OrdersInv, TxInv, LifeInv
<1>2. Acted(x) /\ x.op \in OpNames
  BY <1>1 DEF Acted, TxRecords
<1> QED BY <1>1, <1>2 DEF Life

LEMMA Committed ==
  ASSUME OrdersInv, LifeInv, NEW t \in Txns, Commit(t), NEW o, o = tx[t].order
  PROVE  /\ committed'[o] = db[o]
         /\ \A u \in Orders \ {o} : committed'[u] = committed[u]
         /\ \A r \in Shared : committed'[r] = committed[r] + Delta(t, r)
         /\ events' = [events EXCEPT ![o] = @ \o tx[t].events]
<1>1. o \in Orders /\ lock[o] = t
  BY Committing
<1>2. \A r \in Rows : committed'[r] = IF lock[r] = t THEN db[r] ELSE committed[r]
  BY DEF Commit, KeepWrites
<1>3. \A u \in Orders : u # o => lock[u] # t
  BY DEF LifeInv, Life
<1>4. \A r \in Shared : r \in Rows /\ db[r] \in Int /\ committed[r] \in Int
  BY RowKinds DEF Shared, OrdersInv, RowsInv, Sound
<1>5. \A r \in Shared : committed'[r] = committed[r] + Delta(t, r)
  BY <1>2, <1>4 DEF Delta
<1>6. committed'[o] = db[o] /\ \A u \in Orders \ {o} : committed'[u] = committed[u]
  BY <1>1, <1>2, <1>3, RowKinds
<1> QED BY <1>5, <1>6 DEF Commit

\* Everything but a commit leaves the committed rows and the events alone.
LEMMA OnlyCommits ==
  ASSUME [Next]_vars
  PROVE  UNCHANGED <<committed, events>> \/ \E t \in Txns : Commit(t)
<1>1. ASSUME NEW t \in Txns, Creating(t)
      PROVE  UNCHANGED <<committed, events>>
  BY <1>1 DEF Creating, BeginCreate, ReadRecipe, Deduct, CheckPoints, Redeem, Earn, Allocate,
     Insert, InsertRepeated, InsertOutrun, FindExisting, Begin, WriteIf, ReadOnly, RollBackTo,
     Throw, UndoWrites, others
<1>2. ASSUME NEW t \in Txns, Changing(t)
      PROVE  UNCHANGED <<committed, events>>
  BY <1>2 DEF Changing, BeginStatus, BeginVoid, BeginRefund, Claim, Restore, Clawback, Floor,
     Begin, WriteIf, ReadOnly, RollBackTo, Throw, UndoWrites, others
<1>3. ASSUME NEW t \in Txns, Abort(t)
      PROVE  UNCHANGED <<committed, events>>
  BY <1>3 DEF Abort, Throw, RollBackTo, UndoWrites, others
<1>4. CASE EditRecipe \/ NextDay \/ UNCHANGED vars
  BY <1>4 DEF EditRecipe, NextDay, vars
<1> QED BY <1>1, <1>2, <1>3, <1>4 DEF Next

-------------------------------------------------------------------------------
(* Queue numbers.                                                          *)

\* A sale that commits is given the number after those of its day.
LEMMA NextNumber ==
  ASSUME OrdersInv, LifeInv, NumbersInv, NEW t \in Txns, Commit(t), tx[t].op = "create",
         NEW o, o = tx[t].order, NEW d, d = db[o].day
  PROVE  d \in Nat /\ db[o].queue = Cardinality(SoldOn(d)) + 1
<1>1. PICK x : x = tx[t]
  OBVIOUS
<1>2. PICK n : n = db[o].queue
  OBVIOUS
<1>3. /\ x.op = "create" /\ x.code = <<>> /\ o = x.order /\ o \in Orders /\ Created(x)
      /\ committed'[o] = db[o]
  BY <1>1, Committing, Committed
<1>4. db[o] \in OrderRow /\ SameSale(db[o], x.draft) /\ o \in Sold(db)
  BY <1>3, RowKinds DEF OrdersInv, RowsInv, Sound, Created, Sold, Operational
<1>5. d \in Nat /\ n \in Nat
  BY <1>2, <1>4 DEF OrderRow
<1>6. n >= 1 /\ \A k \in 1 .. n - 1 : k \in NumbersOf(d)
  <2>1. Numbered(x)
    BY <1>1 DEF LifeInv, Life
  <2>2. x.draft.queue = n /\ x.draft.day = d
    BY <1>2, <1>4 DEF SameSale
  <2>3. /\ n >= 1
        /\ \A k \in 1 .. n - 1 : \E u \in Sold(committed) : committed[u].day = d /\ committed[u].queue = k
    BY <1>3, <2>1, <2>2 DEF Numbered
  <2> QED BY <2>3 DEF NumbersOf
<1>7. n \notin NumbersOf(d)
  <2> SUFFICES ASSUME NEW u \in Sold(committed), committed[u].day = d, committed[u].queue = n
               PROVE  FALSE
    BY DEF NumbersOf
  <2>1. u \in Orders /\ committed[u].st # "none"
    BY DEF Sold
  <2>2. u \in Sold(db) /\ db[u].day = d /\ db[u].queue = n
    BY <2>1, LatestSale DEF Sold, SameSale
  <2>3. u = o
    BY <1>2, <1>4, <2>2 DEF LifeInv, NumbersUnique, SameQueue
  <2> QED BY <1>3, <2>1, <2>3 DEF Created
<1>8. NumbersOf(d) = 1 .. Cardinality(SoldOn(d)) /\ Cardinality(SoldOn(d)) \in Nat
  BY <1>5, FS_CardinalityType DEF NumbersInv
<1>9. ASSUME NEW c \in Nat, NumbersOf(d) = 1 .. c PROVE n = c + 1
  <2>1. ~ (n <= c)
    BY <1>5, <1>6, <1>7, <1>9
  <2>2. ~ (n > c + 1)
    <3>1. ASSUME n > c + 1 PROVE c + 1 \in 1 .. n - 1
      BY <1>5, <1>9, <3>1
    <3> QED BY <1>6, <1>9, <3>1
  <2> QED BY <1>5, <2>1, <2>2
<1> QED BY <1>2, <1>5, <1>8, <1>9

LEMMA NumbersCommit ==
  ASSUME OrdersInv, LifeInv, NumbersInv, NEW t \in Txns, Commit(t)
  PROVE  NumbersInv'
<1>1. PICK x : x = tx[t]
  OBVIOUS
<1>2. PICK o : o = x.order
  OBVIOUS
<1>3. /\ o \in Orders /\ committed'[o] = db[o]
      /\ \A u \in Orders \ {o} : committed'[u] = committed[u]
      /\ x.op = "create" => Created(x)
      /\ x.op # "create" => Changed(x)
  BY <1>1, <1>2, Committing, Committed
<1> SUFFICES ASSUME NEW d \in Nat
             PROVE  IsFiniteSet(SoldOn(d)') /\ NumbersOf(d)' = 1 .. Cardinality(SoldOn(d)')
  BY DEF NumbersInv
<1>4. IsFiniteSet(SoldOn(d)) /\ NumbersOf(d) = 1 .. Cardinality(SoldOn(d))
  BY DEF NumbersInv
<1>5. NumbersOf(d) = {committed[u].queue : u \in SoldOn(d)}
      /\ NumbersOf(d)' = {committed'[u].queue : u \in SoldOn(d)'}
  BY DEF NumbersOf, SoldOn
<1>6. CASE x.op # "create"
  <2>1. /\ committed[o].st # "none" /\ committed'[o].st # "none"
        /\ SameSale(committed'[o], committed[o])
    BY <1>2, <1>3, <1>6, CommitKept DEF Changed, Operational, Kept
  <2>2. /\ committed'[o].st # "none" /\ committed'[o].day = committed[o].day
        /\ committed'[o].queue = committed[o].queue
    BY <2>1 DEF SameSale
  <2>3. \A u \in Orders : /\ committed'[u].st # "none" <=> committed[u].st # "none"
                          /\ committed'[u].day = committed[u].day
                          /\ committed'[u].queue = committed[u].queue
    BY <1>3, <2>1, <2>2
  <2>4. SoldOn(d)' = SoldOn(d)
    BY <2>3 DEF SoldOn, Sold
  <2>5. NumbersOf(d)' = NumbersOf(d)
    BY <1>5, <2>3, <2>4 DEF SoldOn, Sold
  <2> QED BY <1>4, <2>4, <2>5
<1>7. CASE x.op = "create"
  <2>1. committed[o].st = "none" /\ committed'[o].st # "none"
    BY <1>2, <1>3, <1>7 DEF Created, Operational
  <2>2. o \notin SoldOn(d) /\ \A u \in SoldOn(d) : u \in Orders /\ committed'[u] = committed[u]
    BY <1>3, <2>1 DEF SoldOn, Sold
  <2>3. CASE committed'[o].day # d
    <3>1. SoldOn(d)' = SoldOn(d)
      BY <1>3, <2>1, <2>3 DEF SoldOn, Sold
    <3>2. NumbersOf(d)' = NumbersOf(d)
      BY <1>5, <2>2, <3>1
    <3> QED BY <1>4, <3>1, <3>2
  <2>4. CASE committed'[o].day = d
    <3>1. committed'[o].queue = Cardinality(SoldOn(d)) + 1
      BY <1>1, <1>2, <1>3, <1>7, <2>4, NextNumber
    <3>2. SoldOn(d)' = SoldOn(d) \union {o}
      BY <1>3, <2>1, <2>4 DEF SoldOn, Sold
    <3>3. NumbersOf(d)' = NumbersOf(d) \union {committed'[o].queue}
      BY <1>5, <2>2, <3>2
    <3>4. IsFiniteSet(SoldOn(d)') /\ Cardinality(SoldOn(d)') = Cardinality(SoldOn(d)) + 1
      BY <1>4, <2>2, <3>2, FS_AddElement
    <3>5. Cardinality(SoldOn(d)) \in Nat
      BY <1>4, FS_CardinalityType
    <3>6. ASSUME NEW c \in Nat PROVE (1 .. c) \union {c + 1} = 1 .. c + 1
      OBVIOUS
    <3> QED BY <1>4, <3>1, <3>3, <3>4, <3>5, <3>6
  <2> QED BY <2>3, <2>4
<1> QED BY <1>6, <1>7

LEMMA NextNumbers ==
  ASSUME OrdersInv, LifeInv, NumbersInv, [Next]_vars
  PROVE  NumbersInv'
<1>1. CASE UNCHANGED <<committed, events>>
  BY <1>1 DEF NumbersInv, NumbersOf, SoldOn, Sold
<1> QED BY <1>1, OnlyCommits, NumbersCommit

\* Where every order starts.
LEMMA NothingSold == ASSUME Init PROVE /\ Sold(committed) = {} /\ Sold(db) = {}
                                       /\ \A r \in Rows : lock[r] = NoTxn
                                       /\ \A t \in Txns : tx[t] = Idle
<1>1. ASSUME NEW o \in Orders PROVE InitialDb[o].st = "none"
  <2>1. InitialDb[o] = NoOrder
    BY OrdersAssumption, RowKinds DEF InitialDb
  <2> QED BY <2>1 DEF NoOrder
<1> QED BY <1>1 DEF Init, Sold

LEMMA InitLife == Init => LifeInv /\ NumbersInv
<1> SUFFICES ASSUME Init PROVE LifeInv /\ NumbersInv
  OBVIOUS
<1>1. LifeInv
  <2>1. ASSUME NEW t \in Txns PROVE Life(t)
    <3>1. tx[t] = Idle /\ \A o \in Orders : lock[o] # t
      BY NothingSold, RowKinds
    <3> QED BY <3>1, IdleLife DEF Life
  <2> QED BY <2>1, NothingSold DEF LifeInv, NumbersUnique
<1>2. ASSUME NEW d \in Nat PROVE IsFiniteSet(SoldOn(d)) /\ NumbersOf(d) = 1 .. Cardinality(SoldOn(d))
  <2>1. SoldOn(d) = {}
    BY NothingSold DEF SoldOn
  <2>2. NumbersOf(d) = {}
    BY NothingSold DEF NumbersOf
  <2> QED BY <2>1, <2>2, FS_EmptySet
<1> QED BY <1>1, <1>2 DEF NumbersInv

\* Where a request is in its program, what it holds and what it will commit.
THEOREM LifeHolds == Spec => [](LifeInv /\ NumbersInv)
<1>1. OrdersInv /\ LifeInv /\ NumbersInv /\ [Next]_vars => LifeInv' /\ NumbersInv'
  BY NextLife, NextNumbers
<1> QED BY Invariant, InitLife, <1>1, PTL DEF Spec

\* The orders of a day carry the tickets 1, 2, 3, ..., however many tills ask for
\* the last number at once, and however often a sale is tried again.
THEOREM QueueNumbersConsecutiveHolds == Spec => []QueueNumbersConsecutive
<1>1. NumbersInv => QueueNumbersConsecutive
  <2> SUFFICES ASSUME NumbersInv, NEW d \in 1 .. LastDay
               PROVE  NumbersOf(d) = 1 .. Cardinality(SoldOn(d))
                      /\ NumbersOf(d) = {committed[o].queue : o \in SoldOn(d)}
    BY DEF QueueNumbersConsecutive, SoldOn
  <2>1. d \in Nat
    OBVIOUS
  <2> QED BY <2>1 DEF NumbersInv, NumbersOf, SoldOn
<1> QED BY LifeHolds, <1>1, PTL

-------------------------------------------------------------------------------
(* The outbox tells the story of an order.                                 *)

EventTypes == {"CREATED", "STATUS", "VOIDED", "REFUNDED"}
Told == Seq(EventTypes \X Statuses)
Times(s, type) == Cardinality({k \in 1 .. Len(s) : s[k][1] = type})

\* The events of an order whose committed status is st.
Story(s, st) ==
  /\ s \in Told
  /\ IF st = "none" THEN s = <<>>
     ELSE /\ s # <<>>
          /\ Times(s, "CREATED") = 1 /\ s[1][1] = "CREATED"
          /\ Last(s)[2] = st
          /\ Times(s, "VOIDED") = IF st = "CANCELLED" THEN 1 ELSE 0
          /\ Times(s, "REFUNDED") = IF st = "REFUNDED" THEN 1 ELSE 0

EventsInv == /\ events = [o \in Orders |-> events[o]]
             /\ \A o \in Orders : Story(events[o], committed[o].st)

More(s, e) == Append(s, e)

LEMMA TimesOneMore ==
  ASSUME NEW s \in Told, NEW e \in EventTypes \X Statuses, NEW z, z = More(s, e)
  PROVE  /\ z \in Told /\ z # <<>> /\ Last(z) = e
         /\ \A type : Times(z, type) = IF e[1] = type THEN Times(s, type) + 1 ELSE Times(s, type)
<1>1. PICK n \in Nat : n = Len(s)
  BY DEF Told
<1>2. z \in Told /\ Len(z) = n + 1 /\ (\A k \in 1 .. n : z[k] = s[k]) /\ z[n + 1] = e
  BY <1>1 DEF Told, More
<1>3. z # <<>> /\ Last(z) = e
  <2>1. Last(z) = e
    BY <1>2 DEF Last
  <2> QED BY <1>2, <2>1
<1>4. ASSUME NEW type
      PROVE  Times(z, type) = IF e[1] = type THEN Times(s, type) + 1 ELSE Times(s, type)
  <2> DEFINE old == {k \in 1 .. n : s[k][1] = type}
             new == {k \in 1 .. n + 1 : z[k][1] = type}
  <2>1. IsFiniteSet(old) /\ n + 1 \notin old
    <3>1. IsFiniteSet(1 .. n) /\ old \subseteq 1 .. n
      BY <1>1, FS_Interval
    <3> QED BY <3>1, FS_Subset
  <2>2. new = IF e[1] = type THEN old \union {n + 1} ELSE old
    <3>1. z[n + 1][1] = e[1]
      BY <1>2
    <3>2. \A k \in 1 .. n + 1 : k \in 1 .. n \/ k = n + 1
      BY <1>1
    <3>3. \A k \in 1 .. n : k \in 1 .. n + 1
      BY <1>1
    <3>4. n + 1 \in 1 .. n + 1
      BY <1>1
    <3> QED BY <1>2, <3>1, <3>2, <3>3, <3>4
  <2>3. Times(s, type) = Cardinality(old) /\ Times(z, type) = Cardinality(new)
    BY <1>1, <1>2 DEF Times
  <2> HIDE DEF old, new
  <2> QED BY <2>1, <2>2, <2>3, FS_AddElement
<1> QED BY <1>2, <1>3, <1>4

LEMMA FirstStays ==
  ASSUME NEW s \in Told, s # <<>>, NEW e \in EventTypes \X Statuses, NEW z, z = More(s, e)
  PROVE  z[1] = s[1]
BY DEF Told, More

\* An order begins with its creation.
LEMMA StoryBegins ==
  ASSUME NEW st \in Operational
  PROVE  Story(<<<<"CREATED", st>>>>, st)
<1>1. <<>> \in Told /\ <<<<"CREATED", st>>>> = More(<<>>, <<"CREATED", st>>)
  BY DEF Told, More
<1>2. \A type : Times(<<>>, type) = 0
  <2> TAKE type
  <2>1. {k \in 1 .. Len(<<>>) : <<>>[k][1] = type} = {}
    OBVIOUS
  <2> QED BY <2>1, FS_EmptySet DEF Times
<1>3. PICK z : z = <<<<"CREATED", st>>>>
  OBVIOUS
<1>4. "CREATED" \in EventTypes /\ st \in Statuses
  BY DEF EventTypes, Statuses
<1>5. /\ z \in Told /\ z # <<>> /\ Last(z)[2] = st
      /\ \A type : Times(z, type) = IF "CREATED" = type THEN 1 ELSE 0
  <2> PICK s : s = <<>>
    OBVIOUS
  <2> PICK e : e = <<"CREATED", st>>
    OBVIOUS
  <2>1. e \in EventTypes \X Statuses /\ e[1] = "CREATED" /\ e[2] = st
    BY <1>4
  <2>2. s \in Told /\ z = More(s, e) /\ \A type : Times(s, type) = 0
    BY <1>1, <1>2, <1>3
  <2>3. /\ z \in Told /\ z # <<>> /\ Last(z) = e
        /\ \A type : Times(z, type) = IF e[1] = type THEN Times(s, type) + 1 ELSE Times(s, type)
    BY <2>1, <2>2, TimesOneMore
  <2> QED BY <2>1, <2>2, <2>3
<1>6. z[1][1] = "CREATED"
  BY <1>3
<1>7. st \notin {"none", "CANCELLED", "REFUNDED"}
  BY DEF Operational
<1>8. Story(z, st)
  BY <1>5, <1>6, <1>7 DEF Story
<1> QED BY <1>3, <1>8

\* A change of status adds its event, a reversal its own and that one.
LEMMA StoryGoesOn ==
  ASSUME NEW s, NEW from \in Operational, Story(s, from), NEW st \in Operational
  PROVE  Story(s \o <<<<"STATUS", st>>>>, st)
<1>1. s \o <<<<"STATUS", st>>>> = More(s, <<"STATUS", st>>)
  BY DEF Story, Told, More
<1>7. s \in Told
  BY DEF Story
<1>2. PICK e : e = <<"STATUS", st>>
  OBVIOUS
<1>6. PICK z : z = More(s, e)
  OBVIOUS
<1>3. "STATUS" \in EventTypes /\ st \in Statuses /\ st # "none"
      /\ from \notin {"none", "CANCELLED", "REFUNDED"} /\ st \notin {"none", "CANCELLED", "REFUNDED"}
  BY DEF EventTypes, Statuses, Operational
<1>4. /\ z \in Told /\ z # <<>> /\ Last(z)[2] = st /\ (s # <<>> => z[1] = s[1])
      /\ \A type \in {"CREATED", "VOIDED", "REFUNDED"} : Times(z, type) = Times(s, type)
  <2>1. e \in EventTypes \X Statuses /\ e[1] = "STATUS" /\ e[2] = st
    BY <1>2, <1>3
  <2>2. /\ z \in Told /\ z # <<>> /\ Last(z) = e
        /\ \A type : Times(z, type) = IF e[1] = type THEN Times(s, type) + 1 ELSE Times(s, type)
    BY <1>6, <1>7, <2>1, TimesOneMore
  <2>3. s # <<>> => z[1] = s[1]
    BY <1>6, <1>7, <2>1, FirstStays
  <2> QED BY <2>1, <2>2, <2>3
<1>5. Story(z, st)
  BY <1>3, <1>4 DEF Story
<1> QED BY <1>1, <1>2, <1>5, <1>6

LEMMA StoryEnds ==
  ASSUME NEW s, NEW from \in Operational, Story(s, from),
         NEW type, NEW st, <<type, st>> \in {<<"VOIDED", "CANCELLED">>, <<"REFUNDED", "REFUNDED">>}
  PROVE  Story(s \o <<<<type, st>>, <<"STATUS", st>>>>, st)
<1>1. s \o <<<<type, st>>, <<"STATUS", st>>>> = More(More(s, <<type, st>>), <<"STATUS", st>>)
  BY DEF Story, Told, More
<1>10. s \in Told
  BY DEF Story
<1>2. PICK e : e = <<type, st>>
  OBVIOUS
<1>3. PICK f : f = <<"STATUS", st>>
  OBVIOUS
<1>8. PICK y : y = More(s, e)
  OBVIOUS
<1>9. PICK z : z = More(y, f)
  OBVIOUS
<1>4. /\ type \in EventTypes \ {"STATUS", "CREATED"} /\ "STATUS" \in EventTypes /\ st \in Statuses
      /\ from \notin {"none", "CANCELLED", "REFUNDED"} /\ st # "none"
      /\ st = "CANCELLED" <=> type = "VOIDED"
      /\ st = "REFUNDED" <=> type = "REFUNDED"
  BY DEF EventTypes, Statuses, Operational, Terminal
<1>5. /\ y \in Told /\ y # <<>> /\ (s # <<>> => y[1] = s[1])
      /\ \A c : Times(y, c) = IF type = c THEN Times(s, c) + 1 ELSE Times(s, c)
  <2>1. e \in EventTypes \X Statuses /\ e[1] = type
    BY <1>2, <1>4
  <2>2. /\ y \in Told /\ y # <<>>
        /\ \A c : Times(y, c) = IF e[1] = c THEN Times(s, c) + 1 ELSE Times(s, c)
    BY <1>8, <1>10, <2>1, TimesOneMore
  <2>3. s # <<>> => y[1] = s[1]
    BY <1>8, <1>10, <2>1, FirstStays
  <2> QED BY <2>1, <2>2, <2>3
<1>6. /\ z \in Told /\ z # <<>> /\ Last(z)[2] = st /\ z[1] = y[1]
      /\ \A c \in {"CREATED", "VOIDED", "REFUNDED"} : Times(z, c) = Times(y, c)
  <2>1. f \in EventTypes \X Statuses /\ f[1] = "STATUS" /\ f[2] = st
    BY <1>3, <1>4
  <2>2. /\ z \in Told /\ z # <<>> /\ Last(z) = f
        /\ \A c : Times(z, c) = IF f[1] = c THEN Times(y, c) + 1 ELSE Times(y, c)
    BY <1>5, <1>9, <2>1, TimesOneMore
  <2>3. y # <<>> => z[1] = y[1]
    BY <1>5, <1>9, <2>1, FirstStays
  <2> QED BY <1>5, <2>1, <2>2, <2>3
<1>7. Story(z, st)
  BY <1>4, <1>5, <1>6 DEF Story
<1> QED BY <1>1, <1>2, <1>3, <1>7, <1>8, <1>9

LEMMA EventsCommit ==
  ASSUME OrdersInv, LifeInv, EventsInv, NEW t \in Txns, Commit(t)
  PROVE  EventsInv'
<1>1. PICK x : x = tx[t]
  OBVIOUS
<1>2. PICK o : o = x.order
  OBVIOUS
<1>3. /\ o \in Orders /\ x.op \in OpNames /\ committed'[o] = db[o]
      /\ \A u \in Orders \ {o} : committed'[u] = committed[u]
      /\ events' = [events EXCEPT ![o] = @ \o x.events]
      /\ x.op = "create" => Created(x)
      /\ x.op # "create" => Changed(x)
  BY <1>1, <1>2, Committing, Committed
<1>4. /\ events' = [u \in Orders |-> events'[u]]
      /\ events'[o] = events[o] \o x.events
      /\ \A u \in Orders \ {o} : events'[u] = events[u]
  BY <1>3 DEF EventsInv
<1>5. Story(events[o], committed[o].st)
  BY <1>3 DEF EventsInv
<1>6. Story(events[o] \o x.events, db[o].st)
  <2>1. CASE x.op = "create"
    <3>1. /\ committed[o].st = "none" /\ db[o].st \in Operational
          /\ x.events = <<<<"CREATED", db[o].st>>>>
      BY <1>2, <1>3, <2>1 DEF Created
    <3>2. events[o] = <<>> /\ <<>> \o <<<<"CREATED", db[o].st>>>> = <<<<"CREATED", db[o].st>>>>
      BY <1>5, <3>1 DEF Story
    <3>3. Story(<<<<"CREATED", db[o].st>>>>, db[o].st)
      BY <3>1, StoryBegins
    <3> QED BY <3>1, <3>2, <3>3
  <2>2. CASE x.op # "create"
    <3>1. PICK st : st = x.target
      OBVIOUS
    <3>2. committed[o].st \in Operational /\ db[o].st = st
      BY <1>2, <1>3, <2>2, <3>1 DEF Changed
    <3>3. CASE x.op = "status"
      <4>1. st \in Operational /\ x.events = <<<<"STATUS", st>>>>
        BY <1>3, <2>2, <3>1, <3>3 DEF Changed
      <4> QED BY <1>5, <3>2, <4>1, StoryGoesOn
    <3>4. CASE x.op = "void"
      <4>1. st = "CANCELLED" /\ x.events = <<<<"VOIDED", st>>, <<"STATUS", st>>>>
        BY <1>3, <2>2, <3>1, <3>4 DEF Changed
      <4> QED BY <1>5, <3>2, <4>1, StoryEnds
    <3>5. CASE x.op = "refund"
      <4>1. st = "REFUNDED" /\ x.events = <<<<"REFUNDED", st>>, <<"STATUS", st>>>>
        BY <1>3, <2>2, <3>1, <3>5 DEF Changed
      <4> QED BY <1>5, <3>2, <4>1, StoryEnds
    <3> QED BY <1>3, <2>2, <3>3, <3>4, <3>5 DEF OpNames
  <2> QED BY <2>1, <2>2
<1>7. ASSUME NEW u \in Orders PROVE Story(events'[u], committed'[u].st)
  <2>1. CASE u = o
    BY <1>3, <1>4, <1>6, <2>1
  <2>2. CASE u # o
    BY <1>3, <1>4, <2>2 DEF EventsInv
  <2> QED BY <2>1, <2>2
<1> QED BY <1>4, <1>7 DEF EventsInv

LEMMA InitEvents == Init => EventsInv
<1> SUFFICES ASSUME Init, NEW o \in Orders PROVE Story(events[o], committed[o].st)
  BY DEF EventsInv, Init
<1>1. committed[o].st = "none" /\ events[o] = <<>>
  BY NothingSold DEF Sold, Init
<1> QED BY <1>1 DEF Story, Told

\* The outbox tells the story of every order: one creation, first; the status of
\* the row last; one void or refund event exactly when the order was reversed.
THEOREM EventsFollowOrdersHolds == Spec => []EventsFollowOrders
<1>1. OrdersInv /\ LifeInv /\ EventsInv /\ [Next]_vars => EventsInv'
  <2>1. ASSUME EventsInv, UNCHANGED <<committed, events>> PROVE EventsInv'
    BY <2>1 DEF EventsInv
  <2> QED BY <2>1, OnlyCommits, EventsCommit
<1>2. EventsInv => EventsFollowOrders
  BY DEF EventsInv, Story, EventsFollowOrders, Count, Times
<1> QED BY Invariant, LifeHolds, InitEvents, <1>1, <1>2, PTL DEF Spec

-------------------------------------------------------------------------------
(* The books: what a request has changed of the stock and of the points.   *)

\* A sale that is to look up the order of its request has changed nothing.
StockDue(x, i) ==
  CASE x.op = "create" /\ x.code # <<"FindExisting">> ->
         IF ItemOf[x.draft.product] = i THEN 0 - x.draft.used ELSE 0
    [] x.op \in Reversals /\ x.code \in {<<"Clawback">>, <<"Floor">>, <<>>} ->
         IF ItemOf[x.draft.product] = i THEN x.recipe ELSE 0
    [] OTHER -> 0

PointsDue(x) ==
  CASE x.op = "create" /\ x.code # <<"FindExisting">> -> x.draft.earned - x.draft.redeemed
    [] x.op \in Reversals /\ x.code = <<>> ->
         IF x.draft.member THEN x.draft.redeemed - x.draft.earned ELSE 0
    [] OTHER -> 0

\* A sale at its first statement, one that has taken its stock, and one that has
\* given its points.
Unread(x) ==
  x.code = <<"ReadRecipe", "Deduct", "CheckPoints", "Redeem", "Earn", "Allocate", "Insert">>
Stocked(x) ==
  ~Unread(x) /\ x.code # <<"Deduct", "CheckPoints", "Redeem", "Earn", "Allocate", "Insert">>
Paid(x) == x.code \in {<<"Allocate", "Insert">>, <<"Insert">>, <<"FindExisting">>, <<>>}

\* While no recipe is edited, what a sale takes is what its recipe says.
StockNotes(x) ==
  /\ x.op = "create" /\ ~Unread(x) => x.recipe = InitialRecipe[x.draft.product]
  /\ x.op = "create" => x.draft.used = IF Stocked(x) THEN InitialRecipe[x.draft.product] ELSE 0
  /\ x.op \in Reversals => x.recipe = InitialRecipe[x.draft.product]

\* While no points are redeemed, no reversal takes back more than the balance.
PointsNotes(x) ==
  /\ x.op = "create" => x.ask = 0 /\ x.draft.redeemed = 0
  /\ x.op = "create" /\ ~Paid(x) => x.draft.earned = 0
  /\ x.op = "create" /\ ~x.draft.member => x.draft.earned = 0
  /\ x.op \in Reversals => x.code # <<"Floor">>

StockOwn(t) == (\A i \in Items : Delta(t, i) = StockDue(tx[t], i)) /\ StockNotes(tx[t])
PointsOwn(t) == Delta(t, Member) = PointsDue(tx[t]) /\ PointsNotes(tx[t])

StockBooks ==
  /\ \A t \in Txns : StockOwn(t)
  /\ IsFiniteSet(Sold(committed))
  /\ recipe = InitialRecipe
  /\ \A o \in Sold(committed) : committed[o].used = InitialRecipe[committed[o].product]
  /\ StockFollowsOrders

PointsBooks ==
  /\ \A t \in Txns : PointsOwn(t)
  /\ IsFiniteSet(Sold(committed))
  /\ \A o \in Sold(committed) : /\ committed[o].redeemed = 0
                                /\ ~committed[o].member => committed[o].earned = 0
  /\ PointsFollowOrders

\* What the others have changed stays as it is.
Aside(t) == /\ UNCHANGED committed
            /\ \A u \in Txns \ {t} : /\ tx'[u] = tx[u]
                                     /\ \A p \in Shared : Delta(u, p)' = Delta(u, p)

\* A statement of t keeps the books of t.
Carries(t) == /\ Aside(t)
              /\ StockBooks => StockOwn(t)'
              /\ PointsBooks /\ Redemptions \subseteq {0} => PointsOwn(t)'

LEMMA SharedRows ==
  ASSUME OrdersInv
  PROVE  /\ \A r \in Shared : r \in Rows /\ db[r] \in Int /\ committed[r] \in Int
         /\ \A o \in Orders : o \in Rows /\ o \notin Shared
BY RowKinds DEF Shared, OrdersInv, RowsInv, Sound

LEMMA WriteDelta ==
  ASSUME OrdersInv, NEW t \in Txns, NEW needed, NEW r \in Rows, NEW value,
         WriteIf(t, needed, r, value)
  PROVE  /\ UNCHANGED committed
         /\ \A u \in Txns \ {t} : \A p \in Shared : Delta(u, p)' = Delta(u, p)
         /\ \A p \in Shared \ {r} : Delta(t, p)' = Delta(t, p)
         /\ ~needed => \A p \in Shared : Delta(t, p)' = Delta(t, p)
         /\ needed /\ r \in Shared /\ value \in Int => Delta(t, r)' = Delta(t, r) + (value - db[r])
<1>1. UNCHANGED committed
  BY DEF WriteIf
<1>2. CASE ~needed
  BY <1>2 DEF WriteIf, Delta
<1>3. CASE needed
  <2>1. lock[r] \in {NoTxn, t} /\ Write(t, r, value)
    BY <1>3 DEF WriteIf, MayWrite
  <2>2. /\ \A p \in Rows : db'[p] = IF p = r THEN value ELSE db[p]
        /\ \A p \in Rows : lock'[p] = IF p = r THEN t ELSE lock[p]
    BY <2>1 DEF Write, OrdersInv, RowsInv, Sound, FreeRowsCommitted
  <2>3. \A p \in Shared \ {r} : \A u \in Txns : Delta(u, p)' = Delta(u, p)
    BY <1>1, <2>2, SharedRows DEF Delta
  <2>4. \A u \in Txns \ {t} : lock[r] # u /\ lock'[r] # u
    BY <2>1, <2>2, RowKinds
  <2>5. \A u \in Txns \ {t} : \A p \in Shared : Delta(u, p)' = Delta(u, p)
    BY <2>3, <2>4 DEF Delta
  <2>6. ASSUME r \in Shared, value \in Int PROVE Delta(t, r)' = Delta(t, r) + (value - db[r])
    <3>1. /\ lock'[r] = t /\ db'[r] = value /\ committed'[r] = committed[r]
          /\ db[r] \in Int /\ committed[r] \in Int
      BY <1>1, <2>2, <2>6, SharedRows
    <3>2. lock[r] # t => db[r] = committed[r]
      BY <2>1 DEF OrdersInv, RowsInv, FreeRowsCommitted
    <3> QED BY <2>6, <3>1, <3>2 DEF Delta
  <2> QED BY <1>1, <1>3, <2>3, <2>5, <2>6
<1> QED BY <1>1, <1>2, <1>3

LEMMA UndoDelta ==
  ASSUME OrdersInv, NEW t \in Txns, NEW y, RollBackTo(t, y)
  PROVE  /\ Aside(t) /\ tx'[t] = y
         /\ \A p \in Shared : Delta(t, p)' = 0
<1>1. /\ UndoWrites(t) /\ Release(t) /\ UNCHANGED committed /\ tx' = [tx EXCEPT ![t] = y]
  BY DEF RollBackTo, UndoWrites
<1>2. tx'[t] = y /\ \A u \in Txns \ {t} : tx'[u] = tx[u]
  BY <1>1 DEF OrdersInv, TxInv
<1>3. \A p \in Rows : lock[p] # t => db'[p] = db[p]
  BY <1>1 DEF UndoWrites
<1>4. \A p \in Rows : /\ lock'[p] # t
                      /\ \A u \in Txns \ {t} : lock'[p] = u <=> lock[p] = u
  BY <1>1, Released, RowKinds DEF OrdersInv, RowsInv, FreeRowsCommitted
<1>5. \A u \in Txns \ {t} : \A p \in Shared : Delta(u, p)' = Delta(u, p)
  BY <1>1, <1>3, <1>4, SharedRows DEF Delta
<1>6. \A p \in Shared : Delta(t, p)' = 0
  BY <1>4, SharedRows DEF Delta
<1> QED BY <1>1, <1>2, <1>5, <1>6 DEF Aside

\* A request with nothing noted, and one about to sell again.
LEMMA IdleNotes ==
  /\ \A i : StockDue(Idle, i) = 0 /\ PointsDue(Idle) = 0
  /\ StockNotes(Idle) /\ PointsNotes(Idle)
BY DEF StockDue, PointsDue, StockNotes, PointsNotes, Idle, Reversals

LEMMA SellNotes ==
  ASSUME NEW y, y.op = "create", Unread(y),
         y.draft.used = 0, y.draft.earned = 0, y.draft.redeemed = 0
  PROVE  /\ \A i : StockDue(y, i) = 0
         /\ PointsDue(y) = 0
         /\ StockNotes(y)
         /\ y.ask = 0 => PointsNotes(y)
<1>1. y.code # <<"FindExisting">> /\ y.op \notin Reversals /\ ~Paid(y) /\ ~Stocked(y)
  BY DEF Unread, Reversals, Paid, Stocked
<1>2. ASSUME NEW i PROVE StockDue(y, i) = 0
  <2>1. StockDue(y, i) = IF ItemOf[y.draft.product] = i THEN 0 - y.draft.used ELSE 0
    BY <1>1 DEF StockDue
  <2>2. 0 - y.draft.used = 0
    OBVIOUS
  <2> QED BY <2>1, <2>2
<1>3. PointsDue(y) = 0
  BY <1>1 DEF PointsDue
<1>4. StockNotes(y)
  BY <1>1 DEF StockNotes
<1>5. y.ask = 0 => PointsNotes(y)
  BY <1>1 DEF PointsNotes
<1> QED BY <1>2, <1>3, <1>4, <1>5

LEMMA Carry ==
  ASSUME NEW t \in Txns, NEW y, Aside(t), tx'[t] = y,
         StockBooks => StockNotes(y) /\ \A i \in Items : Delta(t, i)' = StockDue(y, i),
         PointsBooks /\ Redemptions \subseteq {0} =>
           PointsNotes(y) /\ Delta(t, Member)' = PointsDue(y)
  PROVE  Carries(t)
BY DEF Carries, StockOwn, PointsOwn

\* What a sale is due, and where a statement finds it and leaves it.
LEMMA SaleDue ==
  ASSUME NEW x, x.op = "create", x.code # <<"FindExisting">>
  PROVE  /\ \A i : StockDue(x, i) = IF ItemOf[x.draft.product] = i THEN 0 - x.draft.used ELSE 0
         /\ PointsDue(x) = x.draft.earned - x.draft.redeemed
<1>1. x.op \notin Reversals
  BY DEF Reversals
<1>2. ASSUME NEW i
      PROVE  StockDue(x, i) = IF ItemOf[x.draft.product] = i THEN 0 - x.draft.used ELSE 0
  BY <1>1 DEF StockDue
<1>3. PointsDue(x) = x.draft.earned - x.draft.redeemed
  BY <1>1 DEF PointsDue
<1> QED BY <1>2, <1>3

\* y is x with its first statement done.
Done(x, y) == y.op = x.op /\ y.code = Tail(x.code)

SaleStatements == {"ReadRecipe", "Deduct", "CheckPoints", "Redeem", "Earn", "Allocate"}

SaleAt(s, x, y) ==
  /\ x.op = "create" /\ x.code # <<"FindExisting">>
  /\ y.op = "create" /\ y.code # <<"FindExisting">>
  /\ Unread(x) <=> s = "ReadRecipe"
  /\ Stocked(x) <=> s \notin {"ReadRecipe", "Deduct"}
  /\ Paid(x) <=> s = "Allocate"
  /\ ~Unread(y)
  /\ Stocked(y) <=> s # "ReadRecipe"
  /\ Paid(y) <=> s \in {"Earn", "Allocate"}

LEMMA SaleSpots ==
  ASSUME OrdersInv, LifeInv, NEW t \in Txns, NEW s \in SaleStatements, Runs(t, s),
         NEW y, Done(tx[t], y)
  PROVE  SaleAt(s, tx[t], y)
<1> PICK x : x = tx[t]
  OBVIOUS
<1>1. x.op # "none" /\ x.code # <<>> /\ Head(x.code) = s /\ Stage(x)
  BY SpotOf
<1>2. PICK c : c = x.code
  OBVIOUS
<1> DEFINE rest == Tail(x.code)
<1>3. /\ x.op = "create"
      /\ s = "ReadRecipe" =>
           /\ c = <<"ReadRecipe", "Deduct", "CheckPoints", "Redeem", "Earn", "Allocate", "Insert">>
           /\ rest = <<"Deduct", "CheckPoints", "Redeem", "Earn", "Allocate", "Insert">>
      /\ s = "Deduct" =>
           /\ c = <<"Deduct", "CheckPoints", "Redeem", "Earn", "Allocate", "Insert">>
           /\ rest = <<"CheckPoints", "Redeem", "Earn", "Allocate", "Insert">>
      /\ s = "CheckPoints" =>
           /\ c = <<"CheckPoints", "Redeem", "Earn", "Allocate", "Insert">>
           /\ rest = <<"Redeem", "Earn", "Allocate", "Insert">>
      /\ s = "Redeem" =>
           /\ c = <<"Redeem", "Earn", "Allocate", "Insert">>
           /\ rest = <<"Earn", "Allocate", "Insert">>
      /\ s = "Earn" => c = <<"Earn", "Allocate", "Insert">> /\ rest = <<"Allocate", "Insert">>
      /\ s = "Allocate" => c = <<"Allocate", "Insert">> /\ rest = <<"Insert">>
  <2>1. s \in {"ReadRecipe", "Deduct", "CheckPoints", "Redeem", "Earn", "Allocate"}
    BY DEF SaleStatements
  <2> QED BY <1>1, <1>2, <2>1, SaleRest
<1>4. y.op = "create" /\ y.code = rest /\ x.code = c
  BY <1>2, <1>3 DEF Done
<1> HIDE DEF rest
<1>5. /\ x.code # <<"FindExisting">>
      /\ Unread(x) <=> s = "ReadRecipe"
      /\ Stocked(x) <=> s \notin {"ReadRecipe", "Deduct"}
      /\ Paid(x) <=> s = "Allocate"
  <2>1. s \in SaleStatements
    OBVIOUS
  <2>2. /\ c # <<"FindExisting">>
        /\ c = <<"ReadRecipe", "Deduct", "CheckPoints", "Redeem", "Earn", "Allocate", "Insert">>
             <=> s = "ReadRecipe"
        /\ c = <<"Deduct", "CheckPoints", "Redeem", "Earn", "Allocate", "Insert">>
             <=> s = "Deduct"
        /\ c \in {<<"Allocate", "Insert">>, <<"Insert">>, <<"FindExisting">>, <<>>}
             <=> s = "Allocate"
    BY ONLY <1>3, <2>1 DEF SaleStatements
  <2> QED BY ONLY <1>4, <2>2 DEF Unread, Stocked, Paid
<1>6. /\ y.code # <<"FindExisting">>
      /\ ~Unread(y)
      /\ Stocked(y) <=> s # "ReadRecipe"
      /\ Paid(y) <=> s \in {"Earn", "Allocate"}
  <2>1. s \in SaleStatements
    OBVIOUS
  <2>2. /\ rest # <<"FindExisting">>
        /\ rest # <<"ReadRecipe", "Deduct", "CheckPoints", "Redeem", "Earn", "Allocate", "Insert">>
        /\ rest = <<"Deduct", "CheckPoints", "Redeem", "Earn", "Allocate", "Insert">>
             <=> s = "ReadRecipe"
        /\ rest \in {<<"Allocate", "Insert">>, <<"Insert">>, <<"FindExisting">>, <<>>}
             <=> s \in {"Earn", "Allocate"}
    BY ONLY <1>3, <2>1 DEF SaleStatements
  <2> QED BY ONLY <1>4, <2>2 DEF Unread, Stocked, Paid
<1> QED BY <1>3, <1>4, <1>5, <1>6 DEF SaleAt

LEMMA ThrowCarry ==
  ASSUME OrdersInv, NEW t \in Txns, Throw(t)
  PROVE  Carries(t)
<1>1. /\ Aside(t) /\ tx'[t] = Idle
      /\ \A p \in Shared : Delta(t, p)' = 0
  BY UndoDelta DEF Throw
<1> QED BY <1>1, IdleNotes, Carry DEF Shared

\* A statement of a sale that writes no shared row and changes no amount.
LEMMA SaleCarry ==
  ASSUME OrdersInv, LifeInv, NEW t \in Txns,
         NEW s \in {"ReadRecipe", "CheckPoints", "Allocate"}, Runs(t, s),
         NEW y, tx' = [tx EXCEPT ![t] = y], Done(tx[t], y),
         y.ask = tx[t].ask,
         y.recipe = IF s = "ReadRecipe" THEN recipe[tx[t].draft.product] ELSE tx[t].recipe,
         y.draft.product = tx[t].draft.product, y.draft.member = tx[t].draft.member,
         y.draft.used = tx[t].draft.used, y.draft.earned = tx[t].draft.earned,
         y.draft.redeemed = tx[t].draft.redeemed, UNCHANGED <<db, committed, lock>>
  PROVE  Carries(t)
<1>1. SaleAt(s, tx[t], y)
  BY SaleSpots DEF SaleStatements
<1>2. tx'[t] = y /\ \A u \in Txns \ {t} : tx'[u] = tx[u]
  BY DEF OrdersInv, TxInv
<1>3. \A u \in Txns : \A p \in Shared : Delta(u, p)' = Delta(u, p)
  BY DEF Delta
<1>4. Aside(t)
  BY <1>2, <1>3 DEF Aside
<1>5. (\A i : StockDue(y, i) = StockDue(tx[t], i)) /\ PointsDue(y) = PointsDue(tx[t])
  BY <1>1, SaleDue DEF SaleAt
<1>6. ASSUME StockBooks PROVE StockNotes(y) /\ \A i \in Items : Delta(t, i)' = StockDue(y, i)
  <2>1. StockOwn(t) /\ recipe = InitialRecipe
    BY <1>6 DEF StockBooks
  <2>2. \A i \in Items : Delta(t, i)' = StockDue(y, i)
    BY <1>3, <1>5, <2>1 DEF StockOwn, Shared
  <2>3. StockNotes(tx[t])
    BY <2>1 DEF StockOwn
  <2>4. StockNotes(y)
    BY <1>1, <2>1, <2>3 DEF StockNotes, SaleAt, Reversals
  <2> QED BY <2>2, <2>4
<1>7. ASSUME PointsBooks PROVE PointsNotes(y) /\ Delta(t, Member)' = PointsDue(y)
  <2>1. PointsOwn(t)
    BY <1>7 DEF PointsBooks
  <2>2. PointsNotes(y)
    BY <1>1, <2>1 DEF PointsOwn, PointsNotes, SaleAt, Reversals
  <2> QED BY <1>3, <1>5, <2>1, <2>2 DEF PointsOwn, Shared
<1> QED BY <1>2, <1>4, <1>6, <1>7, Carry

LEMMA ReadRecipeCarry ==
  ASSUME OrdersInv, LifeInv, NEW t \in Txns, ReadRecipe(t)
  PROVE  Carries(t)
<1>1. Runs(t, "ReadRecipe") /\ tx[t] \in TxRecords
  BY SpotOf DEF ReadRecipe
<1>2. CASE Throw(t)
  BY <1>2, ThrowCarry
<1>3. CASE Continue(t, [tx[t] EXCEPT !.recipe = recipe[tx[t].draft.product]]) /\ ReadOnly
  <2> DEFINE z == [tx[t] EXCEPT !.recipe = recipe[tx[t].draft.product]]
             y == [z EXCEPT !.code = Tail(@)]
  <2>1. /\ y.op = tx[t].op /\ y.code = Tail(tx[t].code) /\ y.ask = tx[t].ask
        /\ y.draft = tx[t].draft /\ y.recipe = recipe[tx[t].draft.product]
    BY <1>1 DEF TxRecords
  <2>2. tx' = [tx EXCEPT ![t] = y] /\ UNCHANGED <<db, committed, lock>>
    BY <1>3 DEF Continue, ReadOnly
  <2> HIDE DEF y
  <2>3. Done(tx[t], y)
    BY <2>1 DEF Done
  <2>4. y.recipe = IF "ReadRecipe" = "ReadRecipe" THEN recipe[tx[t].draft.product] ELSE tx[t].recipe
    BY <2>1
  <2> QED BY <1>1, <2>1, <2>2, <2>3, <2>4, SaleCarry
<1> QED BY <1>2, <1>3 DEF ReadRecipe

LEMMA CheckPointsCarry ==
  ASSUME OrdersInv, LifeInv, NEW t \in Txns, CheckPoints(t)
  PROVE  Carries(t)
<1>1. Runs(t, "CheckPoints") /\ tx[t] \in TxRecords
  BY SpotOf DEF CheckPoints
<1>2. CASE Throw(t)
  BY <1>2, ThrowCarry
<1>3. CASE Continue(t, tx[t]) /\ ReadOnly
  <2> DEFINE y == [tx[t] EXCEPT !.code = Tail(@)]
  <2>1. /\ y.op = tx[t].op /\ y.code = Tail(tx[t].code) /\ y.ask = tx[t].ask
        /\ y.draft = tx[t].draft /\ y.recipe = tx[t].recipe
    BY <1>1 DEF TxRecords
  <2>2. tx' = [tx EXCEPT ![t] = y] /\ UNCHANGED <<db, committed, lock>>
    BY <1>3 DEF Continue, ReadOnly
  <2> HIDE DEF y
  <2>3. Done(tx[t], y)
    BY <2>1 DEF Done
  <2> QED BY <1>1, <2>1, <2>2, <2>3, SaleCarry
<1> QED BY <1>2, <1>3 DEF CheckPoints

LEMMA AllocateCarry ==
  ASSUME OrdersInv, LifeInv, NEW t \in Txns, Allocate(t)
  PROVE  Carries(t)
<1>1. Runs(t, "Allocate") /\ tx[t] \in TxRecords
  BY SpotOf DEF Allocate
<1>2. PICK n : Continue(t, [tx[t] EXCEPT !.draft.queue = n, !.draft.day = today])
  BY DEF Allocate
<1> DEFINE d == [tx[t].draft EXCEPT !.queue = n, !.day = today]
           z == [tx[t] EXCEPT !.draft = d]
           y == [z EXCEPT !.code = Tail(@)]
<1>3. /\ y.op = tx[t].op /\ y.code = Tail(tx[t].code) /\ y.ask = tx[t].ask
      /\ y.draft = d /\ y.recipe = tx[t].recipe
  BY <1>1 DEF TxRecords
<1>4. /\ d.product = tx[t].draft.product /\ d.member = tx[t].draft.member
      /\ d.used = tx[t].draft.used /\ d.earned = tx[t].draft.earned
      /\ d.redeemed = tx[t].draft.redeemed
  BY <1>1 DEF TxRecords, OrderRow
<1>5. tx' = [tx EXCEPT ![t] = y] /\ UNCHANGED <<db, committed, lock>>
  <2>1. UNCHANGED <<db, committed, lock>>
    BY DEF Allocate, ReadOnly
  <2> QED BY <1>2, <2>1 DEF Continue
<1> HIDE DEF y, d
<1>6. Done(tx[t], y)
  BY <1>3 DEF Done
<1> QED BY <1>1, <1>3, <1>4, <1>5, <1>6, SaleCarry

LEMMA DeductCarry ==
  ASSUME OrdersInv, LifeInv, NEW t \in Txns, Deduct(t)
  PROVE  Carries(t)
<1>4. PICK i : i = ItemOf[tx[t].draft.product]
  OBVIOUS
<1>5. PICK q : q = tx[t].recipe
  OBVIOUS
<1> DEFINE d == [tx[t].draft EXCEPT !.used = q]
           z == [tx[t] EXCEPT !.draft = d]
           y == [z EXCEPT !.code = Tail(@)]
<1>1. Runs(t, "Deduct") /\ tx[t] \in TxRecords /\ i \in Items
  BY <1>4, SpotOf, SaleDraft DEF Deduct, Creation
<1>2. CASE Throw(t)
  BY <1>2, ThrowCarry
<1>3. CASE WriteIf(t, q > 0, i, db[i] - q) /\ Continue(t, z)
  <2>1. /\ y.op = tx[t].op /\ y.code = Tail(tx[t].code) /\ y.ask = tx[t].ask
        /\ y.draft = d /\ y.recipe = q
    BY <1>1, <1>5 DEF TxRecords
  <2>2. /\ d.product = tx[t].draft.product /\ d.member = tx[t].draft.member
        /\ d.used = q /\ d.earned = tx[t].draft.earned /\ d.redeemed = tx[t].draft.redeemed
    BY <1>1 DEF TxRecords, OrderRow
  <2>3. tx' = [tx EXCEPT ![t] = y]
    BY <1>3 DEF Continue
  <2>4. q \in Nat
    BY <1>1, <1>5 DEF TxRecords
  <2>5. i \in Rows /\ i \in Shared /\ db[i] - q \in Int /\ db[i] \in Int /\ Member # i
        /\ Member \in Shared
    BY <1>1, <2>4, SharedRows, OrdersAssumption DEF Shared
  <2>6. PICK w : w = db[i] - q
    OBVIOUS
  <2>7. WriteIf(t, q > 0, i, w)
    BY <1>3, <2>6
  <2>8. /\ UNCHANGED committed
        /\ \A u \in Txns \ {t} : \A p \in Shared : Delta(u, p)' = Delta(u, p)
        /\ \A p \in Shared \ {i} : Delta(t, p)' = Delta(t, p)
        /\ ~(q > 0) => \A p \in Shared : Delta(t, p)' = Delta(t, p)
        /\ q > 0 => Delta(t, i)' = Delta(t, i) + (w - db[i])
    BY <2>5, <2>6, <2>7, WriteDelta
  <2> HIDE DEF y, d, z
  <2>9. Done(tx[t], y)
    BY <2>1 DEF Done
  <2>10. SaleAt("Deduct", tx[t], y)
    BY <1>1, <2>9, SaleSpots DEF SaleStatements
  <2>11. tx'[t] = y /\ \A u \in Txns \ {t} : tx'[u] = tx[u]
    BY <2>3 DEF OrdersInv, TxInv
  <2>12. Aside(t)
    BY <2>8, <2>11 DEF Aside
  <2>13. ASSUME StockBooks PROVE StockNotes(y) /\ \A p \in Items : Delta(t, p)' = StockDue(y, p)
    <3>1. StockOwn(t)
      BY <2>13 DEF StockBooks
    <3>2. tx[t].draft.used = 0 /\ q = InitialRecipe[tx[t].draft.product]
      BY <1>5, <2>10, <3>1 DEF StockOwn, StockNotes, SaleAt
    <3>3. StockNotes(y)
      BY <2>1, <2>2, <2>10, <3>2 DEF StockNotes, SaleAt, Reversals
    <3>4. ASSUME NEW p \in Items PROVE Delta(t, p)' = StockDue(y, p)
      <4>1. StockDue(y, p) = IF i = p THEN 0 - q ELSE 0
        BY <1>4, <2>1, <2>2, <2>10, SaleDue DEF SaleAt
      <4>2. Delta(t, p) = 0
        <5>1. Delta(t, p) = StockDue(tx[t], p)
          BY <3>1 DEF StockOwn
        <5>2. StockDue(tx[t], p) = IF i = p THEN 0 - tx[t].draft.used ELSE 0
          BY <1>4, <2>10, SaleDue DEF SaleAt
        <5> QED BY <3>2, <5>1, <5>2
      <4>3. CASE p # i
        BY <2>8, <4>1, <4>2, <4>3 DEF Shared
      <4>4. CASE p = i
        BY <2>4, <2>5, <2>6, <2>8, <4>1, <4>2, <4>4
      <4> QED BY <4>3, <4>4
    <3> QED BY <3>3, <3>4
  <2>14. ASSUME PointsBooks PROVE PointsNotes(y) /\ Delta(t, Member)' = PointsDue(y)
    <3>1. PointsOwn(t)
      BY <2>14 DEF PointsBooks
    <3>2. PointsNotes(y)
      BY <2>1, <2>2, <2>10, <3>1 DEF PointsOwn, PointsNotes, SaleAt, Reversals
    <3>3. PointsDue(y) = PointsDue(tx[t])
      BY <2>1, <2>2, <2>10, SaleDue DEF SaleAt
    <3> QED BY <2>5, <2>8, <3>1, <3>2, <3>3 DEF PointsOwn
  <2> QED BY <2>11, <2>12, <2>13, <2>14, Carry
<1> QED BY <1>2, <1>3, <1>4, <1>5 DEF Deduct

\* Points taken or given in a sale.
LEMMA DraftedCarry ==
  ASSUME OrdersInv, LifeInv, NEW t \in Txns, NEW s \in {"Redeem", "Earn"}, Runs(t, s),
         NEW needed, NEW value, WriteIf(t, needed, Member, value),
         NEW d, Continue(t, [tx[t] EXCEPT !.draft = d]),
         d.product = tx[t].draft.product, d.member = tx[t].draft.member,
         d.used = tx[t].draft.used,
         PointsBooks /\ Redemptions \subseteq {0} =>
           /\ d.redeemed = 0 /\ Delta(t, Member)' = d.earned /\ d.earned \in Nat
           /\ s = "Redeem" \/ ~d.member => d.earned = 0
  PROVE  Carries(t)
<1> DEFINE z == [tx[t] EXCEPT !.draft = d]
           y == [z EXCEPT !.code = Tail(@)]
<1>1. tx[t] \in TxRecords
  BY SpotOf
<1>2. /\ y.op = tx[t].op /\ y.code = Tail(tx[t].code) /\ y.ask = tx[t].ask
      /\ y.draft = d /\ y.recipe = tx[t].recipe
  BY <1>1 DEF TxRecords
<1>3. tx' = [tx EXCEPT ![t] = y]
  BY DEF Continue
<1>4. Member \in Rows /\ Member \in Shared /\ \A i \in Items : i \in Shared \ {Member}
  BY OrdersAssumption DEF Rows, Shared
<1>5. /\ UNCHANGED committed
      /\ \A u \in Txns \ {t} : \A p \in Shared : Delta(u, p)' = Delta(u, p)
      /\ \A p \in Items : Delta(t, p)' = Delta(t, p)
  BY <1>4, WriteDelta
<1> HIDE DEF y, z
<1>6. SaleAt(s, tx[t], y)
  BY <1>2, SaleSpots DEF SaleStatements, Done
<1>7. tx'[t] = y /\ \A u \in Txns \ {t} : tx'[u] = tx[u]
  BY <1>3 DEF OrdersInv, TxInv
<1>8. Aside(t)
  BY <1>5, <1>7 DEF Aside
<1>9. ASSUME StockBooks PROVE StockNotes(y) /\ \A p \in Items : Delta(t, p)' = StockDue(y, p)
  <2>1. StockOwn(t)
    BY <1>9 DEF StockBooks
  <2>2. StockNotes(y)
    BY <1>2, <1>6, <2>1 DEF StockOwn, StockNotes, SaleAt, Reversals
  <2>4. y.draft.product = tx[t].draft.product /\ y.draft.used = tx[t].draft.used
    BY <1>2
  <2>3. \A p \in Items : StockDue(y, p) = StockDue(tx[t], p)
    BY <1>6, <2>4, SaleDue DEF SaleAt
  <2> QED BY <1>5, <2>1, <2>2, <2>3 DEF StockOwn
<1>10. ASSUME PointsBooks, Redemptions \subseteq {0}
       PROVE  PointsNotes(y) /\ Delta(t, Member)' = PointsDue(y)
  <2>1. PointsNotes(tx[t])
    BY <1>10 DEF PointsBooks, PointsOwn
  <2>2. /\ d.redeemed = 0 /\ Delta(t, Member)' = d.earned /\ d.earned \in Nat
        /\ s = "Redeem" \/ ~d.member => d.earned = 0
    BY <1>10
  <2>3. PointsNotes(y)
    BY <1>2, <1>6, <2>1, <2>2 DEF PointsNotes, SaleAt, Reversals
  <2>4. PointsDue(y) = d.earned - d.redeemed
    BY <1>2, <1>6, SaleDue DEF SaleAt
  <2> QED BY <2>2, <2>3, <2>4
<1> QED BY <1>7, <1>8, <1>9, <1>10, Carry

LEMMA RedeemCarry ==
  ASSUME OrdersInv, LifeInv, NEW t \in Txns, Redeem(t)
  PROVE  Carries(t)
<1>1. PICK x : x = tx[t]
  OBVIOUS
<1>2. PICK absorbed : absorbed = Price[x.draft.product] * PointsPerUnit
  OBVIOUS
<1>3. PICK r : r = IF x.ask < absorbed THEN x.ask ELSE absorbed
  OBVIOUS
<1>4. PICK d : d = [x.draft EXCEPT !.redeemed = r]
  OBVIOUS
<1>5. /\ Runs(t, "Redeem") /\ x \in TxRecords /\ absorbed \in Nat /\ x.draft \in OrderRow
      /\ Member \in Rows /\ Member \in Shared
  BY <1>1, <1>2, SpotOf, SaleDraft, RowKinds DEF Redeem, Creation, Shared
<1>6. /\ d.product = x.draft.product /\ d.member = x.draft.member
      /\ d.used = x.draft.used /\ d.earned = x.draft.earned /\ d.redeemed = r
  BY <1>4, <1>5 DEF OrderRow
<1>7. WriteIf(t, r > 0, Member, db[Member] - r) /\ Continue(t, [tx[t] EXCEPT !.draft = d])
  BY <1>1, <1>2, <1>3, <1>4 DEF Redeem
<1>8. ASSUME PointsBooks, Redemptions \subseteq {0}
      PROVE  d.redeemed = 0 /\ Delta(t, Member)' = d.earned /\ d.earned = 0 /\ d.earned \in Nat
  <2>1. PointsOwn(t) /\ x.op = "create" /\ ~Paid(x) /\ x.code # <<"FindExisting">>
    <3>1. PointsOwn(t)
      BY <1>8 DEF PointsBooks
    <3>2. PICK y : y = [op |-> x.op, code |-> Tail(x.code)]
      OBVIOUS
    <3>3. Done(tx[t], y)
      BY <1>1, <3>2 DEF Done
    <3>4. SaleAt("Redeem", tx[t], y)
      BY <1>5, <3>3, SaleSpots DEF SaleStatements
    <3> QED BY <1>1, <3>1, <3>4 DEF SaleAt
  <2>2. x.ask = 0 /\ x.draft.redeemed = 0 /\ x.draft.earned = 0
    BY <1>1, <2>1 DEF PointsOwn, PointsNotes
  <2>3. r = 0
    BY <1>3, <1>5, <2>2
  <2>4. Delta(t, Member) = 0
    BY <1>1, <2>1, <2>2, SaleDue DEF PointsOwn
  <2>5. Delta(t, Member)' = Delta(t, Member)
    <3>1. ~(r > 0)
      BY <2>3
    <3>2. ~(r > 0) => \A p \in Shared : Delta(t, p)' = Delta(t, p)
      BY <1>5, <1>7, WriteDelta, Zenon
    <3> QED BY <1>5, <3>1, <3>2
  <2> QED BY <1>6, <2>2, <2>3, <2>4, <2>5
<1> QED BY <1>1, <1>5, <1>6, <1>7, <1>8, DraftedCarry

LEMMA EarnCarry ==
  ASSUME OrdersInv, LifeInv, NEW t \in Txns, Earn(t)
  PROVE  Carries(t)
<1>1. PICK x : x = tx[t]
  OBVIOUS
<1>2. PICK e : e = IF x.draft.member THEN PointsEarned(x.draft.product, x.draft.redeemed) ELSE 0
  OBVIOUS
<1>3. PICK d : d = [x.draft EXCEPT !.earned = e]
  OBVIOUS
<1>4. /\ Runs(t, "Earn") /\ x \in TxRecords /\ x.draft \in OrderRow /\ e \in Nat
      /\ Member \in Rows /\ Member \in Shared
  BY <1>1, <1>2, SpotOf, SaleDraft, EarnedType, RowKinds DEF Earn, Creation, Shared
<1>5. /\ d.product = x.draft.product /\ d.member = x.draft.member
      /\ d.used = x.draft.used /\ d.earned = e /\ d.redeemed = x.draft.redeemed
  BY <1>3, <1>4 DEF OrderRow
<1>6. WriteIf(t, e > 0, Member, db[Member] + e) /\ Continue(t, [tx[t] EXCEPT !.draft = d])
  BY <1>1, <1>2, <1>3 DEF Earn
<1>7. ASSUME PointsBooks, Redemptions \subseteq {0}
      PROVE  d.redeemed = 0 /\ Delta(t, Member)' = d.earned /\ d.earned \in Nat
             /\ (~d.member => d.earned = 0)
  <2>1. PointsOwn(t) /\ x.op = "create" /\ ~Paid(x) /\ x.code # <<"FindExisting">>
    <3>1. PointsOwn(t)
      BY <1>7 DEF PointsBooks
    <3>2. PICK y : y = [op |-> x.op, code |-> Tail(x.code)]
      OBVIOUS
    <3>3. Done(tx[t], y)
      BY <1>1, <3>2 DEF Done
    <3>4. SaleAt("Earn", tx[t], y)
      BY <1>4, <3>3, SaleSpots DEF SaleStatements
    <3> QED BY <1>1, <3>1, <3>4 DEF SaleAt
  <2>2. x.draft.redeemed = 0 /\ x.draft.earned = 0
    BY <1>1, <2>1 DEF PointsOwn, PointsNotes
  <2>3. Delta(t, Member) = 0
    BY <1>1, <2>1, <2>2, SaleDue DEF PointsOwn
  <2>4. db[Member] \in Int
    BY <1>4, SharedRows
  <2>5. PICK w : w = db[Member] + e
    OBVIOUS
  <2>6. /\ ~(e > 0) => Delta(t, Member)' = Delta(t, Member)
        /\ e > 0 => Delta(t, Member)' = Delta(t, Member) + (w - db[Member])
    <3>1. WriteIf(t, e > 0, Member, w) /\ w \in Int
      BY <1>4, <1>6, <2>4, <2>5
    <3>2. /\ ~(e > 0) => \A p \in Shared : Delta(t, p)' = Delta(t, p)
          /\ e > 0 /\ Member \in Shared /\ w \in Int =>
               Delta(t, Member)' = Delta(t, Member) + (w - db[Member])
      BY <1>4, <3>1, WriteDelta, Zenon
    <3> QED BY <1>4, <3>1, <3>2
  <2> QED BY <1>2, <1>4, <1>5, <2>2, <2>3, <2>4, <2>5, <2>6
<1> QED BY <1>1, <1>4, <1>5, <1>6, <1>7, DraftedCarry

\* A statement that changes neither the stock nor the points.
LEMMA StillCarry ==
  ASSUME OrdersInv, NEW t \in Txns, NEW y, tx' = [tx EXCEPT ![t] = y], UNCHANGED committed,
         \A u \in Txns : \A p \in Shared : Delta(u, p)' = Delta(u, p),
         \A i \in Items : StockDue(y, i) = StockDue(tx[t], i), PointsDue(y) = PointsDue(tx[t]),
         StockNotes(tx[t]) /\ StockBooks => StockNotes(y),
         PointsNotes(tx[t]) /\ PointsBooks => PointsNotes(y)
  PROVE  Carries(t)
<1>1. tx'[t] = y /\ \A u \in Txns \ {t} : tx'[u] = tx[u]
  BY DEF OrdersInv, TxInv
<1>2. Aside(t)
  BY <1>1 DEF Aside
<1>3. ASSUME StockBooks PROVE StockNotes(y) /\ \A i \in Items : Delta(t, i)' = StockDue(y, i)
  <2>1. StockOwn(t)
    BY <1>3 DEF StockBooks
  <2> QED BY <1>3, <2>1 DEF StockOwn, Shared
<1>4. ASSUME PointsBooks PROVE PointsNotes(y) /\ Delta(t, Member)' = PointsDue(y)
  <2>1. PointsOwn(t)
    BY <1>4 DEF PointsBooks
  <2> QED BY <1>4, <2>1 DEF PointsOwn, Shared
<1> QED BY <1>1, <1>2, <1>3, <1>4, Carry

\* A write of the row of an order is no write of a shared one.
LEMMA OrderDelta ==
  ASSUME OrdersInv, NEW t \in Txns, NEW o \in Orders, NEW v, WriteIf(t, TRUE, o, v)
  PROVE  UNCHANGED committed /\ \A u \in Txns : \A p \in Shared : Delta(u, p)' = Delta(u, p)
<1>1. o \in Rows /\ o \notin Shared
  BY SharedRows
<1>2. /\ UNCHANGED committed
      /\ \A u \in Txns \ {t} : \A p \in Shared : Delta(u, p)' = Delta(u, p)
      /\ \A p \in Shared \ {o} : Delta(t, p)' = Delta(t, p)
  BY <1>1, WriteDelta, Zenon
<1> QED BY <1>1, <1>2

LEMMA InsertCarry ==
  ASSUME OrdersInv, LifeInv, NEW t \in Txns, Insert(t)
  PROVE  Carries(t)
<1>1. PICK x : x = tx[t]
  OBVIOUS
<1>2. x \in TxRecords /\ x.op = "create" /\ x.code = <<"Insert">>
  <2>1. Runs(t, "Insert")
    BY DEF Insert
  <2> QED BY <1>1, <2>1, SpotOf, Spots
<1>a. PICK o \in Orders : \E v, e : /\ WriteIf(t, TRUE, o, v)
                                   /\ Continue(t, [x EXCEPT !.order = o, !.events = e])
  BY <1>1 DEF Insert
<1>3. PICK v, e : /\ WriteIf(t, TRUE, o, v)
                 /\ Continue(t, [x EXCEPT !.order = o, !.events = e])
  BY <1>a
<1> DEFINE z == [x EXCEPT !.order = o, !.events = e]
<1>4. PICK y : y = [z EXCEPT !.code = Tail(@)]
  OBVIOUS
<1>5. /\ y.op = "create" /\ y.draft = x.draft /\ y.code = Tail(x.code) /\ y.recipe = x.recipe
      /\ y.ask = x.ask
  BY <1>2, <1>4 DEF TxRecords
<1>6. y.code = <<>>
  BY <1>2, <1>5, Codes
<1>7. tx' = [tx EXCEPT ![t] = y]
  BY <1>3, <1>4 DEF Continue
<1>8. UNCHANGED committed /\ \A u \in Txns : \A p \in Shared : Delta(u, p)' = Delta(u, p)
  BY <1>3, OrderDelta
<1>9. /\ x.code # <<"FindExisting">> /\ ~Unread(x) /\ Stocked(x) /\ Paid(x)
      /\ y.code # <<"FindExisting">> /\ ~Unread(y) /\ Stocked(y) /\ Paid(y)
      /\ y.op \notin Reversals
  BY <1>2, <1>5, <1>6 DEF Unread, Stocked, Paid, Reversals
<1>10. (\A i : StockDue(y, i) = StockDue(x, i)) /\ PointsDue(y) = PointsDue(x)
  BY <1>2, <1>5, <1>9, SaleDue
<1>11. StockNotes(x) => StockNotes(y)
  BY <1>2, <1>5, <1>9 DEF StockNotes
<1>12. PointsNotes(x) => PointsNotes(y)
  BY <1>2, <1>5, <1>9 DEF PointsNotes
<1> QED BY <1>1, <1>7, <1>8, <1>10, <1>11, <1>12, StillCarry

LEMMA InsertRepeatedCarry ==
  ASSUME OrdersInv, LifeInv, NEW t \in Txns, InsertRepeated(t)
  PROVE  Carries(t)
<1>1. PICK x : x = tx[t]
  OBVIOUS
<1>2. PICK y : y = [x EXCEPT !.code = <<"FindExisting">>]
  OBVIOUS
<1>3. Runs(t, "Insert") /\ RollBackTo(t, y)
  BY <1>1, <1>2 DEF InsertRepeated
<1>4. x \in TxRecords /\ x.op = "create" /\ x.code = <<"Insert">>
  BY <1>1, <1>3, SpotOf, Spots
<1>5. /\ y.op = "create" /\ y.code = <<"FindExisting">> /\ y.draft = x.draft
      /\ y.recipe = x.recipe /\ y.ask = x.ask
  BY <1>2, <1>4 DEF TxRecords
<1>6. Aside(t) /\ tx'[t] = y /\ \A p \in Shared : Delta(t, p)' = 0
  BY <1>3, UndoDelta
<1>7. /\ ~Unread(x) /\ Stocked(x) /\ Paid(x) /\ ~Unread(y) /\ Stocked(y) /\ Paid(y)
      /\ y.op \notin Reversals
  BY <1>4, <1>5 DEF Unread, Stocked, Paid, Reversals
<1>8. (\A i : StockDue(y, i) = 0) /\ PointsDue(y) = 0
  BY <1>5, <1>7 DEF StockDue, PointsDue
<1>9. StockBooks => StockNotes(y)
  BY <1>1, <1>4, <1>5, <1>7 DEF StockBooks, StockOwn, StockNotes
<1>10. PointsBooks => PointsNotes(y)
  BY <1>1, <1>4, <1>5, <1>7 DEF PointsBooks, PointsOwn, PointsNotes
<1>11. \A i \in Items : i \in Shared
  BY DEF Shared
<1>12. Member \in Shared
  BY DEF Shared
<1> QED BY <1>6, <1>8, <1>9, <1>10, <1>11, <1>12, Carry

LEMMA InsertOutrunCarry ==
  ASSUME OrdersInv, LifeInv, NEW t \in Txns, InsertOutrun(t)
  PROVE  Carries(t)
<1>1. PICK x : x = tx[t]
  OBVIOUS
<1> DEFINE d == [NoOrder EXCEPT !.product = x.draft.product, !.request = x.draft.request,
                                !.member = x.draft.member]
<1>2. PICK y : y = [Idle EXCEPT !.op = "create", !.code = Program["create"], !.ask = x.ask,
                                !.attempt = x.attempt + 1, !.draft = d]
  OBVIOUS
<1>3. CASE Throw(t)
  BY <1>3, ThrowCarry
<1>4. CASE RollBackTo(t, y)
  <2>1. /\ y.op = "create" /\ y.code = Program["create"] /\ y.ask = x.ask /\ y.draft = d
    BY <1>2 DEF Idle
  <2>2. d.used = 0 /\ d.earned = 0 /\ d.redeemed = 0
    BY DEF NoOrder
  <2>3. Unread(y)
    BY <2>1 DEF Unread, Program
  <2> HIDE DEF d
  <2>4. /\ \A i : StockDue(y, i) = 0
        /\ PointsDue(y) = 0 /\ StockNotes(y) /\ (y.ask = 0 => PointsNotes(y))
    BY <2>1, <2>2, <2>3, SellNotes
  <2>5. Aside(t) /\ tx'[t] = y /\ \A p \in Shared : Delta(t, p)' = 0
    BY <1>4, UndoDelta
  <2>6. PointsBooks => x.ask = 0
    <3>1. Runs(t, "Insert")
      BY DEF InsertOutrun
    <3>2. x.op = "create"
      BY <1>1, <3>1, Running DEF Creation
    <3> QED BY <1>1, <3>2 DEF PointsBooks, PointsOwn, PointsNotes
  <2> QED BY <2>1, <2>4, <2>5, <2>6, Carry DEF Shared
<1> QED BY <1>1, <1>2, <1>3, <1>4 DEF InsertOutrun

LEMMA FindExistingCarry ==
  ASSUME OrdersInv, LifeInv, NEW t \in Txns, FindExisting(t)
  PROVE  Carries(t)
<1>1. Runs(t, "FindExisting") /\ tx' = [tx EXCEPT ![t] = Idle] /\ UNCHANGED <<db, committed, lock>>
  BY DEF FindExisting
<1>2. \A r \in Rows : lock[r] # t
  BY <1>1, Running DEF OrdersInv, TxInv, Holdings, HoldsNothing
<1>3. tx'[t] = Idle /\ \A u \in Txns \ {t} : tx'[u] = tx[u]
  BY <1>1 DEF OrdersInv, TxInv
<1>4. /\ \A u \in Txns : \A p \in Shared : Delta(u, p)' = Delta(u, p)
      /\ \A p \in Shared : Delta(t, p)' = 0
  BY <1>1, <1>2, SharedRows DEF Delta
<1>5. Aside(t)
  BY <1>1, <1>3, <1>4 DEF Aside
<1> QED BY <1>3, <1>4, <1>5, IdleNotes, Carry DEF Shared

\* A beginning: nothing is changed yet.
LEMMA StartCarry ==
  ASSUME OrdersInv, LifeInv, NEW t \in Txns, NEW x, Begin(t, x), x.op \in OpNames,
         NEW y, y = [x EXCEPT !.code = Program[x.op]],
         y.op = x.op, y.code = Program[x.op],
         y.op = "create" => /\ y.draft.used = 0 /\ y.draft.earned = 0 /\ y.draft.redeemed = 0
                            /\ y.ask \in Redemptions,
         y.op \in Reversals => y.recipe = recipe[y.draft.product]
  PROVE  Carries(t)
<1>1. tx[t].op = "none" /\ tx' = [tx EXCEPT ![t] = y] /\ UNCHANGED <<db, committed, lock>>
  BY DEF Begin
<1>2. tx'[t] = y /\ \A u \in Txns \ {t} : tx'[u] = tx[u]
  BY <1>1 DEF OrdersInv, TxInv
<1>3. \A r \in Rows : lock[r] # t
  BY <1>1 DEF OrdersInv, TxInv, Holdings, HoldsNothing
<1>4. /\ \A u \in Txns : \A p \in Shared : Delta(u, p)' = Delta(u, p)
      /\ \A p \in Shared : Delta(t, p)' = 0
  BY <1>1, <1>3, SharedRows DEF Delta
<1>5. Aside(t)
  BY <1>1, <1>2, <1>4 DEF Aside
<1>6. /\ \A i : StockDue(y, i) = 0
      /\ PointsDue(y) = 0
      /\ StockBooks => StockNotes(y)
      /\ Redemptions \subseteq {0} => PointsNotes(y)
  <2>1. CASE y.op = "create"
    <3>1. Unread(y)
      BY <2>1 DEF Unread, Program
    <3>2. Redemptions \subseteq {0} => y.ask = 0
      BY <2>1
    <3> QED BY <2>1, <3>1, <3>2, SellNotes
  <2>2. CASE y.op = "status"
    BY <2>2 DEF StockDue, PointsDue, StockNotes, PointsNotes, Reversals
  <2>3. CASE y.op \in Reversals
    <3>1. y.code = <<"Claim", "Restore", "Clawback">> /\ y.op # "create"
      BY <2>3 DEF Reversals, Program
    <3>2. y.code \notin {<<"Clawback">>, <<"Floor">>, <<>>}
      BY ONLY <3>1
    <3>3. (\A i : StockDue(y, i) = 0) /\ PointsDue(y) = 0
      BY <3>1, <3>2 DEF StockDue, PointsDue
    <3>4. StockBooks => StockNotes(y)
      BY <2>3, <3>1 DEF StockBooks, StockNotes
    <3>5. PointsNotes(y)
      BY <3>1, <3>2 DEF PointsNotes
    <3> QED BY <3>3, <3>4, <3>5
  <2> QED BY <2>1, <2>2, <2>3 DEF OpNames, Reversals
<1> QED BY <1>2, <1>4, <1>5, <1>6, Carry DEF Shared

LEMMA BeginsCarry ==
  ASSUME OrdersInv, LifeInv, NEW t \in Txns,
         BeginCreate(t) \/ BeginStatus(t) \/ BeginVoid(t) \/ BeginRefund(t)
  PROVE  Carries(t)
<1>1. CASE BeginCreate(t)
  <2>1. PICK p \in Products, c \in Requests \union {NoRequest}, m \in Buyers,
             ask \in Redemptions :
          Begin(t, [Idle EXCEPT !.op = "create", !.ask = ask,
                      !.draft = [NoOrder EXCEPT !.product = p, !.request = c, !.member = m]])
    BY <1>1 DEF BeginCreate
  <2> DEFINE d == [NoOrder EXCEPT !.product = p, !.request = c, !.member = m]
             x == [Idle EXCEPT !.op = "create", !.ask = ask, !.draft = d]
             y == [x EXCEPT !.code = Program[x.op]]
  <2>2. /\ x.op = "create" /\ y.op = x.op /\ y.code = Program[x.op] /\ y.ask = ask /\ y.draft = d
    BY DEF Idle
  <2>3. d.used = 0 /\ d.earned = 0 /\ d.redeemed = 0
    BY DEF NoOrder
  <2>4. Begin(t, x) /\ y = [x EXCEPT !.code = Program[x.op]]
    BY <2>1
  <2> HIDE DEF x, y, d
  <2>5. x.op \in OpNames /\ y.op \notin Reversals
    BY <2>2 DEF OpNames, Reversals
  <2> QED BY <2>2, <2>3, <2>4, <2>5, StartCarry
<1>2. CASE BeginStatus(t)
  <2>1. PICK o, read, target :
          Begin(t, [Idle EXCEPT !.op = "status", !.order = o, !.read = read, !.target = target])
    BY <1>2 DEF BeginStatus
  <2> DEFINE x == [Idle EXCEPT !.op = "status", !.order = o, !.read = read, !.target = target]
             y == [x EXCEPT !.code = Program[x.op]]
  <2>2. x.op = "status" /\ y.op = x.op /\ y.code = Program[x.op]
    BY DEF Idle
  <2>3. Begin(t, x) /\ y = [x EXCEPT !.code = Program[x.op]]
    BY <2>1
  <2> HIDE DEF x, y
  <2>4. x.op \in OpNames /\ y.op # "create" /\ y.op \notin Reversals
    BY <2>2 DEF OpNames, Reversals
  <2> QED BY <2>2, <2>3, <2>4, StartCarry
<1>3. ASSUME NEW op \in {"void", "refund"}, NEW o, NEW target, Begin(t, Reversal(op, o, target))
      PROVE  Carries(t)
  <2> DEFINE x == Reversal(op, o, target)
             y == [x EXCEPT !.code = Program[x.op]]
  <2>1. /\ x.op = op /\ y.op = x.op /\ y.code = Program[x.op] /\ y.draft = committed[o]
        /\ y.recipe = recipe[committed[o].product]
    BY DEF Reversal, Idle
  <2>2. Begin(t, x) /\ y = [x EXCEPT !.code = Program[x.op]]
    BY <1>3
  <2> HIDE DEF x, y
  <2>3. x.op \in OpNames /\ y.op # "create"
    BY <2>1 DEF OpNames
  <2> QED BY <2>1, <2>2, <2>3, StartCarry
<1>4. CASE BeginVoid(t) \/ BeginRefund(t)
  BY <1>3, <1>4 DEF BeginVoid, BeginRefund
<1> QED BY <1>1, <1>2, <1>4

LEMMA ClaimCarry ==
  ASSUME OrdersInv, LifeInv, NEW t \in Txns, Claim(t)
  PROVE  Carries(t)
<1>1. PICK x : x = tx[t]
  OBVIOUS
<1>2. PICK o : o = x.order
  OBVIOUS
<1>3. Runs(t, "Claim") /\ x \in TxRecords /\ o \in Orders
      /\ \/ x.op = "status" /\ x.code = <<"Claim">>
         \/ x.op \in Reversals /\ x.code = <<"Claim", "Restore", "Clawback">>
  <2>1. Runs(t, "Claim")
    BY DEF Claim
  <2>2. Stage(x) /\ x \in TxRecords /\ x.op # "none" /\ x.code # <<>> /\ Head(x.code) = "Claim"
    BY <1>1, <2>1, SpotOf
  <2>3. x.op \in OpNames \ {"create"} /\ Shape(x)
    BY <1>1, <2>1, Running DEF Creation
  <2>4. o \in Orders
    BY <1>2, <2>3 DEF Shape
  <2> QED BY <2>1, <2>2, <2>4, Spots
<1>4. CASE Throw(t)
  BY <1>4, ThrowCarry
<1>5. ASSUME NEW v, NEW e, WriteIf(t, TRUE, o, v), Continue(t, [x EXCEPT !.events = e])
      PROVE  Carries(t)
  <2> DEFINE z == [x EXCEPT !.events = e]
  <2>1. PICK y : y = [z EXCEPT !.code = Tail(@)]
    OBVIOUS
  <2>2. /\ y.op = x.op /\ y.draft = x.draft /\ y.code = Tail(x.code) /\ y.recipe = x.recipe
    BY <1>3, <2>1 DEF TxRecords
  <2>3. tx' = [tx EXCEPT ![t] = y]
    BY <1>5, <2>1 DEF Continue
  <2>4. UNCHANGED committed /\ \A u \in Txns : \A p \in Shared : Delta(u, p)' = Delta(u, p)
    BY <1>3, <1>5, OrderDelta
  <2>5. \/ y.op = "status"
        \/ y.op \in Reversals /\ y.code = <<"Restore", "Clawback">>
    BY <1>3, <2>2, Codes
  <2>6. x.op # "create" /\ y.op # "create"
    BY <1>3, <2>2 DEF Reversals
  <2>7. /\ y.op \notin Reversals \/ y.code \notin {<<"Clawback">>, <<"Floor">>, <<>>}
        /\ x.op \notin Reversals \/ x.code \notin {<<"Clawback">>, <<"Floor">>, <<>>}
    <3>1. <<"Restore", "Clawback">> \notin {<<"Clawback">>, <<"Floor">>, <<>>}
      OBVIOUS
    <3>2. <<"Claim", "Restore", "Clawback">> \notin {<<"Clawback">>, <<"Floor">>, <<>>}
      OBVIOUS
    <3> QED BY <1>3, <2>5, <3>1, <3>2 DEF Reversals
  <2>8. /\ \A i : StockDue(y, i) = 0 /\ StockDue(x, i) = 0
        /\ PointsDue(y) = 0 /\ PointsDue(x) = 0
    BY <2>6, <2>7 DEF StockDue, PointsDue
  <2>9. StockNotes(x) => StockNotes(y)
    BY <2>2, <2>6 DEF StockNotes
  <2>10. PointsNotes(x) => PointsNotes(y)
    BY <2>6, <2>7 DEF PointsNotes
  <2> QED BY <1>1, <2>3, <2>4, <2>8, <2>9, <2>10, StillCarry
<1> QED BY <1>1, <1>2, <1>4, <1>5 DEF Claim

\* What a reversal is due.
LEMMA ReversalDue ==
  ASSUME NEW x, x.op \in Reversals
  PROVE  /\ x.code \in {<<"Clawback">>, <<"Floor">>, <<>>} =>
              \A i : StockDue(x, i) = IF ItemOf[x.draft.product] = i THEN x.recipe ELSE 0
         /\ x.code \notin {<<"Clawback">>, <<"Floor">>, <<>>} => \A i : StockDue(x, i) = 0
         /\ x.code = <<>> =>
              PointsDue(x) = IF x.draft.member THEN x.draft.redeemed - x.draft.earned ELSE 0
         /\ x.code # <<>> => PointsDue(x) = 0
<1>1. x.op # "create"
  BY DEF Reversals
<1>2. ASSUME NEW i, x.code \in {<<"Clawback">>, <<"Floor">>, <<>>}
      PROVE  StockDue(x, i) = IF ItemOf[x.draft.product] = i THEN x.recipe ELSE 0
  BY <1>1, <1>2 DEF StockDue
<1>3. ASSUME NEW i, x.code \notin {<<"Clawback">>, <<"Floor">>, <<>>} PROVE StockDue(x, i) = 0
  BY <1>1, <1>3 DEF StockDue
<1>4. /\ x.code = <<>> =>
           PointsDue(x) = IF x.draft.member THEN x.draft.redeemed - x.draft.earned ELSE 0
      /\ x.code # <<>> => PointsDue(x) = 0
  BY <1>1 DEF PointsDue
<1> QED BY <1>2, <1>3, <1>4

\* A reversal before its last write of points, and after it.
ReversalAt(x, y) ==
  /\ x.op \in Reversals /\ y.op \in Reversals
  /\ y.draft = x.draft /\ y.recipe = x.recipe

LEMMA ReversalNotes ==
  ASSUME NEW x, NEW y, ReversalAt(x, y)
  PROVE  /\ StockNotes(x) => StockNotes(y)
         /\ y.code # <<"Floor">> => PointsNotes(y)
<1>1. x.op \in Reversals /\ y.op \in Reversals /\ x.op # "create" /\ y.op # "create"
      /\ y.draft = x.draft /\ y.recipe = x.recipe
  BY DEF ReversalAt, Reversals
<1> QED BY <1>1 DEF StockNotes, PointsNotes

LEMMA RestoreCarry ==
  ASSUME OrdersInv, LifeInv, NEW t \in Txns, Restore(t)
  PROVE  Carries(t)
<1>1. PICK x : x = tx[t]
  OBVIOUS
<1>2. PICK i : i = ItemOf[x.draft.product]
  OBVIOUS
<1>3. Runs(t, "Restore") /\ x \in TxRecords /\ i \in Items /\ x.op \in Reversals
      /\ x.code = <<"Restore", "Clawback">>
  <2>1. Runs(t, "Restore")
    BY DEF Restore
  <2>2. Shape(x) /\ x.code[1] = "Restore" /\ 1 \in 1 .. Len(x.code)
        /\ x.op \in OpNames \ {"create"}
    BY <1>1, <2>1, Running DEF Creation
  <2>3. x.draft.product \in Products
    BY <2>2 DEF Shape
  <2>4. Stage(x) /\ x \in TxRecords /\ x.op # "none" /\ x.code # <<>> /\ Head(x.code) = "Restore"
    BY <1>1, <2>1, SpotOf
  <2> QED BY <1>2, <2>1, <2>3, <2>4, Spots, ProductsAssumption
<1>4. PICK w : w = db[i] + x.recipe
  OBVIOUS
<1>5. PICK y : y = [x EXCEPT !.code = Tail(@)]
  OBVIOUS
<1>6. WriteIf(t, x.recipe > 0, i, w) /\ tx' = [tx EXCEPT ![t] = y]
  BY <1>1, <1>2, <1>4, <1>5 DEF Restore, Continue
<1>7. y.op = x.op /\ y.draft = x.draft /\ y.recipe = x.recipe /\ y.code = <<"Clawback">>
  BY <1>3, <1>5, Codes DEF TxRecords
<1>8. x.recipe \in Nat
  BY <1>3 DEF TxRecords
<1>9. /\ i \in Rows /\ i \in Shared /\ w \in Int /\ db[i] \in Int /\ Member # i
      /\ Member \in Shared
  BY <1>3, <1>4, <1>8, SharedRows, OrdersAssumption DEF Shared
<1>10. /\ UNCHANGED committed
       /\ \A u \in Txns \ {t} : \A p \in Shared : Delta(u, p)' = Delta(u, p)
       /\ \A p \in Shared \ {i} : Delta(t, p)' = Delta(t, p)
       /\ ~(x.recipe > 0) => \A p \in Shared : Delta(t, p)' = Delta(t, p)
       /\ x.recipe > 0 => Delta(t, i)' = Delta(t, i) + (w - db[i])
  BY <1>6, <1>9, WriteDelta
<1>11. tx'[t] = y /\ \A u \in Txns \ {t} : tx'[u] = tx[u]
  BY <1>6 DEF OrdersInv, TxInv
<1>12. Aside(t)
  BY <1>10, <1>11 DEF Aside
<1>13. ReversalAt(x, y)
  BY <1>3, <1>7 DEF ReversalAt
<1>14. x.code \notin {<<"Clawback">>, <<"Floor">>, <<>>} /\ x.code # <<>>
  <2>1. <<"Restore", "Clawback">> \notin {<<"Clawback">>, <<"Floor">>, <<>>}
    OBVIOUS
  <2> QED BY <1>3, <2>1
<1>15. y.code \in {<<"Clawback">>, <<"Floor">>, <<>>} /\ y.code # <<>> /\ y.code # <<"Floor">>
  <2>1. <<"Clawback">> # <<>> /\ <<"Clawback">> # <<"Floor">>
    OBVIOUS
  <2> QED BY <1>7, <2>1
<1>16. /\ \A p : StockDue(x, p) = 0
       /\ \A p : StockDue(y, p) = IF i = p THEN x.recipe ELSE 0
       /\ PointsDue(x) = 0 /\ PointsDue(y) = 0
  BY <1>2, <1>3, <1>7, <1>14, <1>15, ReversalDue
<1>17. ASSUME StockBooks PROVE StockNotes(y) /\ \A p \in Items : Delta(t, p)' = StockDue(y, p)
  <2>1. StockNotes(x) /\ \A p \in Items : Delta(t, p) = 0
    BY <1>1, <1>16, <1>17 DEF StockBooks, StockOwn
  <2>2. StockNotes(y)
    BY <1>13, <2>1, ReversalNotes
  <2>3. ASSUME NEW p \in Items PROVE Delta(t, p)' = StockDue(y, p)
    <3>1. CASE p # i
      BY <1>10, <1>16, <2>1, <3>1 DEF Shared
    <3>2. CASE p = i
      BY <1>4, <1>8, <1>9, <1>10, <1>16, <2>1, <3>2
    <3> QED BY <3>1, <3>2
  <2> QED BY <2>2, <2>3
<1>18. ASSUME PointsBooks PROVE PointsNotes(y) /\ Delta(t, Member)' = PointsDue(y)
  <2>1. Delta(t, Member) = 0
    BY <1>1, <1>16, <1>18 DEF PointsBooks, PointsOwn
  <2>2. PointsNotes(y)
    BY <1>13, <1>15, ReversalNotes
  <2> QED BY <1>9, <1>10, <1>16, <2>1, <2>2
<1> QED BY <1>11, <1>12, <1>17, <1>18, Carry

\* While no points are redeemed, the balance covers what an order that stands has
\* earned.
LEMMA BalanceCovers ==
  ASSUME OrdersInv, LifeInv, PointsBooks, NEW t \in Txns, NEW x, x = tx[t],
         x.op \in Reversals, x.code = <<"Clawback">>, x.draft.member, MayWrite(t, Member)
  PROVE  /\ x.draft.redeemed = 0 /\ x.draft.earned \in Nat
         /\ db[Member] >= x.draft.earned
<1>1. PICK o : o = x.order
  OBVIOUS
<1>2. PICK S : S = {u \in Live : committed[u].member}
  OBVIOUS
<1>3. PICK g : g = [u \in S |-> Gained(u)]
  OBVIOUS
<1>4. Acted(x)
  <2>1. <<"Clawback">> # <<"Claim", "Restore", "Clawback">>
    OBVIOUS
  <2> QED BY <2>1 DEF Acted
<1>5. o \in Orders /\ Changed(x) /\ SameSale(x.draft, committed[o])
  BY <1>1, <1>4 DEF LifeInv, Life, Loaded, Reversals
<1>6. o \in S
  BY <1>1, <1>2, <1>5 DEF Changed, Live, SameSale
<1>7. S \subseteq Sold(committed)
  BY <1>2 DEF Live, Sold, Operational
<1>8. IsFiniteSet(S)
  BY <1>7, FS_Subset DEF PointsBooks
<1>9. \A u \in S : committed[u].redeemed = 0 /\ committed[u].earned \in Nat
                   /\ g[u] = committed[u].earned
  <2> TAKE u \in S
  <2>1. u \in Sold(committed)
    BY <1>7
  <2>2. committed[u].redeemed = 0
    BY <2>1 DEF PointsBooks
  <2>3. committed[u] \in OrderRow
    BY <2>1 DEF Sold, OrdersInv, RowsInv, Sound
  <2>4. committed[u].earned \in Nat
    BY <2>3 DEF OrderRow
  <2> QED BY <1>3, <2>2, <2>4 DEF Gained
<1>10. SumFunction(g) = SumFunctionOnSet(g, S)
  BY <1>3 DEF SumFunction
<1>11. SumFunctionOnSet(g, S) = g[o] + SumFunctionOnSet(g, S \ {o})
  BY <1>6, <1>8, <1>9, SumRemove
<1>12. SumFunctionOnSet(g, S \ {o}) \in Nat
  BY <1>8, <1>9, FS_RemoveElement, FS_Subset, SumNat
<1>13. x.draft.redeemed = 0 /\ x.draft.earned = g[o] /\ g[o] \in Nat
  BY <1>5, <1>6, <1>9 DEF SameSale
<1>14. committed[Member] = InitialPoints + SumFunctionOnSet(g, S)
  BY <1>2, <1>3, <1>10 DEF PointsBooks, PointsFollowOrders
<1>15. committed[Member] >= g[o]
  BY <1>11, <1>12, <1>13, <1>14, PointsAssumption
<1>16. db[Member] = committed[Member]
  <2>1. Member \in Rows /\ db[Member] \in Int /\ committed[Member] \in Int
    BY SharedRows DEF Shared
  <2>2. CASE lock[Member] = NoTxn
    BY <2>1, <2>2 DEF OrdersInv, RowsInv, FreeRowsCommitted
  <2>3. CASE lock[Member] = t
    <3>1. x.code # <<>>
      OBVIOUS
    <3>2. PointsDue(x) = 0
      BY <3>1, ReversalDue
    <3>3. Delta(t, Member) = 0
      BY <3>2 DEF PointsBooks, PointsOwn
    <3> QED BY <2>1, <2>3, <3>3 DEF Delta
  <2> QED BY <2>2, <2>3 DEF MayWrite
<1> QED BY <1>13, <1>15, <1>16

LEMMA ClawbackCarry ==
  ASSUME OrdersInv, LifeInv, NEW t \in Txns, Clawback(t)
  PROVE  Carries(t)
<1>1. PICK x : x = tx[t]
  OBVIOUS
<1>2. PICK delta : delta = x.draft.redeemed - x.draft.earned
  OBVIOUS
<1>3. Runs(t, "Clawback") /\ x \in TxRecords /\ x.op \in Reversals /\ x.code = <<"Clawback">>
  <2>1. Runs(t, "Clawback")
    BY DEF Clawback
  <2>2. Stage(x) /\ x \in TxRecords /\ x.op # "none" /\ x.code # <<>> /\ Head(x.code) = "Clawback"
    BY <1>1, <2>1, SpotOf
  <2> QED BY <2>1, <2>2, Spots
<1>4. delta \in Int /\ x.draft.earned \in Nat /\ x.draft.redeemed \in Nat
      /\ x.draft.member \in BOOLEAN
  BY <1>2, <1>3 DEF TxRecords, OrderRow
<1>5. x.code \in {<<"Clawback">>, <<"Floor">>, <<>>} /\ x.code # <<>>
  BY <1>3
<1>6. CASE /\ x.draft.member /\ delta < 0 => MayWrite(t, Member)
           /\ x.draft.member /\ delta < 0 /\ db[Member] < -delta
           /\ tx' = [tx EXCEPT ![t].code = <<"Floor">>] /\ ReadOnly
  <2>1. PICK y : y = [x EXCEPT !.code = <<"Floor">>]
    OBVIOUS
  <2>2. y.op = x.op /\ y.draft = x.draft /\ y.recipe = x.recipe /\ y.code = <<"Floor">>
    BY <1>3, <2>1 DEF TxRecords
  <2>3. tx' = [tx EXCEPT ![t] = y] /\ UNCHANGED <<db, lock, committed>>
    BY <1>1, <1>6, <2>1 DEF ReadOnly
  <2>4. \A u \in Txns : \A p \in Shared : Delta(u, p)' = Delta(u, p)
    BY <2>3 DEF Delta
  <2>5. ReversalAt(x, y)
    BY <1>3, <2>2 DEF ReversalAt
  <2>6. y.code \in {<<"Clawback">>, <<"Floor">>, <<>>} /\ y.code # <<>>
    BY <2>2
  <2>7. (\A p : StockDue(y, p) = StockDue(x, p)) /\ PointsDue(y) = PointsDue(x)
    BY <1>3, <1>5, <2>2, <2>6, ReversalDue
  <2>8. StockNotes(x) => StockNotes(y)
    BY <2>5, ReversalNotes
  <2>9. ~PointsBooks
    <3> SUFFICES ASSUME PointsBooks PROVE FALSE
      OBVIOUS
    <3>1. x.draft.redeemed = 0 /\ db[Member] >= x.draft.earned
      BY <1>1, <1>3, <1>6, BalanceCovers
    <3>2. db[Member] \in Int
      BY SharedRows DEF Shared
    <3> QED BY <1>2, <1>4, <1>6, <3>1, <3>2
  <2> QED BY <1>1, <2>3, <2>4, <2>7, <2>8, <2>9, StillCarry
<1>7. CASE WriteIf(t, x.draft.member /\ delta # 0, Member, db[Member] + delta)
           /\ Continue(t, tx[t])
  <2>1. PICK y : y = [x EXCEPT !.code = Tail(@)]
    OBVIOUS
  <2>2. y.op = x.op /\ y.draft = x.draft /\ y.recipe = x.recipe /\ y.code = <<>>
    BY <1>3, <2>1, Codes DEF TxRecords
  <2>3. tx' = [tx EXCEPT ![t] = y]
    BY <1>1, <1>7, <2>1 DEF Continue
  <2>4. PICK w : w = db[Member] + delta
    OBVIOUS
  <2>5. PICK needed \in BOOLEAN : needed <=> x.draft.member /\ delta # 0
    OBVIOUS
  <2>6. WriteIf(t, needed, Member, w)
    BY <1>7, <2>4, <2>5 DEF WriteIf
  <2>7. Member \in Rows /\ Member \in Shared /\ db[Member] \in Int /\ w \in Int
        /\ \A p \in Items : p \in Shared \ {Member}
    BY <1>4, <2>4, SharedRows, OrdersAssumption DEF Shared
  <2>8. /\ UNCHANGED committed
        /\ \A u \in Txns \ {t} : \A p \in Shared : Delta(u, p)' = Delta(u, p)
        /\ \A p \in Shared \ {Member} : Delta(t, p)' = Delta(t, p)
        /\ ~needed => \A p \in Shared : Delta(t, p)' = Delta(t, p)
        /\ needed => Delta(t, Member)' = Delta(t, Member) + (w - db[Member])
    BY <2>6, <2>7, WriteDelta
  <2>9. tx'[t] = y /\ \A u \in Txns \ {t} : tx'[u] = tx[u]
    BY <2>3 DEF OrdersInv, TxInv
  <2>10. Aside(t)
    BY <2>8, <2>9 DEF Aside
  <2>11. ReversalAt(x, y)
    BY <1>3, <2>2 DEF ReversalAt
  <2>12. y.code \in {<<"Clawback">>, <<"Floor">>, <<>>} /\ y.code = <<>> /\ y.code # <<"Floor">>
    BY <2>2
  <2>13. /\ \A p : StockDue(y, p) = StockDue(x, p)
         /\ PointsDue(x) = 0 /\ PointsDue(y) = IF x.draft.member THEN delta ELSE 0
    <3>1. y.op \in Reversals /\ (x.code # <<>>) /\ y.draft = x.draft /\ y.recipe = x.recipe
      BY <1>2, <1>3, <2>2
    <3>2. /\ \A p : StockDue(x, p) = IF ItemOf[x.draft.product] = p THEN x.recipe ELSE 0
          /\ PointsDue(x) = 0
      BY <1>2, <1>3, <3>1, ReversalDue
    <3>3. /\ \A p : StockDue(y, p) = IF ItemOf[y.draft.product] = p THEN y.recipe ELSE 0
          /\ PointsDue(y) = IF y.draft.member THEN y.draft.redeemed - y.draft.earned ELSE 0
      BY <2>12, <3>1, ReversalDue
    <3> QED BY <1>2, <1>3, <1>5, <3>1, <3>2, <3>3
  <2>14. ASSUME StockBooks PROVE StockNotes(y) /\ \A p \in Items : Delta(t, p)' = StockDue(y, p)
    <3>1. StockNotes(x) /\ \A p \in Items : Delta(t, p) = StockDue(x, p)
      BY <1>1, <2>14 DEF StockBooks, StockOwn
    <3>2. StockNotes(y)
      BY <2>11, <3>1, ReversalNotes
    <3> QED BY <2>7, <2>8, <2>13, <3>1, <3>2
  <2>15. ASSUME PointsBooks PROVE PointsNotes(y) /\ Delta(t, Member)' = PointsDue(y)
    <3>1. Delta(t, Member) = 0
      BY <1>1, <2>13, <2>15 DEF PointsBooks, PointsOwn
    <3>2. PointsNotes(y)
      BY <2>11, <2>12, ReversalNotes
    <3>3. CASE needed
      <4>1. Delta(t, Member)' = 0 + (w - db[Member])
        BY <2>8, <3>1, <3>3
      <4>2. PointsDue(y) = delta
        BY <2>5, <2>13, <3>3
      <4> QED BY <1>4, <2>4, <2>7, <3>2, <4>1, <4>2
    <3>4. CASE ~needed
      <4>1. Delta(t, Member)' = 0
        BY <2>7, <2>8, <3>1, <3>4
      <4>2. PointsDue(y) = 0
        BY <2>5, <2>13, <3>4
      <4> QED BY <3>2, <4>1, <4>2
    <3> QED BY <3>3, <3>4
  <2> QED BY <2>9, <2>10, <2>14, <2>15, Carry
<1> QED BY <1>1, <1>2, <1>6, <1>7 DEF Clawback

LEMMA FloorCarry ==
  ASSUME OrdersInv, LifeInv, NEW t \in Txns, Floor(t)
  PROVE  Carries(t)
<1>1. PICK x : x = tx[t]
  OBVIOUS
<1>2. Runs(t, "Floor") /\ x \in TxRecords /\ x.op \in Reversals /\ x.code = <<"Floor">>
  <2>1. Runs(t, "Floor")
    BY DEF Floor
  <2>2. Stage(x) /\ x \in TxRecords /\ x.op # "none" /\ x.code # <<>> /\ Head(x.code) = "Floor"
    BY <1>1, <2>1, SpotOf
  <2> QED BY <2>1, <2>2, Spots
<1>3. PICK y : y = [x EXCEPT !.code = Tail(@)]
  OBVIOUS
<1>4. y.op = x.op /\ y.draft = x.draft /\ y.recipe = x.recipe /\ y.code = <<>>
  BY <1>2, <1>3, Codes DEF TxRecords
<1>5. WriteIf(t, TRUE, Member, 0) /\ tx' = [tx EXCEPT ![t] = y]
  BY <1>1, <1>3 DEF Floor, Continue
<1>6. Member \in Rows /\ \A p \in Items : p \in Shared \ {Member}
  BY SharedRows, OrdersAssumption DEF Shared
<1>7. /\ UNCHANGED committed
      /\ \A u \in Txns \ {t} : \A p \in Shared : Delta(u, p)' = Delta(u, p)
      /\ \A p \in Shared \ {Member} : Delta(t, p)' = Delta(t, p)
  BY <1>5, <1>6, WriteDelta, Zenon
<1>8. tx'[t] = y /\ \A u \in Txns \ {t} : tx'[u] = tx[u]
  BY <1>5 DEF OrdersInv, TxInv
<1>9. Aside(t)
  BY <1>7, <1>8 DEF Aside
<1>10. ReversalAt(x, y)
  BY <1>2, <1>4 DEF ReversalAt
<1>11. \A p : StockDue(y, p) = StockDue(x, p)
  <2>1. \A p : StockDue(x, p) = IF ItemOf[x.draft.product] = p THEN x.recipe ELSE 0
    BY <1>2, ReversalDue
  <2>2. \A p : StockDue(y, p) = IF ItemOf[y.draft.product] = p THEN y.recipe ELSE 0
    BY <1>2, <1>4, ReversalDue
  <2> QED BY <1>4, <2>1, <2>2
<1>12. ASSUME StockBooks PROVE StockNotes(y) /\ \A p \in Items : Delta(t, p)' = StockDue(y, p)
  <2>1. StockNotes(x) /\ \A p \in Items : Delta(t, p) = StockDue(x, p)
    BY <1>1, <1>12 DEF StockBooks, StockOwn
  <2>2. StockNotes(y)
    BY <1>10, <2>1, ReversalNotes
  <2> QED BY <1>6, <1>7, <1>11, <2>1, <2>2
<1>13. ~PointsBooks
  BY <1>1, <1>2 DEF PointsBooks, PointsOwn, PointsNotes
<1> QED BY <1>8, <1>9, <1>12, <1>13, Carry

\* The statements of t that are not its commit.
LEMMA StepCarries ==
  ASSUME OrdersInv, LifeInv, NEW t \in Txns, Creating(t) \/ Changing(t) \/ Abort(t)
  PROVE  Carries(t) /\ UNCHANGED recipe
<1>1. CASE Creating(t)
  <2>1. Carries(t)
    BY <1>1, BeginsCarry, ReadRecipeCarry, DeductCarry, CheckPointsCarry, RedeemCarry, EarnCarry,
       AllocateCarry, InsertCarry, InsertRepeatedCarry, InsertOutrunCarry, FindExistingCarry
       DEF Creating
  <2>2. UNCHANGED recipe
    BY <1>1 DEF Creating, BeginCreate, ReadRecipe, Deduct, CheckPoints, Redeem, Earn, Allocate,
       Insert, InsertRepeated, InsertOutrun, FindExisting, Begin, WriteIf, ReadOnly, RollBackTo,
       Throw, others
  <2> QED BY <2>1, <2>2
<1>2. CASE Changing(t)
  <2>1. Carries(t)
    BY <1>2, BeginsCarry, ClaimCarry, RestoreCarry, ClawbackCarry, FloorCarry DEF Changing
  <2>2. UNCHANGED recipe
    BY <1>2 DEF Changing, BeginStatus, BeginVoid, BeginRefund, Claim, Restore, Clawback, Floor,
       Begin, WriteIf, ReadOnly, RollBackTo, Throw, others
  <2> QED BY <2>1, <2>2
<1>3. CASE Abort(t)
  <2>1. Throw(t)
    BY <1>3 DEF Abort
  <2> QED BY <2>1, ThrowCarry DEF Throw, RollBackTo, others
<1> QED BY <1>1, <1>2, <1>3

\* What a commit does to the orders that stand.
CommitsSale(x, o) ==
  /\ o \in Orders
  /\ \A u \in Orders \ {o} : committed'[u] = committed[u]
  /\ x.code = <<>>
  /\ \/ /\ x.op = "create"
        /\ o \notin Sold(committed) /\ o \notin Live
        /\ o \in Live' /\ SameSale(committed'[o], x.draft)
     \/ /\ x.op = "status"
        /\ o \in Sold(committed) /\ o \in Live
        /\ o \in Live' /\ SameSale(committed'[o], committed[o])
     \/ /\ x.op \in Reversals
        /\ o \in Sold(committed) /\ o \in Live
        /\ o \notin Live' /\ SameSale(committed'[o], committed[o])
        /\ SameSale(x.draft, committed[o])

LEMMA SaleCommitted ==
  ASSUME OrdersInv, LifeInv, NEW t \in Txns, Commit(t), NEW x, x = tx[t], NEW o, o = x.order
  PROVE  CommitsSale(x, o)
<1>1. /\ x \in TxRecords /\ x.op \in OpNames /\ x.code = <<>> /\ o \in Orders
      /\ x.op = "create" => Created(x)
      /\ x.op # "create" => Changed(x)
      /\ committed'[o] = db[o]
      /\ \A u \in Orders \ {o} : committed'[u] = committed[u]
  BY Committing, Committed
<1>2. CASE x.op = "create"
  <2>1. committed[o].st = "none" /\ committed'[o].st \in Operational
        /\ SameSale(committed'[o], x.draft)
    BY <1>1, <1>2 DEF Created
  <2> QED BY <1>1, <1>2, <2>1 DEF CommitsSale, Live, Sold, Operational
<1>3. CASE x.op = "status"
  <2>1. committed[o].st \in Operational /\ committed'[o].st \in Operational
        /\ SameSale(committed'[o], committed[o])
    BY <1>1, <1>3 DEF Changed
  <2> QED BY <1>1, <1>3, <2>1 DEF CommitsSale, Live, Sold, Operational
<1>4. CASE x.op \in Reversals
  <2>1. committed[o].st \in Operational /\ committed'[o].st = x.target
        /\ SameSale(committed'[o], committed[o])
    BY <1>1, <1>4 DEF Changed, Reversals
  <2>2. x.target \notin Operational
    BY <1>1, <1>4 DEF Changed, Reversals, Operational
  <2>3. SameSale(x.draft, committed[o])
    BY <1>4 DEF LifeInv, Life, Loaded
  <2> QED BY <1>1, <1>4, <2>1, <2>2, <2>3 DEF CommitsSale, Live, Sold, Operational
<1> QED BY <1>1, <1>2, <1>3, <1>4 DEF OpNames, Reversals

\* A commit leaves its request with nothing changed, and the others as they are.
LEMMA CommitDelta ==
  ASSUME OrdersInv, NEW t \in Txns, Commit(t)
  PROVE  /\ tx'[t] = Idle /\ \A p \in Shared : Delta(t, p)' = 0
         /\ \A u \in Txns \ {t} : tx'[u] = tx[u] /\ \A p \in Shared : Delta(u, p)' = Delta(u, p)
<1>1. /\ KeepWrites(t) /\ Release(t) /\ tx' = [tx EXCEPT ![t] = Idle]
      /\ db' = db
  BY DEF Commit, KeepWrites
<1>2. tx'[t] = Idle /\ \A u \in Txns \ {t} : tx'[u] = tx[u]
  BY <1>1 DEF OrdersInv, TxInv
<1>3. \A p \in Rows : committed'[p] = IF lock[p] = t THEN db[p] ELSE committed[p]
  BY <1>1 DEF KeepWrites
<1>4. \A p \in Rows : /\ lock'[p] # t
                      /\ \A u \in Txns \ {t} : lock'[p] = u <=> lock[p] = u
  BY <1>1, Released, RowKinds DEF OrdersInv, RowsInv, FreeRowsCommitted
<1>5. \A u \in Txns \ {t} : \A p \in Shared : Delta(u, p)' = Delta(u, p)
  BY <1>1, <1>3, <1>4, SharedRows DEF Delta
<1>6. \A p \in Shared : Delta(t, p)' = 0
  BY <1>4, SharedRows DEF Delta
<1> QED BY <1>2, <1>5, <1>6

LEMMA StockCommits ==
  ASSUME OrdersInv, OrdersInv', LifeInv, StockBooks, NEW t \in Txns, Commit(t)
  PROVE  StockBooks'
<1>1. PICK x : x = tx[t]
  OBVIOUS
<1>2. PICK o : o = x.order
  OBVIOUS
<1>3. CommitsSale(x, o)
  BY <1>1, <1>2, SaleCommitted
<1>4. StockOwn(t) /\ recipe = InitialRecipe /\ IsFiniteSet(Sold(committed))
      /\ \A u \in Sold(committed) : committed[u].used = InitialRecipe[committed[u].product]
  BY DEF StockBooks
<1>5. \A u \in Txns : StockOwn(u)'
  <2>1. StockOwn(t)'
    BY CommitDelta, IdleNotes DEF StockOwn, Shared
  <2>2. ASSUME NEW u \in Txns \ {t} PROVE StockOwn(u)'
    <3>1. StockOwn(u)
      BY DEF StockBooks
    <3> QED BY <3>1, CommitDelta DEF StockOwn, Shared
  <2> QED BY <2>1, <2>2
<1>6. recipe' = InitialRecipe
  BY <1>4 DEF Commit
<1>7. IsFiniteSet(Sold(committed)')
  <2>1. Sold(committed)' \subseteq Sold(committed) \union {o}
    BY <1>3 DEF CommitsSale, Sold
  <2>2. IsFiniteSet(Sold(committed) \union {o})
    BY <1>4, FS_AddElement
  <2> QED BY <2>1, <2>2, FS_Subset
\* What the order has used follows from its product, whoever commits it.
<1>8. /\ x.op \in Reversals => x.recipe = committed[o].used
      /\ x.op = "create" => x.draft.used = InitialRecipe[x.draft.product]
  <2>1. ASSUME x.op \in Reversals PROVE x.recipe = committed[o].used
    <3>1. x.recipe = InitialRecipe[x.draft.product]
      BY <1>1, <1>4, <2>1 DEF StockOwn, StockNotes
    <3>2. o \in Sold(committed) /\ SameSale(x.draft, committed[o])
      BY <1>3, <2>1 DEF CommitsSale, Reversals
    <3> QED BY <1>4, <3>1, <3>2 DEF SameSale
  <2>2. ASSUME x.op = "create" PROVE x.draft.used = InitialRecipe[x.draft.product]
    <3>1. x.code = <<>>
      BY <1>3 DEF CommitsSale
    <3>2. Stocked(x)
      BY <3>1 DEF Stocked, Unread
    <3> QED BY <1>1, <1>4, <2>2, <3>2 DEF StockOwn, StockNotes
  <2> QED BY <2>1, <2>2
<1>9. \A u \in Sold(committed)' : committed'[u].used = InitialRecipe[committed'[u].product]
  <2>1. ASSUME NEW u \in Orders \ {o}, u \in Sold(committed)'
        PROVE  committed'[u].used = InitialRecipe[committed'[u].product]
    <3>1. committed'[u] = committed[u] /\ u \in Sold(committed)
      BY <1>3, <2>1 DEF CommitsSale, Sold
    <3> QED BY <1>4, <3>1
  <2>2. committed'[o].used = InitialRecipe[committed'[o].product]
    <3>1. CASE x.op = "create"
      BY <1>3, <1>8, <3>1 DEF CommitsSale, SameSale, Reversals
    <3>2. CASE x.op # "create"
      <4>1. o \in Sold(committed) /\ SameSale(committed'[o], committed[o])
        BY <1>3, <3>2 DEF CommitsSale
      <4> QED BY <1>4, <4>1 DEF SameSale
    <3> QED BY <3>1, <3>2
  <2> QED BY <2>1, <2>2 DEF Sold
<1>10. ASSUME NEW i \in Items
       PROVE  committed'[i] = InitialStock[i]
                - SumFunction([u \in {w \in Live' : ItemOf[committed'[w].product] = i} |-> Used(u)'])
  <2>1. PICK S : S = {u \in Live : ItemOf[committed[u].product] = i}
    OBVIOUS
  <2>2. PICK T : T = {u \in Live' : ItemOf[committed'[u].product] = i}
    OBVIOUS
  <2>3. PICK g : g = [u \in S |-> Used(u)]
    OBVIOUS
  <2>4. PICK h : h = [u \in T |-> Used(u)']
    OBVIOUS
  <2>5. PICK a : a = IF o \in S THEN committed[o].used ELSE 0
    OBVIOUS
  <2>6. PICK b : b = IF o \in T THEN committed'[o].used ELSE 0
    OBVIOUS
  <2>7. /\ \A u \in S : u \in Orders /\ g[u] = committed[u].used /\ g[u] \in Int
        /\ \A u \in T : u \in Orders /\ h[u] = committed'[u].used /\ h[u] \in Int
    <3>1. \A u \in S : u \in Orders /\ committed[u] \in OrderRow
      BY <2>1 DEF Live, OrdersInv, RowsInv, Sound
    <3>2. \A u \in T : u \in Orders /\ committed'[u] \in OrderRow
      BY <2>2 DEF Live, OrdersInv, RowsInv, Sound
    <3>3. \A r \in OrderRow : r.used \in Int
      BY DEF OrderRow
    <3> QED BY <2>3, <2>4, <3>1, <3>2, <3>3 DEF Used
  <2>8. IsFiniteSet(S)
    <3>1. S \subseteq Sold(committed)
      BY <2>1 DEF Live, Sold, Operational
    <3> QED BY <1>4, <3>1, FS_Subset
  <2>9. T \ {o} = S \ {o} /\ \A u \in S \ {o} : committed'[u] = committed[u]
    BY <1>3, <2>1, <2>2 DEF CommitsSale, Live
  <2>10. \A u \in S \ {o} : h[u] = g[u]
    BY <2>7, <2>9
  <2>11. /\ IF o \in S THEN a = g[o] ELSE a = 0
         /\ IF o \in T THEN b = h[o] ELSE b = 0
    BY <2>5, <2>6, <2>7
  <2>12. /\ SumFunctionOnSet(g, S) \in Int
         /\ SumFunctionOnSet(h, T) = SumFunctionOnSet(g, S) + (b - a)
    BY <2>7, <2>8, <2>9, <2>10, <2>11, SumOneTerm
  <2>13. committed[i] = InitialStock[i] - SumFunctionOnSet(g, S)
    <3>1. committed[i] = InitialStock[i] - SumFunction(g)
      BY <2>1, <2>3 DEF StockBooks, StockFollowsOrders
    <3>2. DOMAIN g = S
      BY <2>3
    <3> QED BY <3>1, <3>2 DEF SumFunction
  <2>14. SumFunction(h) = SumFunctionOnSet(h, T)
    <3>1. DOMAIN h = T
      BY <2>4
    <3> QED BY <3>1 DEF SumFunction
  <2>15. committed'[i] = committed[i] + StockDue(x, i)
    <3>1. i \in Shared
      BY DEF Shared
    <3>2. committed'[i] = committed[i] + Delta(t, i)
      BY <3>1, Committed
    <3> QED BY <1>1, <1>4, <3>2 DEF StockOwn
  <2>16. a \in Int /\ b \in Int
    BY <2>7, <2>11
  <2>17. StockDue(x, i) = a - b
    <3>1. x.code = <<>> /\ x.code # <<"FindExisting">>
          /\ x.code \in {<<"Clawback">>, <<"Floor">>, <<>>}
      BY <1>3 DEF CommitsSale
    <3>2. CASE x.op = "create"
      <4>1. StockDue(x, i) = IF ItemOf[x.draft.product] = i THEN 0 - x.draft.used ELSE 0
        BY <3>1, <3>2, SaleDue
      <4>2. o \notin Live /\ o \in Live' /\ SameSale(committed'[o], x.draft)
        BY <1>3, <3>2 DEF CommitsSale, Reversals
      <4>3. a = 0
        BY <2>1, <2>5, <4>2
      <4>4. b = IF ItemOf[x.draft.product] = i THEN x.draft.used ELSE 0
        BY <2>2, <2>6, <4>2 DEF SameSale
      <4> QED BY <2>16, <4>1, <4>3, <4>4
    <3>3. CASE x.op = "status"
      <4>1. StockDue(x, i) = 0
        BY <3>3 DEF StockDue, Reversals
      <4>2. o \in Live /\ o \in Live' /\ SameSale(committed'[o], committed[o])
        BY <1>3, <3>3 DEF CommitsSale, Reversals
      <4>3. a = b
        BY <2>1, <2>2, <2>5, <2>6, <4>2 DEF SameSale
      <4> QED BY <2>16, <4>1, <4>3
    <3>4. CASE x.op \in Reversals
      <4>1. StockDue(x, i) = IF ItemOf[x.draft.product] = i THEN x.recipe ELSE 0
        BY <3>1, <3>4, ReversalDue
      <4>2. o \in Live /\ o \notin Live' /\ SameSale(x.draft, committed[o])
        BY <1>3, <3>4 DEF CommitsSale, Reversals
      <4>3. b = 0
        BY <2>2, <2>6, <4>2
      <4>4. a = IF ItemOf[x.draft.product] = i THEN x.recipe ELSE 0
        BY <1>8, <2>1, <2>5, <3>4, <4>2 DEF SameSale
      <4> QED BY <2>16, <4>1, <4>3, <4>4
    <3> QED BY <1>3, <3>2, <3>3, <3>4 DEF CommitsSale
  <2>18. InitialStock[i] \in Int
    BY ProductsAssumption
  <2>19. committed'[i] = InitialStock[i] - SumFunctionOnSet(h, T)
    BY <2>12, <2>13, <2>15, <2>16, <2>17, <2>18
  <2> QED BY <2>2, <2>4, <2>14, <2>19
<1>11. StockFollowsOrders'
  BY <1>10 DEF StockFollowsOrders
<1> QED BY <1>5, <1>6, <1>7, <1>9, <1>11 DEF StockBooks

LEMMA StockNext ==
  ASSUME OrdersInv, OrdersInv', LifeInv, StockBooks, RecipeChoices = {}, [Next]_vars
  PROVE  StockBooks'
<1>1. ASSUME NEW t \in Txns, Creating(t) \/ Changing(t) \/ Abort(t) PROVE StockBooks'
  <2>1. Carries(t) /\ UNCHANGED recipe
    BY <1>1, StepCarries
  <2>2. StockOwn(t)' /\ UNCHANGED <<committed, recipe>>
    BY <2>1 DEF Carries, Aside
  <2>3. ASSUME NEW u \in Txns \ {t} PROVE StockOwn(u)'
    <3>1. StockOwn(u)
      BY DEF StockBooks
    <3> QED BY <2>1, <3>1 DEF Carries, Aside, StockOwn, Shared
  <2> QED BY <2>2, <2>3 DEF StockBooks, StockFollowsOrders, Live, Sold, Used
<1>2. CASE NextDay \/ UNCHANGED vars
  <2>1. UNCHANGED <<db, committed, lock, tx, recipe>>
    BY <1>2 DEF NextDay, vars
  <2>2. ASSUME NEW u \in Txns PROVE StockOwn(u)'
    <3>1. StockOwn(u)
      BY DEF StockBooks
    <3> QED BY <2>1, <3>1 DEF StockOwn, Delta
  <2> QED BY <2>1, <2>2 DEF StockBooks, StockFollowsOrders, Live, Sold, Used
<1>3. ~EditRecipe
  BY DEF EditRecipe
<1> QED BY <1>1, <1>2, <1>3, StockCommits DEF Next

LEMMA StockInit ==
  ASSUME Init
  PROVE  StockBooks
<1>1. (\A t \in Txns : tx[t] = Idle) /\ (\A r \in Rows : lock[r] = NoTxn) /\ Sold(committed) = {}
  BY NothingSold
<1>2. \A t \in Txns : StockOwn(t)
  BY <1>1, IdleNotes, RowKinds DEF StockOwn, Delta, Rows
<1>3. Live = {}
  BY <1>1 DEF Live, Sold, Operational
<1>4. ASSUME NEW i \in Items
      PROVE  committed[i] = InitialStock[i]
               - SumFunction([u \in {w \in Live : ItemOf[committed[w].product] = i} |-> Used(u)])
  <2>1. PICK g : g = [u \in {w \in Live : ItemOf[committed[w].product] = i} |-> Used(u)]
    OBVIOUS
  <2>2. DOMAIN g = {}
    BY <1>3, <2>1
  <2>3. SumFunction(g) = 0
    BY <2>2, SumEmpty DEF SumFunction
  <2>4. committed[i] = InitialStock[i] /\ InitialStock[i] \in Int
    BY ProductsAssumption, OrdersAssumption DEF Init, InitialDb, Rows
  <2> QED BY <2>1, <2>3, <2>4
<1>5. StockFollowsOrders
  BY <1>4 DEF StockFollowsOrders
<1> QED BY <1>1, <1>2, <1>5, FS_EmptySet DEF StockBooks, Init

\* The stock is what the orders that stand left of it, whatever is sold, voided
\* and refunded at once, as long as no recipe is edited between a sale and its
\* reversal (the reversal gives back what the recipe says by then).
THEOREM StockFollowsOrdersHolds ==
  ASSUME RecipeChoices = {} PROVE Spec => []StockFollowsOrders
<1>1. Init => StockBooks
  BY StockInit
<1>2. OrdersInv /\ OrdersInv' /\ LifeInv /\ StockBooks /\ [Next]_vars => StockBooks'
  BY StockNext
<1>3. StockBooks => StockFollowsOrders
  BY DEF StockBooks
<1> QED BY Invariant, LifeHolds, <1>1, <1>2, <1>3, PTL DEF Spec

LEMMA PointsCommits ==
  ASSUME OrdersInv, OrdersInv', LifeInv, PointsBooks, NEW t \in Txns, Commit(t)
  PROVE  PointsBooks'
<1>1. PICK x : x = tx[t]
  OBVIOUS
<1>2. PICK o : o = x.order
  OBVIOUS
<1>3. CommitsSale(x, o)
  BY <1>1, <1>2, SaleCommitted
<1>4. PointsOwn(t) /\ IsFiniteSet(Sold(committed))
      /\ \A u \in Sold(committed) : /\ committed[u].redeemed = 0
                                    /\ ~committed[u].member => committed[u].earned = 0
  BY DEF PointsBooks
<1>5. \A u \in Txns : PointsOwn(u)'
  <2>1. PointsOwn(t)'
    BY CommitDelta, IdleNotes DEF PointsOwn, Shared
  <2>2. ASSUME NEW u \in Txns \ {t} PROVE PointsOwn(u)'
    <3>1. PointsOwn(u)
      BY DEF PointsBooks
    <3> QED BY <3>1, CommitDelta DEF PointsOwn, Shared
  <2> QED BY <2>1, <2>2
<1>6. IsFiniteSet(Sold(committed)')
  <2>1. Sold(committed)' \subseteq Sold(committed) \union {o}
    BY <1>3 DEF CommitsSale, Sold
  <2>2. IsFiniteSet(Sold(committed) \union {o})
    BY <1>4, FS_AddElement
  <2> QED BY <2>1, <2>2, FS_Subset
<1>7. x.op = "create" => x.draft.redeemed = 0 /\ (~x.draft.member => x.draft.earned = 0)
  BY <1>1, <1>4 DEF PointsOwn, PointsNotes
<1>8. \A u \in Sold(committed)' : /\ committed'[u].redeemed = 0
                                  /\ ~committed'[u].member => committed'[u].earned = 0
  <2>1. ASSUME NEW u \in Orders \ {o}, u \in Sold(committed)'
        PROVE  committed'[u].redeemed = 0 /\ (~committed'[u].member => committed'[u].earned = 0)
    <3>1. committed'[u] = committed[u] /\ u \in Sold(committed)
      BY <1>3, <2>1 DEF CommitsSale, Sold
    <3> QED BY <1>4, <3>1
  <2>2. committed'[o].redeemed = 0 /\ (~committed'[o].member => committed'[o].earned = 0)
    <3>1. CASE x.op = "create"
      BY <1>3, <1>7, <3>1 DEF CommitsSale, SameSale, Reversals
    <3>2. CASE x.op # "create"
      <4>1. o \in Sold(committed) /\ SameSale(committed'[o], committed[o])
        BY <1>3, <3>2 DEF CommitsSale
      <4> QED BY <1>4, <4>1 DEF SameSale
    <3> QED BY <3>1, <3>2
  <2> QED BY <2>1, <2>2 DEF Sold
<1>9. committed'[Member] = InitialPoints
        + SumFunction([u \in {w \in Live' : committed'[w].member} |-> Gained(u)'])
  <2>1. PICK S : S = {u \in Live : committed[u].member}
    OBVIOUS
  <2>2. PICK T : T = {u \in Live' : committed'[u].member}
    OBVIOUS
  <2>3. PICK g : g = [u \in S |-> Gained(u)]
    OBVIOUS
  <2>4. PICK h : h = [u \in T |-> Gained(u)']
    OBVIOUS
  <2>5. PICK a : a = IF o \in S THEN committed[o].earned - committed[o].redeemed ELSE 0
    OBVIOUS
  <2>6. PICK b : b = IF o \in T THEN committed'[o].earned - committed'[o].redeemed ELSE 0
    OBVIOUS
  <2>7. /\ \A u \in S : /\ u \in Orders /\ g[u] \in Int
                        /\ g[u] = committed[u].earned - committed[u].redeemed
        /\ \A u \in T : /\ u \in Orders /\ h[u] \in Int
                        /\ h[u] = committed'[u].earned - committed'[u].redeemed
    <3>1. \A u \in S : u \in Orders /\ committed[u] \in OrderRow
      BY <2>1 DEF Live, OrdersInv, RowsInv, Sound
    <3>2. \A u \in T : u \in Orders /\ committed'[u] \in OrderRow
      BY <2>2 DEF Live, OrdersInv, RowsInv, Sound
    <3>3. \A r \in OrderRow : r.earned \in Int /\ r.redeemed \in Int
      BY DEF OrderRow
    <3> QED BY <2>3, <2>4, <3>1, <3>2, <3>3 DEF Gained
  <2>8. IsFiniteSet(S)
    <3>1. S \subseteq Sold(committed)
      BY <2>1 DEF Live, Sold, Operational
    <3> QED BY <1>4, <3>1, FS_Subset
  <2>9. T \ {o} = S \ {o} /\ \A u \in S \ {o} : committed'[u] = committed[u]
    BY <1>3, <2>1, <2>2 DEF CommitsSale, Live
  <2>10. \A u \in S \ {o} : h[u] = g[u]
    BY <2>7, <2>9
  <2>11. /\ IF o \in S THEN a = g[o] ELSE a = 0
         /\ IF o \in T THEN b = h[o] ELSE b = 0
    BY <2>5, <2>6, <2>7
  <2>12. /\ SumFunctionOnSet(g, S) \in Int
         /\ SumFunctionOnSet(h, T) = SumFunctionOnSet(g, S) + (b - a)
    BY <2>7, <2>8, <2>9, <2>10, <2>11, SumOneTerm
  <2>13. committed[Member] = InitialPoints + SumFunctionOnSet(g, S)
    <3>1. committed[Member] = InitialPoints + SumFunction(g)
      BY <2>1, <2>3 DEF PointsBooks, PointsFollowOrders
    <3>2. DOMAIN g = S
      BY <2>3
    <3> QED BY <3>1, <3>2 DEF SumFunction
  <2>14. SumFunction(h) = SumFunctionOnSet(h, T)
    <3>1. DOMAIN h = T
      BY <2>4
    <3> QED BY <3>1 DEF SumFunction
  <2>15. committed'[Member] = committed[Member] + PointsDue(x)
    <3>1. Member \in Shared
      BY DEF Shared
    <3>2. committed'[Member] = committed[Member] + Delta(t, Member)
      BY <3>1, Committed
    <3> QED BY <1>1, <1>4, <3>2 DEF PointsOwn
  <2>16. a \in Int /\ b \in Int
    BY <2>7, <2>11
  <2>17. PointsDue(x) = b - a
    <3>1. x.code = <<>> /\ x.code # <<"FindExisting">>
      BY <1>3 DEF CommitsSale
    <3>2. CASE x.op = "create"
      <4>1. PointsDue(x) = x.draft.earned - x.draft.redeemed
        BY <3>1, <3>2, SaleDue
      <4>2. o \notin Live /\ o \in Live' /\ SameSale(committed'[o], x.draft)
        BY <1>3, <3>2 DEF CommitsSale, Reversals
      <4>3. a = 0
        BY <2>1, <2>5, <4>2
      <4>4. b = IF x.draft.member THEN x.draft.earned - x.draft.redeemed ELSE 0
        BY <2>2, <2>6, <4>2 DEF SameSale
      <4>5. b = PointsDue(x)
        BY <1>7, <3>2, <4>1, <4>4
      <4> QED BY <2>16, <4>3, <4>5
    <3>3. CASE x.op = "status"
      <4>1. PointsDue(x) = 0
        BY <3>3 DEF PointsDue, Reversals
      <4>2. o \in Live /\ o \in Live' /\ SameSale(committed'[o], committed[o])
        BY <1>3, <3>3 DEF CommitsSale, Reversals
      <4>3. a = b
        BY <2>1, <2>2, <2>5, <2>6, <4>2 DEF SameSale
      <4> QED BY <2>16, <4>1, <4>3
    <3>4. CASE x.op \in Reversals
      <4>1. PointsDue(x) = IF x.draft.member THEN x.draft.redeemed - x.draft.earned ELSE 0
        BY <3>1, <3>4, ReversalDue
      <4>2. o \in Live /\ o \notin Live' /\ SameSale(x.draft, committed[o])
        BY <1>3, <3>4 DEF CommitsSale, Reversals
      <4>3. b = 0
        BY <2>2, <2>6, <4>2
      <4>4. a = IF x.draft.member THEN x.draft.earned - x.draft.redeemed ELSE 0
        BY <2>1, <2>5, <4>2 DEF SameSale
      <4>5. x.draft.member => x.draft.earned \in Int /\ x.draft.redeemed \in Int
        <5>1. committed[o] \in OrderRow
          BY <1>3 DEF CommitsSale, OrdersInv, RowsInv, Sound
        <5> QED BY <4>2, <5>1 DEF SameSale, OrderRow
      <4> QED BY <2>16, <4>1, <4>3, <4>4, <4>5
    <3> QED BY <1>3, <3>2, <3>3, <3>4 DEF CommitsSale
  <2>18. committed'[Member] = InitialPoints + SumFunctionOnSet(h, T)
    BY <2>12, <2>13, <2>15, <2>16, <2>17, PointsAssumption
  <2> QED BY <2>2, <2>4, <2>14, <2>18
<1>10. PointsFollowOrders'
  BY <1>9 DEF PointsFollowOrders
<1> QED BY <1>5, <1>6, <1>8, <1>10 DEF PointsBooks

LEMMA PointsNext ==
  ASSUME OrdersInv, OrdersInv', LifeInv, PointsBooks, Redemptions \subseteq {0}, [Next]_vars
  PROVE  PointsBooks'
<1>1. ASSUME NEW t \in Txns, Creating(t) \/ Changing(t) \/ Abort(t) PROVE PointsBooks'
  <2>1. Carries(t)
    BY <1>1, StepCarries
  <2>2. PointsOwn(t)' /\ UNCHANGED committed
    BY <2>1 DEF Carries, Aside
  <2>3. ASSUME NEW u \in Txns \ {t} PROVE PointsOwn(u)'
    <3>1. PointsOwn(u)
      BY DEF PointsBooks
    <3> QED BY <2>1, <3>1 DEF Carries, Aside, PointsOwn, Shared
  <2> QED BY <2>2, <2>3 DEF PointsBooks, PointsFollowOrders, Live, Sold, Gained
<1>2. CASE EditRecipe \/ NextDay \/ UNCHANGED vars
  <2>1. UNCHANGED <<db, committed, lock, tx>>
    BY <1>2 DEF EditRecipe, NextDay, vars
  <2>2. ASSUME NEW u \in Txns PROVE PointsOwn(u)'
    <3>1. PointsOwn(u)
      BY DEF PointsBooks
    <3> QED BY <2>1, <3>1 DEF PointsOwn, Delta
  <2> QED BY <2>1, <2>2 DEF PointsBooks, PointsFollowOrders, Live, Sold, Gained
<1> QED BY <1>1, <1>2, PointsCommits DEF Next

LEMMA PointsInit ==
  ASSUME Init
  PROVE  PointsBooks
<1>1. (\A t \in Txns : tx[t] = Idle) /\ (\A r \in Rows : lock[r] = NoTxn) /\ Sold(committed) = {}
  BY NothingSold
<1>2. \A t \in Txns : PointsOwn(t)
  BY <1>1, IdleNotes, RowKinds DEF PointsOwn, Delta, Rows
<1>3. Live = {}
  BY <1>1 DEF Live, Sold, Operational
<1>4. PointsFollowOrders
  <2>1. PICK g : g = [u \in {w \in Live : committed[w].member} |-> Gained(u)]
    OBVIOUS
  <2>2. DOMAIN g = {}
    BY <1>3, <2>1
  <2>3. SumFunction(g) = 0
    BY <2>2, SumEmpty DEF SumFunction
  <2>4. committed[Member] = InitialPoints
    BY OrdersAssumption DEF Init, InitialDb, Rows
  <2>5. committed[Member] = InitialPoints + 0
    BY <2>4, PointsAssumption
  <2> QED BY <2>1, <2>3, <2>5 DEF PointsFollowOrders
<1> QED BY <1>1, <1>2, <1>4, FS_EmptySet DEF PointsBooks

\* The balance of the member is what the orders that stand earned, as long as no
\* points are redeemed (a reversal that finds too few of them takes what is left).
THEOREM PointsFollowOrdersHolds ==
  ASSUME Redemptions \subseteq {0} PROVE Spec => []PointsFollowOrders
<1>1. Init => PointsBooks
  BY PointsInit
<1>2. OrdersInv /\ OrdersInv' /\ LifeInv /\ PointsBooks /\ [Next]_vars => PointsBooks'
  BY PointsNext
<1>3. PointsBooks => PointsFollowOrders
  BY DEF PointsBooks
<1> QED BY Invariant, LifeHolds, <1>1, <1>2, <1>3, PTL DEF Spec
===============================================================================
