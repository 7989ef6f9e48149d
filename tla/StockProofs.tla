------------------------------- MODULE StockProofs -------------------------------
(***************************************************************************)
(* Theorems about branch stock for every set of transactions, items and    *)
(* batches, every plan, and every number of operations and days.           *)
(***************************************************************************)
EXTENDS Stock, SequenceTheorems, SumProofs, TLAPS

OpNames == {"deduct", "restore", "receive", "waste", "dispose", "transfer"}
Statements == {"CacheDown", "CacheUp", "List", "Take", "Pick", "PutBack", "Create",
               "Claim", "ReadNamed", "ReadExpired", "Overwrite", "Expire"}

\* Batches as a transaction read them.
Snapshots == [id : Batches, qty : Nat, st : BatchStatuses, exp : Nat]

TxRecords ==
  [op : OpNames \union {"none"}, code : Seq(Statements), items : Seq(Items),
   qty : Nat, left : Nat, list : SUBSET Snapshots, exp : Nat,
   row : Batches \union Transfers \union {NoTxn}, ask : [Items -> Int],
   request : Seq(Items)]

\* What a transaction still has to do is about rows it names: an item while there is
\* a statement, a second item while a transfer has to take from the first.
RowsNamed(x) ==
  /\ x.code # <<>> => x.items # <<>>
  /\ \A n \in 1 .. Len(x.code) :
       /\ x.code[n] = "Claim" => x.row \in Transfers
       /\ x.code[n] \in {"ReadNamed", "ReadExpired", "Expire"} => x.row \in Batches
       /\ x.op = "transfer" /\ x.code[n] = "CacheDown" =>
            /\ Len(x.items) > 1
            /\ \A m \in 1 .. Len(x.code) : x.code[m] = "CacheDown" => m = n

TxInv == /\ tx \in [Txns -> TxRecords]
         /\ \A t \in Txns : RowsNamed(tx[t])

\* A version of every row, with nothing below zero.
Sound(v) == /\ v = [r \in Rows |-> v[r]]
            /\ \A i \in Items : v[i] \in Nat
            /\ \A b \in Batches : v[b] \in BatchRow /\ v[b].qty >= 0
            /\ \A r \in Transfers : v[r] \in {"PENDING", "COMPLETED"}

RowsInv == Sound(db) /\ Sound(committed) /\ FreeRowsCommitted

StockInv == RowsInv /\ TxInv /\ net \in [Items -> Int]

-------------------------------------------------------------------------------
(* The row store.                                                          *)

LEMMA UndoSound ==
  ASSUME RowsInv, NEW t \in Txns, UndoWrites(t)
  PROVE  RowsInv'
<1>1. t # NoTxn
  BY NoTxnAssumption
<1>2. /\ db' = [r \in Rows |-> IF lock[r] = t THEN committed[r] ELSE db[r]]
      /\ lock' = [r \in Rows |-> IF lock[r] = t THEN NoTxn ELSE lock[r]]
      /\ committed' = committed
  BY DEF UndoWrites, Release
<1>3. Sound(db')
  BY <1>2 DEF RowsInv, Sound, Rows
<1>4. FreeRowsCommitted'
  BY <1>1, <1>2 DEF RowsInv, FreeRowsCommitted
<1> QED BY <1>2, <1>3, <1>4 DEF RowsInv

LEMMA KeepSound ==
  ASSUME RowsInv, NEW t \in Txns, KeepWrites(t)
  PROVE  RowsInv'
<1>1. t # NoTxn
  BY NoTxnAssumption
<1>2. /\ committed' = [r \in Rows |-> IF lock[r] = t THEN db[r] ELSE committed[r]]
      /\ lock' = [r \in Rows |-> IF lock[r] = t THEN NoTxn ELSE lock[r]]
      /\ db' = db
  BY DEF KeepWrites, Release
<1>3. Sound(committed')
  BY <1>2 DEF RowsInv, Sound, Rows
<1>4. FreeRowsCommitted'
  BY <1>1, <1>2 DEF RowsInv, FreeRowsCommitted
<1> QED BY <1>2, <1>3, <1>4 DEF RowsInv

\* The rows stay sound when a sound value is written to one of them.
Fits(r, value) == \/ r \in Items /\ value \in Nat
                  \/ r \in Batches /\ value \in BatchRow /\ value.qty >= 0
                  \/ r \in Transfers /\ value \in {"PENDING", "COMPLETED"}

LEMMA WriteSound ==
  ASSUME RowsInv, NEW t \in Txns, NEW r, NEW value, Fits(r, value),
         Write(t, r, value), UNCHANGED committed
  PROVE  RowsInv'
<1>1. t # NoTxn /\ r \in Rows
  BY NoTxnAssumption DEF Fits, Rows
<1>2. db' = [db EXCEPT ![r] = value] /\ lock' = [lock EXCEPT ![r] = t]
  BY DEF Write
<1>3. Sound(db')
  BY <1>1, <1>2, RowsAssumption DEF RowsInv, Sound, Fits, Rows
<1>4. FreeRowsCommitted'
  BY <1>1, <1>2 DEF RowsInv, FreeRowsCommitted, Sound
<1> QED BY <1>3, <1>4 DEF RowsInv

\* A transaction reads sound versions of batches.
LEMMA SnapshotSound ==
  ASSUME RowsInv, NEW t \in Txns, NEW b \in Batches
  PROVE  Snapshot(t, b) \in Snapshots
BY DEF RowsInv, Sound, Snapshot, Snapshots, Seen, BatchRow

LEMMA BatchesSound ==
  ASSUME RowsInv, NEW t \in Txns, NEW st
  PROVE  BatchesOf(t, st) \subseteq Snapshots
BY SnapshotSound DEF BatchesOf

-------------------------------------------------------------------------------
(* Transactions.                                                           *)

LEMMA TailNames ==
  ASSUME NEW x \in TxRecords, RowsNamed(x), x.code # <<>>
  PROVE  /\ [x EXCEPT !.code = Tail(@)] \in TxRecords
         /\ RowsNamed([x EXCEPT !.code = Tail(@)])
<1> DEFINE y == [x EXCEPT !.code = Tail(@)]
<1>1. /\ x.code \in Seq(Statements)
      /\ y.code = Tail(x.code) /\ y.items = x.items /\ y.row = x.row /\ y.op = x.op
  BY DEF TxRecords
<1>2. /\ Tail(x.code) \in Seq(Statements)
      /\ Len(x.code) \in Nat /\ Len(Tail(x.code)) = Len(x.code) - 1
      /\ \A n \in 1 .. Len(Tail(x.code)) : Tail(x.code)[n] = x.code[n + 1]
  BY <1>1
<1>3. y \in TxRecords
  BY <1>2 DEF TxRecords
<1> HIDE DEF y
<1>4. \A n \in 1 .. Len(y.code) : n + 1 \in 1 .. Len(x.code) /\ y.code[n] = x.code[n + 1]
  BY <1>1, <1>2
<1>5. \A m, n \in 1 .. Len(y.code) : m + 1 = n + 1 => m = n
  BY <1>1, <1>2
<1>6. RowsNamed(y)
  BY <1>1, <1>4, <1>5 DEF RowsNamed
<1> QED BY <1>3, <1>6 DEF y

\* Only one transaction changes, to a record that names its rows.
LEMMA TxChanges ==
  ASSUME TxInv, NEW t \in Txns, NEW x \in TxRecords, RowsNamed(x),
         tx' = [tx EXCEPT ![t] = x]
  PROVE  TxInv'
BY DEF TxInv

LEMMA ContinueKeeps ==
  ASSUME TxInv, NEW t \in Txns, NEW x \in TxRecords, RowsNamed(x), x.code # <<>>, Continue(t, x)
  PROVE  TxInv'
BY TailNames, TxChanges DEF Continue

LEMMA IdleNames == Idle \in TxRecords /\ RowsNamed(Idle)
<1>1. Idle \in TxRecords
  BY NumbersAssumption DEF Idle, TxRecords, NoAsk
<1>2. RowsNamed(Idle)
  BY DEF RowsNamed, Idle
<1> QED BY <1>1, <1>2

LEMMA ThrowKeeps ==
  ASSUME StockInv, NEW t \in Txns, Throw(t)
  PROVE  StockInv'
<1>1. RowsInv'
  BY UndoSound DEF StockInv, Throw
<1>2. TxInv'
  BY IdleNames, TxChanges DEF StockInv, Throw, End
<1> QED BY <1>1, <1>2 DEF StockInv, Throw

LEMMA CommitKeeps ==
  ASSUME StockInv, NEW t \in Txns, Commit(t)
  PROVE  StockInv'
<1>1. RowsInv'
  BY KeepSound DEF StockInv, Commit
<1>2. TxInv'
  BY IdleNames, TxChanges DEF StockInv, Commit, End
<1>3. net' \in [Items -> Int]
  <2>1. tx[t].ask \in [Items -> Int] /\ net \in [Items -> Int]
    BY DEF StockInv, TxInv, TxRecords
  <2> QED BY <2>1 DEF Commit
<1> QED BY <1>1, <1>2, <1>3 DEF StockInv

-------------------------------------------------------------------------------
(* Beginnings.                                                             *)

LEMMA ProgramCode ==
  ASSUME NEW op \in OpNames
  PROVE  /\ Program[op] \in Seq(Statements)
         /\ \A n \in 1 .. Len(Program[op]) :
              /\ Program[op][n] = "Claim" => op = "transfer"
              /\ Program[op][n] \in {"ReadNamed", "ReadExpired", "Expire"} => op \in {"waste", "dispose"}
              /\ op = "transfer" /\ Program[op][n] = "CacheDown" => n = 4
<1>1. CASE op = "deduct"
  <2>1. Program[op] = <<"CacheDown", "List", "Take">>
    BY <1>1 DEF Program
  <2> QED BY <1>1, <2>1 DEF Statements
<1>2. CASE op = "restore"
  <2>1. Program[op] = <<"CacheUp", "Pick", "PutBack">>
    BY <1>2 DEF Program
  <2> QED BY <1>2, <2>1 DEF Statements
<1>3. CASE op = "receive"
  <2>1. Program[op] = <<"Create", "CacheUp">>
    BY <1>3 DEF Program
  <2> QED BY <1>3, <2>1 DEF Statements
<1>4. CASE op = "waste"
  <2>1. Program[op] = <<"ReadNamed", "Overwrite", "List", "Overwrite", "CacheDown">>
    BY <1>4 DEF Program
  <2> QED BY <1>4, <2>1 DEF Statements
<1>5. CASE op = "dispose"
  <2>1. Program[op] = <<"ReadExpired", "CacheDown", "Expire">>
    BY <1>5 DEF Program
  <2> QED BY <1>5, <2>1 DEF Statements
<1>6. CASE op = "transfer"
  <2>1. Program[op] = <<"Claim", "List", "Take", "CacheDown", "Create", "CacheUp">>
    BY <1>6 DEF Program
  <2> QED BY <1>6, <2>1 DEF Statements
<1> QED BY <1>1, <1>2, <1>3, <1>4, <1>5, <1>6 DEF OpNames

\* How often a sequence names an item, and how often what is left of it does.
LEMMA TimesType ==
  ASSUME NEW s \in Seq(Items), NEW i
  PROVE  Times(s, i) \in Nat
<1>1. IsFiniteSet(1 .. Len(s)) /\ DOMAIN s = 1 .. Len(s)
  BY FS_Interval
<1>2. IsFiniteSet({k \in DOMAIN s : s[k] = i})
  BY <1>1, FS_Subset
<1> QED BY <1>2, FS_CardinalityType DEF Times

LEMMA TimesTail ==
  ASSUME NEW s \in Seq(Items), s # <<>>, NEW i
  PROVE  Times(s, i) = Times(Tail(s), i) + (IF s[1] = i THEN 1 ELSE 0)
<1> DEFINE n == Len(s)
           later == {k \in 2 .. n : s[k] = i}
           places == {k \in DOMAIN Tail(s) : Tail(s)[k] = i}
           f == [k \in later |-> k - 1]
<1>1. /\ n \in Nat \ {0} /\ DOMAIN s = 1 .. n /\ DOMAIN Tail(s) = 1 .. n - 1
      /\ \A k \in 1 .. n - 1 : Tail(s)[k] = s[k + 1]
  OBVIOUS
<1>2. IsFiniteSet(later)
  <2>1. IsFiniteSet(2 .. n)
    BY <1>1, FS_Interval
  <2> QED BY <2>1, FS_Subset
<1>3. Cardinality(places) = Cardinality(later)
  <2>1. f \in [later -> places] /\ \A a, b \in later : f[a] = f[b] => a = b
    BY <1>1
  <2>2. \A k \in places : k + 1 \in later /\ f[k + 1] = k
    BY <1>1
  <2>3. f \in Bijection(later, places)
    BY <2>1, <2>2 DEF Bijection, Injection, Surjection, IsInjective
  <2>4. ExistsBijection(later, places)
    BY <2>3 DEF ExistsBijection
  <2> HIDE DEF later, places
  <2> QED BY <1>2, <2>4, FS_Bijection, Zenon
<1>4. /\ s[1] = i => {k \in DOMAIN s : s[k] = i} = later \union {1}
      /\ s[1] # i => {k \in DOMAIN s : s[k] = i} = later
  BY <1>1
<1>5. 1 \notin later /\ Cardinality(later) \in Nat
  BY <1>1, <1>2, FS_CardinalityType
<1>6. Cardinality(later \union {1}) = Cardinality(later) + 1
  BY <1>2, <1>5, FS_AddElement
<1>7. /\ Times(Tail(s), i) = Cardinality(later)
      /\ Times(s, i) = Cardinality({k \in DOMAIN s : s[k] = i})
  BY <1>3 DEF Times
<1> HIDE DEF later
<1>8. CASE s[1] = i
  BY <1>4, <1>5, <1>6, <1>7, <1>8
<1>9. CASE s[1] # i
  <2>1. Times(s, i) = Cardinality(later)
    BY <1>4, <1>7, <1>9, Zenon
  <2>2. Times(Tail(s), i) + 0 = Cardinality(later)
    BY <1>5, <1>7
  <2> QED BY <1>9, <2>1, <2>2
<1> QED BY <1>8, <1>9

LEMMA TimesEmpty ==
  ASSUME NEW i
  PROVE  Times(<<>>, i) = 0
<1>1. {k \in DOMAIN <<>> : <<>>[k] = i} = {}
  OBVIOUS
<1> QED BY <1>1, FS_EmptySet DEF Times

\* A sequence without repetitions names an item once or not at all.
LEMMA TimesOnce ==
  ASSUME NEW s \in Seq(Items), IsInjective(s), NEW i
  PROVE  Times(s, i) = IF i \in {s[k] : k \in 1 .. Len(s)} THEN 1 ELSE 0
<1>1. DOMAIN s = 1 .. Len(s)
  OBVIOUS
<1>2. CASE i \in {s[k] : k \in 1 .. Len(s)}
  <2>1. PICK k \in 1 .. Len(s) : s[k] = i
    BY <1>2
  <2>2. {m \in DOMAIN s : s[m] = i} = {k}
    BY <1>1, <2>1 DEF IsInjective
  <2> QED BY <1>2, <2>2, FS_Singleton DEF Times
<1>3. CASE i \notin {s[k] : k \in 1 .. Len(s)}
  <2>1. {m \in DOMAIN s : s[m] = i} = {}
    BY <1>1, <1>3
  <2> QED BY <1>3, <2>1, FS_EmptySet DEF Times
<1> QED BY <1>2, <1>3

\* What a receipt has still to add to an item, before and after a line of it.
LEMMA LinesLeft ==
  ASSUME NEW s \in Seq(Items), s # <<>>, NEW q \in Nat, NEW i
  PROVE  /\ q * Times(s, i) \in Int /\ q * Times(Tail(s), i) \in Int
         /\ q * Times(s, i) = q * Times(Tail(s), i) + (IF i = s[1] THEN q ELSE 0)
<1>1. Times(s, i) \in Nat /\ Times(Tail(s), i) \in Nat
  <2>1. Tail(s) \in Seq(Items)
    OBVIOUS
  <2> QED BY <2>1, TimesType
<1>2. Times(s, i) = Times(Tail(s), i) + (IF s[1] = i THEN 1 ELSE 0)
  BY TimesTail
<1>3. \A m \in Nat : q * (m + 1) = q * m + q /\ q * (m + 0) = q * m + 0 /\ q * m \in Int
  OBVIOUS
<1>4. CASE s[1] = i
  BY <1>1, <1>2, <1>3, <1>4
<1>5. CASE s[1] # i
  BY <1>1, <1>2, <1>3, <1>5
<1> QED BY <1>4, <1>5

\* A record of an operation, and one about some row with some question.
LEMMA OperationType ==
  ASSUME NEW op \in OpNames, NEW items \in Seq(Items), NEW q \in Nat
  PROVE  /\ Operation(op, items, q) \in TxRecords
         /\ Operation(op, items, q).op = op
         /\ Operation(op, items, q).code = Program[op]
         /\ Operation(op, items, q).items = items
BY IdleNames, ProgramCode DEF Operation, TxRecords

LEMMA ExpiryType ==
  ASSUME NEW x \in TxRecords, NEW exp \in Nat
  PROVE  /\ [x EXCEPT !.exp = exp] \in TxRecords
         /\ [x EXCEPT !.exp = exp].op = x.op
         /\ [x EXCEPT !.exp = exp].code = x.code
         /\ [x EXCEPT !.exp = exp].items = x.items
BY DEF TxRecords

LEMMA AskType ==
  ASSUME NEW x \in TxRecords, NEW ask \in [Items -> Int]
  PROVE  /\ [x EXCEPT !.ask = ask] \in TxRecords
         /\ [x EXCEPT !.ask = ask].op = x.op
         /\ [x EXCEPT !.ask = ask].code = x.code
         /\ [x EXCEPT !.ask = ask].items = x.items
         /\ [x EXCEPT !.ask = ask].row = x.row
BY DEF TxRecords

LEMMA RowType ==
  ASSUME NEW x \in TxRecords, NEW row \in Batches \union Transfers
  PROVE  /\ [x EXCEPT !.row = row] \in TxRecords
         /\ [x EXCEPT !.row = row].op = x.op
         /\ [x EXCEPT !.row = row].code = x.code
         /\ [x EXCEPT !.row = row].items = x.items
         /\ [x EXCEPT !.row = row].row = row
BY DEF TxRecords

LEMMA OperationNames ==
  ASSUME NEW x \in TxRecords, NEW op \in OpNames,
         x.op = op, x.code = Program[op], x.items # <<>>,
         op = "transfer" => x.row \in Transfers /\ Len(x.items) > 1,
         op \in {"waste", "dispose"} => x.row \in Batches
  PROVE  RowsNamed(x)
BY ProgramCode DEF RowsNamed

LEMMA AskingType ==
  ASSUME NEW items \in Seq(Items), NEW q \in Int
  PROVE  Asking(items, q) \in [Items -> Int]
<1>1. ASSUME NEW i \in Items PROVE q * Times(items, i) \in Int
  <2>1. Times(items, i) \in Nat
    BY TimesType
  <2> QED BY <2>1
<1> QED BY <1>1 DEF Asking

LEMMA BeginKeeps ==
  ASSUME StockInv, NEW t \in Txns, NEW x \in TxRecords, RowsNamed(x), Begin(t, x)
  PROVE  StockInv'
<1>1. TxInv'
  BY TxChanges DEF StockInv, Begin
<1> QED BY <1>1 DEF StockInv, Begin, RowsInv, FreeRowsCommitted

LEMMA StartsKeep ==
  ASSUME StockInv, NEW t \in Txns, Starts(t)
  PROVE  StockInv'
<1> USE NumbersAssumption
<1>1. ASSUME NEW plan \in Plans, NEW q \in Quantities, NEW n \in Int,
             NEW op \in {"deduct", "restore"},
             Begin(t, [Operation(op, plan, q) EXCEPT !.ask = Asking(plan, n)])
      PROVE  StockInv'
  <2> DEFINE x == [Operation(op, plan, q) EXCEPT !.ask = Asking(plan, n)]
  <2>1. plan \in Seq(Items) /\ plan # <<>> /\ op \in OpNames
    BY PlansAssumption DEF OpNames
  <2>2. x \in TxRecords /\ x.op = op /\ x.code = Program[op] /\ x.items = plan
    <3>1. PICK z : z = Operation(op, plan, q)
      OBVIOUS
    <3>2. q \in Nat /\ Asking(plan, n) \in [Items -> Int]
      BY <2>1, AskingType
    <3>3. z \in TxRecords /\ z.op = op /\ z.code = Program[op] /\ z.items = plan
      BY <2>1, <3>1, <3>2, OperationType
    <3> QED BY <3>1, <3>2, <3>3, AskType
  <2> HIDE DEF x
  <2>3. RowsNamed(x)
    BY <2>1, <2>2, OperationNames
  <2> QED BY <1>1, <2>2, <2>3, BeginKeeps DEF x
<1>2. CASE BeginSale(t)
  <2>1. PICK plan \in Plans, q \in Quantities :
          Begin(t, [Operation("deduct", plan, q) EXCEPT !.ask = Asking(plan, -q)])
    BY <1>2 DEF BeginSale
  <2>2. -q \in Int
    OBVIOUS
  <2> QED BY <2>1, <2>2, <1>1, Zenon
<1>3. CASE BeginReversal(t)
  <2>1. PICK plan \in Plans, q \in Quantities :
          Begin(t, [Operation("restore", plan, q) EXCEPT !.ask = Asking(plan, q)])
    BY <1>3 DEF BeginReversal
  <2>2. q \in Int
    OBVIOUS
  <2> QED BY <2>1, <2>2, <1>1, Zenon
<1>4. CASE BeginReceipt(t)
  <2>1. PICK items \in Deliveries, q \in Quantities, d \in ExpiryDays :
          Begin(t, [Operation("receive", items, q) EXCEPT !.exp = d, !.ask = Asking(items, q)])
    BY <1>4 DEF BeginReceipt
  <2> DEFINE ask == Asking(items, q)
             y == Operation("receive", items, q)
             z == [y EXCEPT !.exp = d]
             x == [z EXCEPT !.ask = ask]
  <2>2. "receive" \in OpNames /\ items \in Seq(Items) /\ items # <<>> /\ q \in Nat /\ d \in Nat
    BY DeliveriesAssumption DEF OpNames
  <2>3. Begin(t, x)
    BY <2>1
  <2>4. ask \in [Items -> Int]
    BY <2>2, AskingType
  <2> HIDE DEF ask
  <2>5. y \in TxRecords /\ y.op = "receive" /\ y.code = Program["receive"] /\ y.items = items
    BY <2>2, OperationType
  <2> HIDE DEF y
  <2>6. z \in TxRecords /\ z.op = "receive" /\ z.code = Program["receive"] /\ z.items = items
    BY <2>2, <2>5, ExpiryType
  <2> HIDE DEF z
  <2>7. x \in TxRecords /\ x.op = "receive" /\ x.code = Program["receive"] /\ x.items = items
    BY <2>4, <2>6, AskType
  <2> HIDE DEF x
  <2>8. RowsNamed(x)
    BY <2>2, <2>7, OperationNames
  <2> QED BY <2>3, <2>7, <2>8, BeginKeeps
<1>5. CASE BeginWaste(t)
  <2>1. PICK i \in Items, q \in Quantities, b \in Batches :
          Begin(t, [Operation("waste", <<i>>, q) EXCEPT !.row = b, !.ask = Asking(<<i>>, -q)])
    BY <1>5 DEF BeginWaste
  <2> DEFINE items == <<i>>
             ask == Asking(items, -q)
             y == Operation("waste", items, q)
             z == [y EXCEPT !.row = b]
             x == [z EXCEPT !.ask = ask]
  <2>2. "waste" \in OpNames /\ items \in Seq(Items) /\ items # <<>> /\ q \in Nat /\ -q \in Int
    BY DEF OpNames
  <2>3. Begin(t, x)
    BY <2>1
  <2>4. ask \in [Items -> Int]
    BY <2>2, AskingType
  <2> HIDE DEF items, ask
  <2>5. y \in TxRecords /\ y.op = "waste" /\ y.code = Program["waste"] /\ y.items = items
    BY <2>2, OperationType
  <2> HIDE DEF y
  <2>6. /\ z \in TxRecords /\ z.op = "waste" /\ z.code = Program["waste"]
        /\ z.items = items /\ z.row = b
    BY <2>5, RowType
  <2> HIDE DEF z
  <2>7. /\ x \in TxRecords /\ x.op = "waste" /\ x.code = Program["waste"]
        /\ x.items = items /\ x.row = b
    BY <2>4, <2>6, AskType
  <2> HIDE DEF x
  <2>8. RowsNamed(x)
    BY <2>2, <2>7, OperationNames
  <2> QED BY <2>3, <2>7, <2>8, BeginKeeps
<1>6. CASE BeginDisposal(t)
  <2>1. PICK b \in Batches :
          Begin(t, [Operation("dispose", <<committed[b].item>>, 0) EXCEPT !.row = b])
    BY <1>6 DEF BeginDisposal
  <2> DEFINE items == <<committed[b].item>>
             x == [Operation("dispose", items, 0) EXCEPT !.row = b]
  <2>2. "dispose" \in OpNames /\ items \in Seq(Items) /\ items # <<>>
    BY DEF OpNames, StockInv, RowsInv, Sound, BatchRow
  <2> HIDE DEF items
  <2>3. /\ x \in TxRecords /\ x.op = "dispose" /\ x.code = Program["dispose"]
        /\ x.items = items /\ x.row = b
    BY <2>2, OperationType, RowType
  <2> HIDE DEF x
  <2>4. RowsNamed(x)
    BY <2>2, <2>3, OperationNames
  <2> QED BY <2>1, <2>3, <2>4, BeginKeeps DEF x, items
<1>7. CASE BeginTransfer(t)
  <2>1. PICK r \in Transfers :
          Begin(t, [Operation("transfer", <<TransferOf[r].from, TransferOf[r].to>>,
                              TransferOf[r].qty) EXCEPT !.row = r])
    BY <1>7 DEF BeginTransfer
  <2> DEFINE items == <<TransferOf[r].from, TransferOf[r].to>>
             q == TransferOf[r].qty
             y == Operation("transfer", items, q)
             x == [y EXCEPT !.row = r]
  <2>2. /\ "transfer" \in OpNames /\ q \in Nat
        /\ items \in Seq(Items) /\ items # <<>> /\ Len(items) > 1
    BY TransferAssumption DEF OpNames
  <2>3. Begin(t, x)
    BY <2>1
  <2> HIDE DEF items, q
  <2>4. y \in TxRecords /\ y.op = "transfer" /\ y.code = Program["transfer"] /\ y.items = items
    BY <2>2, OperationType
  <2> HIDE DEF y
  <2>5. /\ x \in TxRecords /\ x.op = "transfer" /\ x.code = Program["transfer"]
        /\ x.items = items /\ x.row = r
    BY <2>4, RowType
  <2> HIDE DEF x
  <2>6. RowsNamed(x)
    BY <2>2, <2>5, OperationNames
  <2> QED BY <2>3, <2>5, <2>6, BeginKeeps
<1> QED BY <1>2, <1>3, <1>4, <1>5, <1>6, <1>7 DEF Starts

-------------------------------------------------------------------------------
(* Statements.                                                             *)

LEMMA ReadKeeps ==
  ASSUME StockInv, UNCHANGED <<db, committed, lock, net>>, TxInv'
  PROVE  StockInv'
BY DEF StockInv, RowsInv, FreeRowsCommitted

LEMMA WriteKeeps ==
  ASSUME StockInv, NEW t \in Txns, NEW r, NEW value, Fits(r, value),
         Write(t, r, value), UNCHANGED <<committed, net>>, TxInv'
  PROVE  StockInv'
BY WriteSound DEF StockInv

\* A transaction and what holds of one about to execute a statement.
LEMMA Running ==
  ASSUME StockInv, NEW t \in Txns, NEW statement, Runs(t, statement)
  PROVE  /\ tx[t] \in TxRecords /\ RowsNamed(tx[t])
         /\ tx[t].code # <<>>
         /\ 1 \in 1 .. Len(tx[t].code) /\ tx[t].code[1] = statement
         /\ tx[t].items # <<>> /\ tx[t].items[1] \in Items
         /\ tx[t].qty \in Nat /\ tx[t].left \in Nat /\ tx[t].exp \in Nat
         /\ tx[t].list \subseteq Snapshots
<1>1. tx[t] \in TxRecords /\ RowsNamed(tx[t]) /\ tx[t].code # <<>>
  BY DEF StockInv, TxInv, Runs
<1>2. /\ tx[t].code \in Seq(Statements) /\ tx[t].items \in Seq(Items)
      /\ tx[t].qty \in Nat /\ tx[t].left \in Nat /\ tx[t].exp \in Nat
      /\ tx[t].list \subseteq Snapshots
  BY <1>1 DEF TxRecords
<1>3. 1 \in 1 .. Len(tx[t].code) /\ tx[t].code[1] = statement
  BY <1>1, <1>2 DEF Runs
<1>4. tx[t].items # <<>> /\ tx[t].items[1] \in Items
  BY <1>1, <1>2 DEF RowsNamed
<1> QED BY <1>1, <1>2, <1>3, <1>4

LEMMA SameRows ==
  ASSUME NEW x \in TxRecords, RowsNamed(x), NEW y \in TxRecords,
         y.op = x.op, y.code = x.code, y.items = x.items, y.row = x.row
  PROVE  RowsNamed(y)
BY DEF RowsNamed

\* What was read may change without further ado.
LEMMA ListType ==
  ASSUME NEW x \in TxRecords, RowsNamed(x), NEW list \in SUBSET Snapshots
  PROVE  /\ [x EXCEPT !.list = list] \in TxRecords
         /\ RowsNamed([x EXCEPT !.list = list])
         /\ [x EXCEPT !.list = list].code = x.code
<1> DEFINE y == [x EXCEPT !.list = list]
<1>1. /\ y \in TxRecords /\ y.op = x.op /\ y.code = x.code
      /\ y.items = x.items /\ y.row = x.row
  BY DEF TxRecords
<1> HIDE DEF y
<1>2. RowsNamed(y)
  BY <1>1, SameRows
<1> QED BY <1>1, <1>2 DEF y

LEMMA CacheDownKeeps ==
  ASSUME StockInv, NEW t \in Txns, CacheDown(t)
  PROVE  StockInv'
<1> DEFINE i == tx[t].items[1]
           x == tx[t]
<1>1. /\ x \in TxRecords /\ RowsNamed(x) /\ x.code # <<>>
      /\ 1 \in 1 .. Len(x.code) /\ x.code[1] = "CacheDown"
      /\ i \in Items /\ x.qty \in Nat /\ x.items # <<>>
  BY Running DEF CacheDown
<1>2. CASE Throw(t)
  BY <1>2, ThrowKeeps
<1>3. CASE /\ db[i] >= x.qty
           /\ Write(t, i, db[i] - x.qty)
           /\ Continue(t, [x EXCEPT !.items = IF x.op = "transfer" THEN Tail(@) ELSE @])
           /\ UNCHANGED <<committed, net, begun, today>>
  <2>1. Fits(i, db[i] - x.qty)
    <3>1. db[i] \in Nat
      BY <1>1 DEF StockInv, RowsInv, Sound
    <3> QED BY <1>1, <1>3, <3>1 DEF Fits
  <2>2. TxInv'
    <3> DEFINE rest == IF x.op = "transfer" THEN Tail(x.items) ELSE x.items
               y == [x EXCEPT !.items = rest]
               z == [y EXCEPT !.code = Tail(@)]
    <3>1. /\ x.code \in Seq(Statements) /\ x.items \in Seq(Items)
          /\ Len(x.items) \in Nat /\ Len(Tail(x.items)) = Len(x.items) - 1
          /\ Len(x.code) \in Nat /\ Len(Tail(x.code)) = Len(x.code) - 1
          /\ Tail(x.code) \in Seq(Statements)
          /\ \A n \in 1 .. Len(Tail(x.code)) : /\ n + 1 \in 1 .. Len(x.code)
                                               /\ Tail(x.code)[n] = x.code[n + 1]
      BY <1>1 DEF TxRecords
    <3>2. /\ y \in TxRecords /\ y.op = x.op /\ y.code = x.code /\ y.row = x.row
          /\ y.items = rest
      <4>1. rest \in Seq(Items)
        BY <1>1, <3>1
      <4> HIDE DEF rest
      <4> QED BY <1>1, <4>1 DEF TxRecords
    <3> HIDE DEF y
    <3>3. /\ z \in TxRecords /\ z.op = x.op /\ z.code = Tail(x.code) /\ z.row = x.row
          /\ z.items = IF x.op = "transfer" THEN Tail(x.items) ELSE x.items
      BY <3>1, <3>2 DEF TxRecords
    <3>4. tx' = [tx EXCEPT ![t] = z]
      BY <1>3 DEF Continue, y
    <3> HIDE DEF z, x
    <3>5. RowsNamed(z)
      <4>1. CASE x.op # "transfer"
        BY <4>1, <1>1, <3>1, <3>3 DEF RowsNamed
      <4>2. CASE x.op = "transfer"
        <5>1. Len(x.items) > 1 /\ \A m \in 1 .. Len(x.code) : x.code[m] = "CacheDown" => m = 1
          BY <4>2, <1>1 DEF RowsNamed
        <5>2. z.items # <<>>
          <6>1. z.items = Tail(x.items)
            BY <4>2, <3>3
          <6>2. Len(z.items) > 0
            BY <6>1, <5>1, <3>1
          <6> QED BY <6>2
        <5>3. \A n \in 1 .. Len(z.code) : z.code[n] # "CacheDown"
          <6> SUFFICES ASSUME NEW n \in 1 .. Len(z.code), z.code[n] = "CacheDown" PROVE FALSE
            OBVIOUS
          <6>1. n + 1 \in 1 .. Len(x.code) /\ x.code[n + 1] = "CacheDown"
            BY <3>1, <3>3
          <6>2. n + 1 = 1
            BY <6>1, <5>1
          <6> QED BY <6>2, <3>1, <3>3
        <5> QED BY <1>1, <3>1, <3>3, <5>2, <5>3 DEF RowsNamed
      <4> QED BY <4>1, <4>2
    <3> QED BY <3>3, <3>4, <3>5, TxChanges DEF StockInv
  <2> QED BY <1>3, <2>1, <2>2, WriteKeeps
<1> QED BY <1>2, <1>3 DEF CacheDown

\* A reversal or a receipt goes on with its next item.
LEMMA GoOnKeeps ==
  ASSUME TxInv, NEW t \in Txns, NEW op \in {"restore", "receive"}, tx[t] \in TxRecords,
         Len(tx[t].items) > 1,
         tx' = [tx EXCEPT ![t].items = Tail(@), ![t].code = Program[op]]
  PROVE  TxInv'
<1> DEFINE x == tx[t]
           rest == Tail(x.items)
           code == Program[op]
           y == [x EXCEPT !.items = rest, !.code = code]
<1>1. rest \in Seq(Items) /\ Len(rest) > 0
  BY DEF TxRecords
<1>2. op \in OpNames
  BY DEF OpNames
<1>3. /\ code \in Seq(Statements)
      /\ \A n \in 1 .. Len(code) : code[n] \notin {"Claim", "ReadNamed", "ReadExpired", "Expire"}
  BY <1>2, ProgramCode
<1>4. \A n \in 1 .. Len(code) : code[n] # "CacheDown"
  <2>1. code = <<"CacheUp", "Pick", "PutBack">> \/ code = <<"Create", "CacheUp">>
    BY DEF Program
  <2> HIDE DEF code
  <2>2. CASE code = <<"CacheUp", "Pick", "PutBack">>
    BY <2>2
  <2>3. CASE code = <<"Create", "CacheUp">>
    BY <2>3
  <2> QED BY <2>1, <2>2, <2>3
<1>5. tx' = [tx EXCEPT ![t] = y]
  OBVIOUS
<1> HIDE DEF rest, code
<1>6. y \in TxRecords /\ y.code = code /\ y.items = rest
  BY <1>1, <1>3 DEF TxRecords
<1> HIDE DEF y
<1>7. y.items # <<>>
  BY <1>1, <1>6
<1>8. RowsNamed(y)
  BY <1>3, <1>4, <1>6, <1>7 DEF RowsNamed
<1> QED BY <1>5, <1>6, <1>8, TxChanges

LEMMA CacheUpKeeps ==
  ASSUME StockInv, NEW t \in Txns, CacheUp(t)
  PROVE  StockInv'
<1> DEFINE i == tx[t].items[1]
<1>1. /\ tx[t] \in TxRecords /\ RowsNamed(tx[t]) /\ tx[t].code # <<>>
      /\ i \in Items /\ tx[t].qty \in Nat
  BY Running DEF CacheUp
<1>2. Fits(i, db[i] + tx[t].qty)
  <2>1. db[i] \in Nat
    BY <1>1 DEF StockInv, RowsInv, Sound
  <2> QED BY <1>1, <2>1 DEF Fits
<1>3. TxInv'
  <2>1. CASE /\ Len(tx[t].items) > 1
             /\ tx' = [tx EXCEPT ![t].items = Tail(@), ![t].code = Program["receive"]]
    BY <1>1, <2>1, GoOnKeeps DEF StockInv
  <2>2. CASE Continue(t, tx[t])
    BY <1>1, <2>2, ContinueKeeps DEF StockInv
  <2> QED BY <2>1, <2>2 DEF CacheUp
<1> QED BY <1>2, <1>3, WriteKeeps DEF CacheUp

LEMMA ListKeeps ==
  ASSUME StockInv, NEW t \in Txns, List(t)
  PROVE  StockInv'
<1> DEFINE list == {s \in BatchesOf(t, "ACTIVE") : tx[t].op = "deduct" => s.exp >= today}
<1>1. tx[t] \in TxRecords /\ RowsNamed(tx[t]) /\ tx[t].code # <<>>
  BY Running DEF List
<1>2. list \in SUBSET Snapshots
  BY BatchesSound DEF StockInv
<1>3. Continue(t, [tx[t] EXCEPT !.list = list])
  BY DEF List
<1> HIDE DEF list
<1>4. TxInv'
  BY <1>1, <1>2, <1>3, ListType, ContinueKeeps DEF StockInv
<1> QED BY <1>4, ReadKeeps DEF List

\* A batch read before is an id and numbers.
LEMMA Read ==
  ASSUME NEW b \in Snapshots
  PROVE  b.id \in Batches /\ b.qty \in Nat /\ b.st \in BatchStatuses /\ b.exp \in Nat
BY DEF Snapshots

\* The quantity and the status of a batch may be set.
LEMMA BatchFits ==
  ASSUME StockInv, NEW b \in Batches, NEW q \in Nat, NEW st \in BatchStatuses
  PROVE  /\ db[b].qty \in Nat /\ db[b].st \in BatchStatuses
         /\ Fits(b, [db[b] EXCEPT !.qty = q])
         /\ Fits(b, [db[b] EXCEPT !.qty = q, !.st = st])
<1>1. db[b] \in BatchRow /\ db[b].qty >= 0
  BY DEF StockInv, RowsInv, Sound
<1>2. db[b].qty \in Nat /\ db[b].st \in BatchStatuses
  BY <1>1 DEF BatchRow
<1>3. [db[b] EXCEPT !.qty = q] \in BatchRow /\ [db[b] EXCEPT !.qty = q].qty >= 0
  BY <1>1 DEF BatchRow
<1>4. /\ [db[b] EXCEPT !.qty = q, !.st = st] \in BatchRow
      /\ [db[b] EXCEPT !.qty = q, !.st = st].qty >= 0
  <2> DEFINE v == [db[b] EXCEPT !.qty = q]
             w == [v EXCEPT !.st = st]
  <2>1. v \in BatchRow /\ v.qty = q
    BY <1>1 DEF BatchRow
  <2> HIDE DEF v
  <2>2. w \in BatchRow /\ w.qty = q
    BY <2>1 DEF BatchRow
  <2> QED BY <2>2 DEF v
<1> QED BY <1>2, <1>3, <1>4 DEF Fits

LEMMA TakeKeeps ==
  ASSUME StockInv, NEW t \in Txns, Take(t)
  PROVE  StockInv'
<1>1. PICK b \in tx[t].list :
        LET whole == b.qty <= tx[t].left
            row == db[b.id]
        IN
         /\ Runs(t, "Take")
         /\ IF IF whole THEN row.qty = b.qty ELSE row.qty >= tx[t].left
              THEN /\ Write(t, b.id,
                        IF whole THEN [row EXCEPT !.qty = 0, !.st = "DEPLETED"]
                                 ELSE [row EXCEPT !.qty = @ - tx[t].left])
                   /\ tx' = [tx EXCEPT ![t].left = IF whole THEN @ - b.qty ELSE 0,
                                       ![t].list = @ \ {b},
                                       ![t].exp = IF b.exp < @ THEN b.exp ELSE @]
                   /\ UNCHANGED <<committed, net, begun, today>>
              ELSE Throw(t)
  BY DEF Take
<1> DEFINE x == tx[t]
           whole == b.qty <= x.left
           row == db[b.id]
           value == IF whole THEN [row EXCEPT !.qty = 0, !.st = "DEPLETED"]
                             ELSE [row EXCEPT !.qty = @ - x.left]
           left == IF whole THEN x.left - b.qty ELSE 0
           list == x.list \ {b}
           exp == IF b.exp < x.exp THEN b.exp ELSE x.exp
           y == [x EXCEPT !.left = left, !.list = list, !.exp = exp]
<1>2. /\ x \in TxRecords /\ RowsNamed(x)
      /\ x.left \in Nat /\ x.exp \in Nat /\ x.list \subseteq Snapshots
  BY <1>1, Running
<1>3. b.id \in Batches /\ b.qty \in Nat /\ b.exp \in Nat
  BY <1>2, Read
<1>4. CASE Throw(t)
  BY <1>4, ThrowKeeps
<1>5. CASE /\ IF whole THEN row.qty = b.qty ELSE row.qty >= x.left
           /\ Write(t, b.id, value)
           /\ tx' = [tx EXCEPT ![t].left = IF whole THEN @ - b.qty ELSE 0,
                               ![t].list = @ \ {b},
                               ![t].exp = IF b.exp < @ THEN b.exp ELSE @]
           /\ UNCHANGED <<committed, net, begun, today>>
  <2>1. left \in Nat /\ list \in SUBSET Snapshots /\ exp \in Nat
    BY <1>2, <1>3
  <2>2. Fits(b.id, value)
    <3>1. CASE whole
      <4>1. 0 \in Nat /\ "DEPLETED" \in BatchStatuses
        BY DEF BatchStatuses
      <4> QED BY <1>3, <3>1, <4>1, BatchFits
    <3>2. CASE ~whole
      <4>1. row.qty \in Nat
        BY <1>3, BatchFits DEF BatchStatuses
      <4>2. row.qty - x.left \in Nat
        BY <1>2, <1>5, <3>2, <4>1
      <4>3. "ACTIVE" \in BatchStatuses
        BY DEF BatchStatuses
      <4> QED BY <1>3, <3>2, <4>2, <4>3, BatchFits
    <3> QED BY <3>1, <3>2
  <2>3. tx' = [tx EXCEPT ![t] = y]
    BY <1>5
  <2> HIDE DEF left, list, exp
  <2>4. y \in TxRecords /\ y.op = x.op /\ y.code = x.code /\ y.items = x.items /\ y.row = x.row
    BY <1>2, <2>1 DEF TxRecords
  <2> HIDE DEF y, x
  <2>5. TxInv'
    BY <1>2, <2>3, <2>4, SameRows, TxChanges DEF StockInv
  <2> QED BY <1>5, <2>2, <2>5, WriteKeeps
<1> QED BY <1>1, <1>4, <1>5

LEMMA TakeDoneKeeps ==
  ASSUME StockInv, NEW t \in Txns, TakeDone(t)
  PROVE  StockInv'
<1> DEFINE x == tx[t]
<1>1. /\ x \in TxRecords /\ RowsNamed(x) /\ x.code # <<>>
      /\ x.items \in Seq(Items) /\ x.qty \in Nat
  BY Running DEF TakeDone, TxRecords
<1>2. CASE Throw(t)
  BY <1>2, ThrowKeeps
<1>3. CASE /\ x.op = "deduct" /\ Len(x.items) > 1
           /\ tx' = [tx EXCEPT ![t].items = Tail(@), ![t].left = x.qty,
                               ![t].list = {}, ![t].code = Program["deduct"]]
           /\ UNCHANGED <<db, committed, lock, net, begun, today>>
  <2> DEFINE rest == Tail(x.items)
             code == Program["deduct"]
             y == [x EXCEPT !.items = rest, !.left = x.qty, !.list = {}, !.code = code]
  <2>1. rest \in Seq(Items) /\ Len(rest) > 0
    BY <1>1, <1>3
  <2>2. code \in Seq(Statements) /\ "deduct" \in OpNames
    BY ProgramCode DEF OpNames
  <2>3. tx' = [tx EXCEPT ![t] = y]
    BY <1>3
  <2> HIDE DEF rest, code
  <2>4. y \in TxRecords /\ y.op = "deduct" /\ y.code = code /\ y.items = rest
    BY <1>1, <1>3, <2>1, <2>2 DEF TxRecords
  <2> HIDE DEF y
  <2>5. y.items # <<>>
    BY <2>1, <2>4
  <2>6. RowsNamed(y)
    BY <2>2, <2>4, <2>5, OperationNames DEF code
  <2> QED BY <1>3, <2>3, <2>4, <2>6, TxChanges, ReadKeeps DEF StockInv
<1>4. CASE /\ Continue(t, [x EXCEPT !.list = {}])
           /\ UNCHANGED <<db, committed, lock, net, begun, today>>
  BY <1>1, <1>4, ListType, ContinueKeeps, ReadKeeps DEF StockInv
<1> QED BY <1>2, <1>3, <1>4 DEF TakeDone

LEMMA PickKeeps ==
  ASSUME StockInv, NEW t \in Txns, Pick(t)
  PROVE  StockInv'
<1> DEFINE x == tx[t]
           active == BatchesOf(t, "ACTIVE")
           depleted == BatchesOf(t, "DEPLETED")
<1>1. /\ x \in TxRecords /\ RowsNamed(x) /\ x.code # <<>> /\ x.items # <<>>
      /\ UNCHANGED <<db, committed, lock, net>>
  BY Running DEF Pick
<1>2. ASSUME NEW b \in active \union depleted, Continue(t, [x EXCEPT !.list = {b}])
      PROVE  StockInv'
  <2>1. {b} \in SUBSET Snapshots
    BY BatchesSound DEF StockInv
  <2> QED BY <1>1, <1>2, <2>1, ListType, ContinueKeeps, ReadKeeps DEF StockInv
<1>3. CASE tx' = [tx EXCEPT ![t].code = <<"Create", "PutBack">>]
  <2> DEFINE code == <<"Create", "PutBack">>
             y == [x EXCEPT !.code = code]
  <2>1. /\ code \in Seq(Statements)
        /\ \A n \in 1 .. Len(code) : code[n] \in {"Create", "PutBack"}
    BY DEF Statements
  <2>2. tx' = [tx EXCEPT ![t] = y]
    BY <1>3
  <2> HIDE DEF code
  <2>3. y \in TxRecords /\ y.code = code /\ y.items = x.items
    BY <1>1, <2>1 DEF TxRecords
  <2> HIDE DEF y
  <2>4. \A n \in 1 .. Len(y.code) : y.code[n] \in {"Create", "PutBack"}
    BY <2>1, <2>3
  <2>5. RowsNamed(y)
    BY <1>1, <2>3, <2>4 DEF RowsNamed
  <2> QED BY <1>1, <2>2, <2>3, <2>5, TxChanges, ReadKeeps DEF StockInv
<1> QED BY <1>2, <1>3 DEF Pick

LEMMA PutBackKeeps ==
  ASSUME StockInv, NEW t \in Txns, PutBack(t)
  PROVE  StockInv'
<1> DEFINE x == tx[t]
<1>1. PICK b \in x.list :
        Write(t, b.id, [db[b.id] EXCEPT !.qty = @ + x.qty,
                          !.st = IF b.st = "DEPLETED" THEN "ACTIVE" ELSE @])
  BY DEF PutBack
<1>2. x \in TxRecords /\ RowsNamed(x) /\ x.qty \in Nat /\ x.list \subseteq Snapshots
  BY Running DEF PutBack
<1> DEFINE row == db[b.id]
           q == row.qty + x.qty
           st == IF b.st = "DEPLETED" THEN "ACTIVE" ELSE row.st
<1>3. b.id \in Batches /\ row.qty \in Nat /\ row.st \in BatchStatuses /\ "ACTIVE" \in BatchStatuses
  BY <1>2, Read, BatchFits DEF BatchStatuses
<1>4. q \in Nat /\ st \in BatchStatuses
  BY <1>2, <1>3
<1>5. Write(t, b.id, [row EXCEPT !.qty = q, !.st = st])
  BY <1>1
<1> HIDE DEF q, st
<1>6. Fits(b.id, [row EXCEPT !.qty = q, !.st = st])
  BY <1>3, <1>4, BatchFits
<1>7. TxInv'
  <2>1. {} \in SUBSET Snapshots /\ tx' = [tx EXCEPT ![t] = [x EXCEPT !.list = {}]]
    BY DEF PutBack
  <2> QED BY <1>2, <2>1, ListType, TxChanges DEF StockInv
<1> QED BY <1>5, <1>6, <1>7, WriteKeeps DEF PutBack

LEMMA PutBackDoneKeeps ==
  ASSUME StockInv, NEW t \in Txns, PutBackDone(t)
  PROVE  StockInv'
<1> DEFINE x == tx[t]
<1>1. /\ x \in TxRecords /\ RowsNamed(x) /\ x.code # <<>> /\ x.items \in Seq(Items)
      /\ UNCHANGED <<db, committed, lock, net>>
  BY Running DEF PutBackDone, TxRecords
<1>2. CASE /\ Len(x.items) > 1
           /\ tx' = [tx EXCEPT ![t].items = Tail(@), ![t].code = Program["restore"]]
  <2>1. TxInv'
    BY <1>1, <1>2, GoOnKeeps DEF StockInv
  <2> QED BY <1>1, <2>1, ReadKeeps
<1>3. CASE Continue(t, x)
  BY <1>1, <1>3, ContinueKeeps, ReadKeeps DEF StockInv
<1> QED BY <1>2, <1>3 DEF PutBackDone

LEMMA CreateKeeps ==
  ASSUME StockInv, NEW t \in Txns, Create(t)
  PROVE  StockInv'
<1> DEFINE x == tx[t]
           value == [item |-> x.items[1], qty |-> x.qty, st |-> "ACTIVE", exp |-> x.exp]
<1>1. PICK b \in Batches : Write(t, b, value)
  BY DEF Create
<1>2. /\ x \in TxRecords /\ RowsNamed(x) /\ x.code # <<>>
      /\ x.items[1] \in Items /\ x.qty \in Nat /\ x.exp \in Nat
  BY Running DEF Create
<1>3. value \in BatchRow /\ value.qty >= 0
  BY <1>2 DEF BatchRow, BatchStatuses
<1> HIDE DEF value
<1>4. Fits(b, value)
  BY <1>3 DEF Fits
<1>5. TxInv'
  BY <1>2, ContinueKeeps DEF Create, StockInv
<1> QED BY <1>1, <1>4, <1>5, WriteKeeps DEF Create

LEMMA ClaimKeeps ==
  ASSUME StockInv, NEW t \in Txns, Claim(t)
  PROVE  StockInv'
<1> DEFINE x == tx[t]
<1>1. /\ x \in TxRecords /\ RowsNamed(x) /\ x.code # <<>>
      /\ 1 \in 1 .. Len(x.code) /\ x.code[1] = "Claim"
  BY Running DEF Claim
<1>2. x.row \in Transfers
  BY <1>1 DEF RowsNamed
<1>3. CASE Throw(t)
  BY <1>3, ThrowKeeps
<1>4. CASE /\ Write(t, x.row, "COMPLETED")
           /\ Continue(t, x)
           /\ UNCHANGED <<committed, net, begun, today>>
  <2>1. Fits(x.row, "COMPLETED")
    BY <1>2 DEF Fits
  <2>2. TxInv'
    BY <1>1, <1>4, ContinueKeeps DEF StockInv
  <2> QED BY <1>4, <2>1, <2>2, WriteKeeps
<1> QED BY <1>3, <1>4 DEF Claim

LEMMA ReadNamedKeeps ==
  ASSUME StockInv, NEW t \in Txns, ReadNamed(t)
  PROVE  StockInv'
<1> DEFINE x == tx[t]
           s == Snapshot(t, x.row)
<1>1. /\ x \in TxRecords /\ RowsNamed(x) /\ x.code # <<>>
      /\ 1 \in 1 .. Len(x.code) /\ x.code[1] = "ReadNamed"
  BY Running DEF ReadNamed
<1>2. s \in Snapshots
  <2>1. x.row \in Batches
    BY <1>1 DEF RowsNamed
  <2> QED BY <2>1, SnapshotSound DEF StockInv
<1>3. PICK list \in {{s}, {}} : Continue(t, [x EXCEPT !.list = list])
  BY DEF ReadNamed
<1> HIDE DEF s, x
<1>4. list \in SUBSET Snapshots
  BY <1>2
<1> QED BY <1>1, <1>3, <1>4, ListType, ContinueKeeps, ReadKeeps DEF ReadNamed, StockInv, x

LEMMA ReadExpiredKeeps ==
  ASSUME StockInv, NEW t \in Txns, ReadExpired(t)
  PROVE  StockInv'
<1> DEFINE x == tx[t]
           s == Snapshot(t, x.row)
<1>1. /\ x \in TxRecords /\ RowsNamed(x) /\ x.code # <<>> /\ x.items # <<>>
      /\ 1 \in 1 .. Len(x.code) /\ x.code[1] = "ReadExpired"
      /\ UNCHANGED <<db, committed, lock, net>>
  BY Running DEF ReadExpired
<1>2. s.qty \in Nat
  <2>1. x.row \in Batches
    BY <1>1 DEF RowsNamed
  <2> QED BY <2>1, SnapshotSound, Read DEF StockInv
<1>3. CASE Continue(t, [x EXCEPT !.qty = s.qty, !.ask = Asking(x.items, -s.qty)])
  <2> DEFINE q == s.qty
             ask == Asking(x.items, -q)
             y == [x EXCEPT !.qty = q]
             z == [y EXCEPT !.ask = ask]
  <2>1. q \in Nat /\ ask \in [Items -> Int]
    <3>1. q \in Nat /\ -q \in Int /\ x.items \in Seq(Items)
      BY <1>1, <1>2 DEF TxRecords
    <3> QED BY <3>1, AskingType
  <2>2. Continue(t, z)
    BY <1>3
  <2> HIDE DEF q, ask
  <2>3. y \in TxRecords /\ y.op = x.op /\ y.code = x.code /\ y.items = x.items /\ y.row = x.row
    BY <1>1, <2>1 DEF TxRecords
  <2> HIDE DEF y
  <2>4. z \in TxRecords /\ z.op = x.op /\ z.code = x.code /\ z.items = x.items /\ z.row = x.row
    BY <2>1, <2>3, AskType
  <2> HIDE DEF z, x
  <2>5. RowsNamed(z) /\ z.code # <<>>
    BY <1>1, <2>4, SameRows
  <2> QED BY <1>1, <2>2, <2>4, <2>5, ContinueKeeps, ReadKeeps DEF StockInv
<1>4. CASE tx' = [tx EXCEPT ![t].code = <<>>]
  <2> DEFINE y == [x EXCEPT !.code = <<>>]
  <2>1. y \in TxRecords /\ y.code = <<>>
    <3>1. <<>> \in Seq(Statements)
      OBVIOUS
    <3> QED BY <1>1, <3>1 DEF TxRecords
  <2>2. tx' = [tx EXCEPT ![t] = y]
    BY <1>4
  <2> HIDE DEF y
  <2>3. RowsNamed(y)
    BY <2>1 DEF RowsNamed
  <2> QED BY <1>1, <2>1, <2>2, <2>3, TxChanges, ReadKeeps DEF StockInv
<1> QED BY <1>3, <1>4 DEF ReadExpired

LEMMA OverwriteKeeps ==
  ASSUME StockInv, NEW t \in Txns, Overwrite(t)
  PROVE  StockInv'
<1> DEFINE x == tx[t]
<1>1. PICK b \in x.list :
        LET taken == IF b.qty < x.left THEN b.qty ELSE x.left
        IN /\ IF taken = 0 THEN UNCHANGED <<db, lock>>
              ELSE Write(t, b.id, [db[b.id] EXCEPT !.qty = b.qty - taken,
                                     !.st = IF b.qty = taken THEN "DEPLETED" ELSE "ACTIVE"])
           /\ tx' = [tx EXCEPT ![t].left = @ - taken, ![t].list = @ \ {b}]
  BY DEF Overwrite
<1>2. x \in TxRecords /\ RowsNamed(x) /\ x.left \in Nat /\ x.list \subseteq Snapshots
  BY Running DEF Overwrite
<1> DEFINE taken == IF b.qty < x.left THEN b.qty ELSE x.left
           left == x.left - taken
           list == x.list \ {b}
           q == b.qty - taken
           st == IF b.qty = taken THEN "DEPLETED" ELSE "ACTIVE"
           y == [x EXCEPT !.left = left, !.list = list]
<1>3. /\ b.id \in Batches /\ taken \in Nat /\ left \in Nat /\ q \in Nat
      /\ st \in BatchStatuses /\ list \in SUBSET Snapshots
  BY <1>2, Read DEF BatchStatuses
<1>4. tx' = [tx EXCEPT ![t] = y]
  BY <1>1
<1>5. \/ UNCHANGED <<db, lock>>
      \/ Write(t, b.id, [db[b.id] EXCEPT !.qty = q, !.st = st])
  BY <1>1
<1> HIDE DEF left, list, q, st, taken
<1>6. y \in TxRecords /\ y.op = x.op /\ y.code = x.code /\ y.items = x.items /\ y.row = x.row
  BY <1>2, <1>3 DEF TxRecords
<1> HIDE DEF y, x
<1>7. TxInv'
  BY <1>2, <1>4, <1>6, SameRows, TxChanges DEF StockInv
<1>8. Fits(b.id, [db[b.id] EXCEPT !.qty = q, !.st = st])
  BY <1>3, BatchFits
<1> QED BY <1>5, <1>7, <1>8, WriteKeeps, ReadKeeps DEF Overwrite

LEMMA OverwriteDoneKeeps ==
  ASSUME StockInv, NEW t \in Txns, OverwriteDone(t)
  PROVE  StockInv'
<1>1. tx[t] \in TxRecords /\ RowsNamed(tx[t]) /\ tx[t].code # <<>>
  BY Running DEF OverwriteDone
<1>2. {} \in SUBSET Snapshots
  OBVIOUS
<1> QED BY <1>1, <1>2, ListType, ContinueKeeps, ReadKeeps DEF OverwriteDone, StockInv

LEMMA ExpireKeeps ==
  ASSUME StockInv, NEW t \in Txns, Expire(t)
  PROVE  StockInv'
<1> DEFINE x == tx[t]
<1>1. /\ x \in TxRecords /\ RowsNamed(x) /\ x.code # <<>>
      /\ 1 \in 1 .. Len(x.code) /\ x.code[1] = "Expire"
  BY Running DEF Expire
<1>2. x.row \in Batches
  BY <1>1 DEF RowsNamed
<1>3. Fits(x.row, [db[x.row] EXCEPT !.qty = 0, !.st = "EXPIRED"])
  BY <1>2, BatchFits DEF BatchStatuses
<1>4. TxInv'
  BY <1>1, ContinueKeeps DEF Expire, StockInv
<1> QED BY <1>3, <1>4, WriteKeeps DEF Expire

-------------------------------------------------------------------------------
(* The reachable states.                                                   *)

\* The opening stock is a sum of quantities.
LEMMA InitialSums == \A i \in Items : \A statuses : SumOf(Initial, i, statuses) \in Nat
<1> SUFFICES ASSUME NEW i \in Items, NEW statuses PROVE SumOf(Initial, i, statuses) \in Nat
  OBVIOUS
<1> DEFINE S == BatchesIn(Initial, i, statuses)
           g == [b \in S |-> Initial[b].qty]
<1>1. IsFiniteSet(S)
  BY RowsAssumption, FS_Subset DEF BatchesIn
<1>2. \A b \in S : g[b] \in Nat
  BY InitialAssumption DEF BatchesIn, BatchRow
<1>3. SumOf(Initial, i, statuses) = SumFunctionOnSet(g, S)
  BY DEF SumOf, SumFunction
<1> HIDE DEF S, g
<1> QED BY <1>1, <1>2, <1>3, SumNat

LEMMA InitKeeps == Init => StockInv
<1> SUFFICES ASSUME Init PROVE StockInv
  OBVIOUS
<1>1. Sound(InitialDb)
  <2>1. \A i \in Items : InitialDb[i] \in Nat
    BY InitialSums, RowsAssumption DEF InitialDb, Rows
  <2>2. \A b \in Batches : InitialDb[b] = Initial[b]
    BY RowsAssumption DEF InitialDb, Rows
  <2>3. \A r \in Transfers : InitialDb[r] = "PENDING"
    BY RowsAssumption DEF InitialDb, Rows
  <2>4. InitialDb = [r \in Rows |-> InitialDb[r]]
    BY DEF InitialDb
  <2> QED BY <2>1, <2>2, <2>3, <2>4, InitialAssumption DEF Sound
<1>2. RowsInv
  BY <1>1 DEF Init, RowsInv, FreeRowsCommitted
<1>3. TxInv
  BY IdleNames DEF Init, TxInv
<1>4. net \in [Items -> Int]
  BY DEF Init, NoAsk
<1> QED BY <1>2, <1>3, <1>4 DEF StockInv

LEMMA NextKeeps == StockInv /\ [Next]_vars => StockInv'
<1> SUFFICES ASSUME StockInv, [Next]_vars PROVE StockInv'
  OBVIOUS
<1>1. CASE \E t \in Txns : Starts(t)
  BY <1>1, StartsKeep
<1>2. ASSUME NEW t \in Txns, Statement(t) PROVE StockInv'
  BY <1>2, CacheDownKeeps, CacheUpKeeps, ListKeeps, TakeKeeps, TakeDoneKeeps, PickKeeps,
     PutBackKeeps, PutBackDoneKeeps, CreateKeeps, ClaimKeeps, ReadNamedKeeps,
     ReadExpiredKeeps, OverwriteKeeps, OverwriteDoneKeeps, ExpireKeeps DEF Statement
<1>3. CASE \E t \in Txns : Commit(t) \/ Abort(t)
  BY <1>3, CommitKeeps, ThrowKeeps DEF Abort
<1>4. CASE NextDay
  BY <1>4 DEF NextDay, StockInv, RowsInv, FreeRowsCommitted, TxInv
<1>5. CASE UNCHANGED vars
  BY <1>5 DEF vars, StockInv, RowsInv, FreeRowsCommitted, TxInv
<1> QED BY <1>1, <1>2, <1>3, <1>4, <1>5 DEF Next

\* Every row keeps its type through every statement, commit and rollback of the
\* stock operations, and a row nobody holds has no uncommitted version.
THEOREM TypeCorrect == Spec => []TypeOK
<1>1. StockInv => TypeOK
  <2> SUFFICES ASSUME StockInv PROVE TypeOK
    OBVIOUS
  <2>1. \A v \in {db, committed} :
          /\ DOMAIN v = Rows
          /\ \A i \in Items : v[i] \in Int
          /\ \A b \in Batches : v[b] \in BatchRow
          /\ \A r \in Transfers : v[r] \in {"PENDING", "COMPLETED"}
    <3> SUFFICES ASSUME NEW v, Sound(v)
                 PROVE  /\ DOMAIN v = Rows
                        /\ \A i \in Items : v[i] \in Int
                        /\ \A b \in Batches : v[b] \in BatchRow
                        /\ \A r \in Transfers : v[r] \in {"PENDING", "COMPLETED"}
      BY DEF StockInv, RowsInv
    <3> QED BY DEF Sound
  <2>2. \A t \in Txns : tx[t].op \in DOMAIN Program \union {"none"} /\ tx[t].left >= 0
    <3>1. DOMAIN Program = OpNames
      BY DEF Program, OpNames
    <3> QED BY <3>1 DEF StockInv, TxInv, TxRecords
  <2> QED BY <2>1, <2>2 DEF TypeOK, StockInv, RowsInv
<1> QED BY <1>1, InitKeeps, NextKeeps, PTL DEF Spec

\* Neither the cache nor a batch goes below zero, whatever races: the conditional
\* updates of the code suffice and the CHECK constraints never fire.
THEOREM StockNonNegativeHolds == Spec => []StockNonNegative
<1>1. StockInv => StockNonNegative
  BY DEF StockInv, RowsInv, Sound, StockNonNegative
<1> QED BY <1>1, InitKeeps, NextKeeps, PTL DEF Spec

-------------------------------------------------------------------------------
(* The books of the stock: what each open transaction has changed so far.  *)

\* Sales, reversals, receipts and transfers.
CoreOps == {"deduct", "restore", "receive", "transfer"}

\* What a batch counts for the stock of an item.
At(row, i) == IF row.item = i /\ row.st = "ACTIVE" THEN row.qty ELSE 0

\* What t has changed of the cache of an item, and of its batches.
CacheDelta(t, i) == IF lock[i] = t THEN db[i] - committed[i] ELSE 0
Change(t, i) ==
  [b \in Batches |-> IF lock[b] = t THEN At(db[b], i) - At(committed[b], i) ELSE 0]
BatchDelta(t, i) == SumFunctionOnSet(Change(t, i), Batches)

\* By how much the cache of its current item is ahead of the batches.
Ahead(x) ==
  CASE x.op = "deduct" /\ Len(x.code) \in {1, 2} -> -x.left
    [] x.op = "restore" /\ (Len(x.code) = 2 \/ (Len(x.code) = 1 /\ x.list # {})) -> x.qty
    [] x.op = "receive" /\ Len(x.code) = 1 -> -x.qty
    [] x.op = "transfer" /\ Len(x.code) \in {3, 4, 5} -> x.qty - x.left
    [] x.op = "transfer" /\ Len(x.code) = 1 -> -x.qty
    [] OTHER -> 0

Owed(x, i) == IF x.op # "none" /\ i = x.items[1] THEN Ahead(x) ELSE 0

Account(t) == \A i \in Items : CacheDelta(t, i) = BatchDelta(t, i) + Owed(tx[t], i)

\* Where a transaction can be in its program, and with what.
DeductShape(x) ==
  /\ x.op = "deduct" /\ x.items # <<>>
  /\ \/ /\ x.code \in {<<"CacheDown", "List", "Take">>, <<"List", "Take">>}
        /\ x.list = {} /\ x.left = x.qty
     \/ x.code = <<"Take">>
     \/ x.code = <<>> /\ Len(x.items) = 1

RestoreShape(x) ==
  /\ x.op = "restore" /\ x.items # <<>>
  /\ \/ /\ x.code \in {<<"CacheUp", "Pick", "PutBack">>, <<"Pick", "PutBack">>,
                       <<"Create", "PutBack">>}
        /\ x.list = {}
     \/ x.code = <<"PutBack">> /\ (x.list = {} \/ \E s \in x.list : x.list = {s})
     \/ x.code = <<>> /\ Len(x.items) = 1

ReceiveShape(x) ==
  /\ x.op = "receive" /\ x.items # <<>> /\ x.list = {}
  /\ \/ x.code \in {<<"Create", "CacheUp">>, <<"CacheUp">>}
     \/ x.code = <<>> /\ Len(x.items) = 1

TransferShape(x) ==
  /\ x.op = "transfer" /\ x.row \in Transfers /\ x.qty = TransferOf[x.row].qty
  /\ x.items = IF Len(x.code) < 3 THEN <<TransferOf[x.row].to>>
               ELSE <<TransferOf[x.row].from, TransferOf[x.row].to>>
  /\ \/ /\ x.code \in {<<"Claim", "List", "Take", "CacheDown", "Create", "CacheUp">>,
                       <<"List", "Take", "CacheDown", "Create", "CacheUp">>}
        /\ x.list = {} /\ x.left = x.qty
     \/ x.code = <<"Take", "CacheDown", "Create", "CacheUp">>
     \/ /\ x.code \in {<<"CacheDown", "Create", "CacheUp">>, <<"Create", "CacheUp">>,
                       <<"CacheUp">>, <<>>}
        /\ x.list = {} /\ x.left = 0

Shape(x) == \/ x = Idle
            \/ DeductShape(x) \/ RestoreShape(x) \/ ReceiveShape(x) \/ TransferShape(x)

\* The cache of the current item is changed before its batches, or after them.
CacheFirst(x) == x.op \in {"deduct", "restore"} /\ Len(x.code) < 3
CacheLast(x) == \/ x.op = "receive" /\ Len(x.code) = 1
                \/ x.op = "transfer" /\ Len(x.code) \in {1, 3, 4}

\* t holds the cache row of every batch it has changed, or will change it next;
\* of the transfers, it holds the one it has claimed.
Locks(t) ==
  /\ tx[t].op = "none" => \A r \in Rows : lock[r] # t
  /\ CacheFirst(tx[t]) => lock[tx[t].items[1]] = t
  /\ \A b \in Batches : lock[b] = t =>
       lock[db[b].item] = t \/ (CacheLast(tx[t]) /\ db[b].item = tx[t].items[1])
  /\ \A r \in Transfers :
       /\ lock[r] = t <=> tx[t].op = "transfer" /\ Len(tx[t].code) < 6 /\ r = tx[t].row
       /\ lock[r] = t => db[r] = "COMPLETED" /\ committed[r] = "PENDING"

\* The items whose cache t has still to change, and what it asks of each.
Pending(x) == {x.items[k] : k \in (IF Len(x.code) = 3 THEN 1 ELSE 2) .. Len(x.items)}

Asks(x) ==
  /\ x.op \in {"deduct", "restore"} =>
       /\ IsInjective(x.items)
       /\ \A k \in DOMAIN x.items :
            x.ask[x.items[k]] = IF x.op = "deduct" THEN -x.qty ELSE x.qty
  /\ x.op = "transfer" => x.ask = NoAsk

Done(x, i) ==
  CASE x.op \in {"deduct", "restore"} -> IF i \in Pending(x) THEN 0 ELSE x.ask[i]
    [] x.op = "receive" ->
         x.ask[i] - (IF x.code = <<>> THEN 0 ELSE x.qty * Times(x.items, i))
    [] x.op = "transfer" ->
         (IF x.code = <<>> /\ TransferOf[x.row].to = i THEN x.qty ELSE 0)
         - (IF Len(x.code) < 3 /\ TransferOf[x.row].from = i THEN x.qty ELSE 0)
    [] OTHER -> 0

Booked(t) == Asks(tx[t]) /\ \A i \in Items : CacheDelta(t, i) = Done(tx[t], i)

Own(t) == Shape(tx[t]) /\ Locks(t) /\ Account(t) /\ Booked(t)

\* A batch t has read belongs to its current item for good; the one a reversal
\* picked is as it was read, as t holds the cache row.
Known(t, b) ==
  /\ db[b].item = tx[t].items[1] /\ db[b].st # "none"
  /\ lock[b] = t \/ (committed[b].item = tx[t].items[1] /\ committed[b].st # "none")

ListInv(t) ==
  \A s \in tx[t].list :
    /\ Known(t, s.id)
    /\ tx[t].op = "restore" => s.st = Seen(t, s.id).st /\ s.st \in {"ACTIVE", "DEPLETED"}

EmptyIn(v) == \A b \in Batches : v[b].st # "ACTIVE" => v[b].qty = 0

CacheInv ==
  \A i \in Items :
    committed[i] = SumFunctionOnSet([b \in Batches |-> At(committed[b], i)], Batches)

\* A batch that exists for all keeps its item.
KeptItems == \A b \in Batches : committed[b].st # "none" =>
  db[b].st # "none" /\ db[b].item = committed[b].item

BooksInv == /\ \A t \in Txns : Own(t) /\ ListInv(t)
            /\ EmptyIn(db) /\ EmptyIn(committed) /\ KeptItems /\ CacheInv

-------------------------------------------------------------------------------
(* What the steps of one transaction leave alone.                          *)

LEMMA Typed ==
  ASSUME StockInv
  PROVE  /\ \A i \in Items : db[i] \in Nat /\ committed[i] \in Nat
         /\ \A b \in Batches : /\ db[b] \in BatchRow /\ db[b].qty \in Nat
                               /\ committed[b] \in BatchRow /\ committed[b].qty \in Nat
         /\ \A b \in Batches : db[b].item \in Items /\ committed[b].item \in Items
         /\ \A r \in Rows : /\ lock[r] \in Txns \union {NoTxn}
                            /\ lock[r] = NoTxn => db[r] = committed[r]
         /\ NoTxn \notin Txns
<1>1. Sound(db) /\ Sound(committed) /\ FreeRowsCommitted
  BY DEF StockInv, RowsInv
<1>2. \A i \in Items : db[i] \in Nat /\ committed[i] \in Nat
  BY <1>1 DEF Sound
<1>3. \A b \in Batches : /\ db[b] \in BatchRow /\ db[b].qty >= 0
                         /\ committed[b] \in BatchRow /\ committed[b].qty >= 0
  BY <1>1 DEF Sound
<1>4. \A x \in BatchRow : x.item \in Items /\ x.qty \in Int
  BY DEF BatchRow
<1>5. \A b \in Batches : db[b].qty \in Nat /\ committed[b].qty \in Nat
  BY <1>3, <1>4
<1>6. \A r \in Rows : /\ lock[r] \in Txns \union {NoTxn}
                      /\ lock[r] = NoTxn => db[r] = committed[r]
  BY <1>1 DEF FreeRowsCommitted
<1> QED BY <1>2, <1>3, <1>4, <1>5, <1>6, NoTxnAssumption

LEMMA FrameOwn ==
  ASSUME StockInv, NEW u \in Txns, Own(u), tx'[u] = tx[u],
         \A r \in Rows : lock'[r] = u <=> lock[r] = u,
         \A r \in Rows : lock[r] = u => db'[r] = db[r] /\ committed'[r] = committed[r]
  PROVE  Own(u)'
<1>1. \A i \in Items : CacheDelta(u, i)' = CacheDelta(u, i)
  BY DEF CacheDelta, Rows
<1>2. \A i \in Items : BatchDelta(u, i)' = BatchDelta(u, i)
  <2> SUFFICES ASSUME NEW i \in Items PROVE BatchDelta(u, i)' = BatchDelta(u, i)
    OBVIOUS
  <2>1. Change(u, i)' = Change(u, i)
    BY DEF Change, Rows
  <2> QED BY <2>1 DEF BatchDelta
<1>3. Locks(u)'
  <2>1. Locks(u) /\ Shape(tx[u])
    BY DEF Own
  <2>2. (tx[u].op = "none" => \A r \in Rows : lock[r] # u)'
    BY <2>1 DEF Locks
  <2>3. (CacheFirst(tx[u]) => lock[tx[u].items[1]] = u)'
    <3>1. CacheFirst(tx[u]) => tx[u].items[1] \in Items
      <4>1. CacheFirst(tx[u]) => tx[u].items # <<>>
        BY <2>1 DEF CacheFirst, Shape, DeductShape, RestoreShape, ReceiveShape, TransferShape, Idle
      <4>2. tx[u].items \in Seq(Items)
        BY DEF StockInv, TxInv, TxRecords
      <4> QED BY <4>1, <4>2
    <3> QED BY <2>1, <3>1 DEF Locks, Rows
  <2>4. (\A b \in Batches : lock[b] = u =>
           lock[db[b].item] = u \/ (CacheLast(tx[u]) /\ db[b].item = tx[u].items[1]))'
    <3> SUFFICES ASSUME NEW b \in Batches, lock'[b] = u
                 PROVE  lock'[db'[b].item] = u \/ (CacheLast(tx[u]) /\ db'[b].item = tx[u].items[1])
      OBVIOUS
    <3>1. lock[b] = u /\ db'[b] = db[b] /\ db[b].item \in Items
      BY Typed DEF Rows
    <3> QED BY <2>1, <3>1 DEF Locks, Rows
  <2>5. (\A r \in Transfers :
           /\ lock[r] = u <=> tx[u].op = "transfer" /\ Len(tx[u].code) < 6 /\ r = tx[u].row
           /\ lock[r] = u => db[r] = "COMPLETED" /\ committed[r] = "PENDING")'
    BY <2>1 DEF Locks, Rows
  <2> QED BY <2>2, <2>3, <2>4, <2>5 DEF Locks
<1> QED BY <1>1, <1>2, <1>3 DEF Own, Account, Booked

LEMMA DeltaTypes ==
  ASSUME StockInv, NEW t, NEW i \in Items
  PROVE  /\ CacheDelta(t, i) \in Int /\ BatchDelta(t, i) \in Int
         /\ \A b \in Batches : Change(t, i)[b] \in Int
<1>1. CacheDelta(t, i) \in Int
  BY Typed DEF CacheDelta
<1>2. \A b \in Batches : Change(t, i)[b] \in Int
  BY Typed DEF Change, At
<1>3. BatchDelta(t, i) \in Int
  <2> DEFINE g == Change(t, i)
  <2>1. \A b \in Batches : g[b] \in Int
    BY <1>2
  <2> HIDE DEF g
  <2>2. SumFunctionOnSet(g, Batches) \in Int
    BY <2>1, RowsAssumption, SumInt
  <2> QED BY <2>2 DEF BatchDelta, g
<1> QED BY <1>1, <1>2, <1>3

\* A write moves the account of its item, or that of the items of its batch.
LEMMA WriteDeltas ==
  ASSUME StockInv, StockInv', NEW t \in Txns, NEW r \in Rows, NEW v,
         MayWrite(t, r), Write(t, r, v), UNCHANGED committed, NEW i \in Items
  PROVE  /\ CacheDelta(t, i)' = IF i = r THEN CacheDelta(t, i) + (v - db[r])
                                ELSE CacheDelta(t, i)
         /\ BatchDelta(t, i)' = IF r \in Batches
                                THEN BatchDelta(t, i) + (At(v, i) - At(db[r], i))
                                ELSE BatchDelta(t, i)
<1> USE DEF Rows
<1>1. /\ db' = [db EXCEPT ![r] = v] /\ lock' = [lock EXCEPT ![r] = t]
      /\ lock[r] \in {NoTxn, t}
      /\ db = [q \in Rows |-> db[q]] /\ lock \in [Rows -> Txns \union {NoTxn}]
  BY DEF Write, MayWrite, StockInv, RowsInv, Sound, FreeRowsCommitted
<1>2. /\ db'[r] = v /\ lock'[r] = t
      /\ \A q \in Rows \ {r} : db'[q] = db[q] /\ lock'[q] = lock[q]
  BY <1>1
<1>0. /\ \A j \in Items : db[j] \in Nat /\ committed[j] \in Nat
      /\ \A b \in Batches : At(db[b], i) \in Int /\ At(committed[b], i) \in Int
      /\ lock[r] = NoTxn => db[r] = committed[r]
  BY Typed DEF At
<1>9. /\ \A j \in Items : db'[j] \in Nat
      /\ \A b \in Batches : At(db'[b], i) \in Int
  <2>1. Sound(db)'
    BY DEF StockInv, RowsInv
  <2>2. \A b \in Batches : db'[b] \in BatchRow
    BY <2>1 DEF Sound
  <2> QED BY <2>1, <2>2 DEF Sound, At, BatchRow
<1>3. CacheDelta(t, i)' = IF i = r THEN CacheDelta(t, i) + (v - db[r]) ELSE CacheDelta(t, i)
  <2>1. CASE i = r
    <3>1. v \in Nat
      BY <1>2, <1>9, <2>1
    <3> QED BY <1>0, <1>1, <1>2, <2>1, <3>1 DEF CacheDelta
  <2>2. CASE i # r
    BY <1>2, <2>2 DEF CacheDelta
  <2> QED BY <2>1, <2>2
<1>4. CASE r \in Batches
  <2> DEFINE old == Change(t, i)
             new == Change(t, i)'
  <2>1. \A b \in Batches : old[b] \in Int /\ new[b] \in Int
    BY <1>0, <1>9 DEF Change
  <2>2. \A b \in Batches : b # r => new[b] = old[b]
    BY <1>2 DEF Change
  <2>3. new[r] - old[r] = At(v, i) - At(db[r], i)
    <3>1. At(v, i) \in Int /\ At(db[r], i) \in Int /\ At(committed[r], i) \in Int
      BY <1>0, <1>2, <1>4, <1>9
    <3>2. new[r] = At(v, i) - At(committed[r], i)
      BY <1>2, <1>4 DEF Change
    <3>3. old[r] = At(db[r], i) - At(committed[r], i)
      <4>1. CASE lock[r] = t
        BY <1>4, <4>1 DEF Change
      <4>2. CASE lock[r] # t
        <5>1. At(db[r], i) = At(committed[r], i) /\ old[r] = 0
          BY <1>0, <1>1, <1>4, <4>2 DEF Change
        <5> HIDE DEF old
        <5> QED BY <3>1, <5>1
      <4> QED BY <4>1, <4>2
    <3> HIDE DEF old, new
    <3> QED BY <3>1, <3>2, <3>3
  <2>4. BatchDelta(t, i) = SumFunctionOnSet(old, Batches)
        /\ BatchDelta(t, i)' = SumFunctionOnSet(new, Batches)
    BY DEF BatchDelta
  <2>5. SumFunctionOnSet(new, Batches) = SumFunctionOnSet(old, Batches) + (new[r] - old[r])
    <3> HIDE DEF old, new
    <3>1. /\ r \in Batches /\ IsFiniteSet(Batches)
          /\ \A b \in Batches : old[b] \in Int
          /\ \A b \in Batches : new[b] \in Int
      BY <1>4, <2>1, RowsAssumption
    <3> QED BY ONLY <2>2, <3>1, SumChange
  <2> HIDE DEF old, new
  <2> QED BY <1>3, <1>4, <2>3, <2>4, <2>5
<1>5. CASE r \notin Batches
  <2>1. Change(t, i)' = Change(t, i)
    BY <1>2, <1>5 DEF Change
  <2> QED BY <1>3, <1>5, <2>1 DEF BatchDelta
<1> QED BY <1>4, <1>5

-------------------------------------------------------------------------------
(* How the books survive a step of one transaction, whatever the others do. *)

\* A reversal that has picked a batch holds the cache row of its item.
LEMMA PickedLocked ==
  ASSUME NEW u, Own(u), tx[u].op = "restore", tx[u].list # {}
  PROVE  lock[tx[u].items[1]] = u
<1>1. Len(<<"PutBack">>) = 1 /\ Len(<<>>) = 0
  OBVIOUS
<1>2. RestoreShape(tx[u])
  BY DEF Own, Shape, DeductShape, RestoreShape, ReceiveShape, TransferShape, Idle
<1>3. CASE tx[u].code = <<"PutBack">>
  BY <1>1, <1>3 DEF CacheFirst, Own, Locks
<1>4. CASE tx[u].code = <<>>
  BY <1>1, <1>4 DEF CacheFirst, Own, Locks
<1> QED BY <1>2, <1>3, <1>4 DEF RestoreShape

LEMMA OthersAfterWrite ==
  ASSUME StockInv, NEW t \in Txns, NEW r \in Rows, NEW v,
         MayWrite(t, r), Write(t, r, v), UNCHANGED committed,
         r \in Batches => v.st # "none" /\ (db[r].st # "none" => v.item = db[r].item),
         NEW u \in Txns, u # t, tx'[u] = tx[u], Own(u), ListInv(u)
  PROVE  Own(u)' /\ ListInv(u)'
<1>1. /\ db' = [db EXCEPT ![r] = v] /\ lock' = [lock EXCEPT ![r] = t]
      /\ lock[r] \in {NoTxn, t} /\ NoTxn \notin Txns
      /\ db = [q \in Rows |-> db[q]] /\ lock \in [Rows -> Txns \union {NoTxn}]
  BY Typed DEF Write, MayWrite, StockInv, RowsInv, Sound, FreeRowsCommitted
<1>2. /\ db'[r] = v /\ lock'[r] = t /\ lock[r] # u
      /\ \A q \in Rows : q # r => db'[q] = db[q] /\ lock'[q] = lock[q]
  BY <1>1
<1>3. Own(u)'
  BY <1>2, FrameOwn
<1>4. ListInv(u)'
  <2> SUFFICES ASSUME NEW s \in tx[u].list
               PROVE  /\ Known(u, s.id)'
                      /\ tx[u].op = "restore" =>
                           s.st = Seen(u, s.id)'.st /\ s.st \in {"ACTIVE", "DEPLETED"}
    BY DEF ListInv
  <2>1. s.id \in Batches
    BY DEF StockInv, TxInv, TxRecords, Snapshots
  <2>2. /\ Known(u, s.id)
        /\ tx[u].op = "restore" => s.st = Seen(u, s.id).st /\ s.st \in {"ACTIVE", "DEPLETED"}
    BY DEF ListInv
  <2>3. Seen(u, s.id)' = Seen(u, s.id)
    BY <1>2, <2>1 DEF Seen, Rows
  <2>4. Known(u, s.id)'
    BY <1>2, <2>1, <2>2 DEF Known, Rows
  <2> QED BY <2>2, <2>3, <2>4
<1> QED BY <1>3, <1>4

\* A statement that writes one row keeps the books if it keeps those of its own
\* transaction, and a batch keeps its item and is empty unless ACTIVE.
LEMMA WriteBooks ==
  ASSUME StockInv, BooksInv, NEW t \in Txns, NEW r \in Rows, NEW v, NEW y,
         MayWrite(t, r), Write(t, r, v), UNCHANGED committed, tx' = [tx EXCEPT ![t] = y],
         r \in Batches => /\ v.st # "none" /\ (db[r].st # "none" => v.item = db[r].item)
                          /\ v.st # "ACTIVE" => v.qty = 0,
         Own(t)', ListInv(t)'
  PROVE  BooksInv'
<1>1. \A u \in Txns : u # t => tx'[u] = tx[u]
  BY DEF StockInv, TxInv
<1>2. \A u \in Txns : Own(u)' /\ ListInv(u)'
  BY <1>1, OthersAfterWrite DEF BooksInv
<1>3. EmptyIn(db)' /\ KeptItems'
  <2>1. /\ db' = [db EXCEPT ![r] = v] /\ db = [q \in Rows |-> db[q]]
    BY DEF Write, StockInv, RowsInv, Sound
  <2>2. \A b \in Batches : db'[b] = IF b = r THEN v ELSE db[b]
    BY <2>1 DEF Rows
  <2> QED BY <2>2 DEF EmptyIn, KeptItems, BooksInv, Rows
<1>4. EmptyIn(committed)' /\ CacheInv'
  BY DEF EmptyIn, CacheInv, BooksInv
<1> QED BY <1>2, <1>3, <1>4 DEF BooksInv

LEMMA ReadBooks ==
  ASSUME StockInv, BooksInv, NEW t \in Txns, NEW y, UNCHANGED <<db, committed, lock>>,
         tx' = [tx EXCEPT ![t] = y], Own(t)', ListInv(t)'
  PROVE  BooksInv'
<1>1. \A u \in Txns : u # t => tx'[u] = tx[u]
  BY DEF StockInv, TxInv
<1>2. ASSUME NEW u \in Txns, u # t PROVE Own(u)' /\ ListInv(u)'
  <2>1. Own(u)'
    BY <1>1, <1>2, FrameOwn DEF BooksInv
  <2>2. ListInv(u)'
    BY <1>1, <1>2 DEF BooksInv, ListInv, Known, Seen
  <2> QED BY <2>1, <2>2
<1>3. EmptyIn(db)' /\ EmptyIn(committed)' /\ KeptItems' /\ CacheInv'
  BY DEF EmptyIn, KeptItems, CacheInv, BooksInv
<1> QED BY <1>2, <1>3 DEF BooksInv

\* A transaction that has ended holds nothing and owes nothing.
FreeOfBooks == \A t \in Txns :
  tx[t] = Idle /\ (\A r \in Rows : lock[r] # t) => Own(t) /\ ListInv(t)

LEMMA IdleBooks == FreeOfBooks
<1> SUFFICES ASSUME NEW t \in Txns, tx[t] = Idle, \A r \in Rows : lock[r] # t
             PROVE  Own(t) /\ ListInv(t)
  BY DEF FreeOfBooks
<1>1. /\ Idle.op = "none" /\ Idle.list = {}
  BY DEF Idle
<1>2. Locks(t)
  BY <1>1 DEF Locks, CacheFirst, Rows
<1>3. ASSUME NEW i \in Items PROVE CacheDelta(t, i) = 0 /\ BatchDelta(t, i) = 0
  <2> DEFINE g == Change(t, i)
  <2>1. \A b \in Batches : g[b] = 0
    BY DEF Change, Rows
  <2> HIDE DEF g
  <2>2. SumFunctionOnSet(g, Batches) = 0
    BY <2>1, RowsAssumption, SumZero
  <2> QED BY <2>2 DEF BatchDelta, CacheDelta, Rows, g
<1>4. \A i \in Items : Owed(tx[t], i) = 0 /\ Done(tx[t], i) = 0
  BY <1>1 DEF Owed, Done
<1>5. Asks(tx[t])
  BY <1>1 DEF Asks
<1> QED BY <1>1, <1>2, <1>3, <1>4, <1>5 DEF Own, Account, Booked, Shape, ListInv

LEMMA IdleBooksNext == FreeOfBooks'
BY IdleBooks, PTL

LEMMA ThrowBooks ==
  ASSUME StockInv, BooksInv, NEW t \in Txns, Throw(t)
  PROVE  BooksInv'
<1>1. /\ db' = [r \in Rows |-> IF lock[r] = t THEN committed[r] ELSE db[r]]
      /\ lock' = [r \in Rows |-> IF lock[r] = t THEN NoTxn ELSE lock[r]]
      /\ committed' = committed
      /\ tx' = [tx EXCEPT ![t] = Idle]
  BY DEF Throw, UndoWrites, Release, End
<1>2. /\ \A r \in Rows : /\ db'[r] = IF lock[r] = t THEN committed[r] ELSE db[r]
                         /\ lock'[r] = IF lock[r] = t THEN NoTxn ELSE lock[r]
      /\ NoTxn \notin Txns
      /\ tx'[t] = Idle /\ \A u \in Txns : u # t => tx'[u] = tx[u]
  BY <1>1, Typed DEF StockInv, TxInv
<1>3. Own(t)' /\ ListInv(t)'
  <2>1. (\A r \in Rows : lock[r] # t)'
    BY <1>2
  <2> QED BY <1>2, <2>1, IdleBooksNext DEF FreeOfBooks
<1>4. ASSUME NEW u \in Txns, u # t PROVE Own(u)' /\ ListInv(u)'
  <2>1. Own(u) /\ ListInv(u)
    BY DEF BooksInv
  <2>2. Own(u)'
    BY <1>1, <1>2, <1>4, <2>1, FrameOwn
  <2>3. ListInv(u)'
    <3> SUFFICES ASSUME NEW s \in tx[u].list
                 PROVE  /\ Known(u, s.id)'
                        /\ tx[u].op = "restore" =>
                             s.st = Seen(u, s.id)'.st /\ s.st \in {"ACTIVE", "DEPLETED"}
      BY <1>2, <1>4 DEF ListInv
    <3>1. s.id \in Rows
      BY DEF StockInv, TxInv, TxRecords, Snapshots, Rows
    <3>2. /\ Known(u, s.id)
          /\ tx[u].op = "restore" => s.st = Seen(u, s.id).st /\ s.st \in {"ACTIVE", "DEPLETED"}
      BY <2>1 DEF ListInv
    <3>3. Seen(u, s.id)' = Seen(u, s.id)
      BY <1>1, <1>2, <1>4, <3>1 DEF Seen
    <3>4. Known(u, s.id)'
      BY <1>1, <1>2, <1>4, <3>1, <3>2 DEF Known
    <3> QED BY <3>2, <3>3, <3>4
  <2> QED BY <2>2, <2>3
<1>5. EmptyIn(db)' /\ EmptyIn(committed)' /\ KeptItems' /\ CacheInv'
  BY <1>1, <1>2 DEF EmptyIn, KeptItems, CacheInv, BooksInv, Rows
<1> QED BY <1>3, <1>4, <1>5 DEF BooksInv

\* At its commit a transaction has changed the cache of every item by exactly what
\* it has changed of the batches.
LEMMA CommitBooks ==
  ASSUME StockInv, BooksInv, NEW t \in Txns, Commit(t)
  PROVE  BooksInv'
<1>1. /\ committed' = [r \in Rows |-> IF lock[r] = t THEN db[r] ELSE committed[r]]
      /\ lock' = [r \in Rows |-> IF lock[r] = t THEN NoTxn ELSE lock[r]]
      /\ db' = db
      /\ tx' = [tx EXCEPT ![t] = Idle]
      /\ tx[t].op # "none" /\ tx[t].code = <<>>
  BY DEF Commit, KeepWrites, Release, End
<1>2. /\ \A r \in Rows : /\ committed'[r] = IF lock[r] = t THEN db[r] ELSE committed[r]
                         /\ lock'[r] = IF lock[r] = t THEN NoTxn ELSE lock[r]
      /\ NoTxn \notin Txns
      /\ tx'[t] = Idle /\ \A u \in Txns : u # t => tx'[u] = tx[u]
  BY <1>1, Typed DEF StockInv, TxInv
<1>3. Own(t)' /\ ListInv(t)'
  <2>1. (\A r \in Rows : lock[r] # t)'
    BY <1>2
  <2> QED BY <1>2, <2>1, IdleBooksNext DEF FreeOfBooks
<1>4. Own(t) /\ ~CacheLast(tx[t]) /\ Ahead(tx[t]) = 0
  <2>1. Len(tx[t].code) = 0
    BY <1>1
  <2>2. Own(t)
    BY DEF BooksInv
  <2> QED BY <2>1, <2>2 DEF CacheLast, Ahead
<1>5. ASSUME NEW u \in Txns, u # t PROVE Own(u)' /\ ListInv(u)'
  <2>1. Own(u) /\ ListInv(u)
    BY DEF BooksInv
  <2>2. Own(u)'
    BY <1>1, <1>2, <1>5, <2>1, FrameOwn
  <2>3. ListInv(u)'
    <3> SUFFICES ASSUME NEW s \in tx[u].list
                 PROVE  /\ Known(u, s.id)'
                        /\ tx[u].op = "restore" =>
                             s.st = Seen(u, s.id)'.st /\ s.st \in {"ACTIVE", "DEPLETED"}
      BY <1>2, <1>5 DEF ListInv
    <3>1. s.id \in Batches /\ s.id \in Rows
      BY DEF StockInv, TxInv, TxRecords, Snapshots, Rows
    <3>2. /\ Known(u, s.id)
          /\ tx[u].op = "restore" => s.st = Seen(u, s.id).st /\ s.st \in {"ACTIVE", "DEPLETED"}
      BY <2>1 DEF ListInv
    <3>3. Known(u, s.id)'
      BY <1>1, <1>2, <1>5, <3>1, <3>2 DEF Known
    <3>4. ASSUME tx[u].op = "restore" PROVE Seen(u, s.id)' = Seen(u, s.id)
      <4>1. lock[tx[u].items[1]] = u
        BY <2>1, <3>4, PickedLocked
      <4>2. lock[s.id] # t
        BY <1>4, <1>5, <3>1, <3>2, <4>1 DEF Own, Locks, Known
      <4> QED BY <1>1, <1>2, <1>5, <3>1, <4>2 DEF Seen
    <3> QED BY <3>2, <3>3, <3>4
  <2> QED BY <2>2, <2>3
<1>6. EmptyIn(db)' /\ EmptyIn(committed)' /\ KeptItems'
  BY <1>1, <1>2 DEF EmptyIn, KeptItems, BooksInv, Rows
<1>7. CacheInv'
  <2> SUFFICES ASSUME NEW i \in Items
               PROVE  committed'[i] =
                        SumFunctionOnSet([b \in Batches |-> At(committed'[b], i)], Batches)
    BY DEF CacheInv
  <2> DEFINE old == [b \in Batches |-> At(committed[b], i)]
             new == [b \in Batches |-> At(committed'[b], i)]
             ch == Change(t, i)
  <2>1. \A b \in Batches : old[b] \in Int /\ ch[b] \in Int /\ new[b] = old[b] + ch[b]
    <3> SUFFICES ASSUME NEW b \in Batches
                 PROVE  old[b] \in Int /\ ch[b] \in Int /\ new[b] = old[b] + ch[b]
      OBVIOUS
    <3>1. At(committed[b], i) \in Int /\ At(db[b], i) \in Int
      BY Typed DEF At
    <3>2. committed'[b] = IF lock[b] = t THEN db[b] ELSE committed[b]
      BY <1>2 DEF Rows
    <3>3. CASE lock[b] = t
      <4>1. new[b] = At(db[b], i) /\ ch[b] = At(db[b], i) - At(committed[b], i)
        BY <3>2, <3>3 DEF Change
      <4> QED BY <3>1, <4>1
    <3>4. CASE lock[b] # t
      <4>1. new[b] = At(committed[b], i) /\ ch[b] = 0
        BY <3>2, <3>4 DEF Change
      <4> QED BY <3>1, <4>1
    <3> QED BY <3>3, <3>4
  <2>2. /\ BatchDelta(t, i) = SumFunctionOnSet(ch, Batches)
        /\ committed[i] = SumFunctionOnSet(old, Batches)
    BY DEF BatchDelta, BooksInv, CacheInv
  <2>3. SumFunctionOnSet(new, Batches)
          = SumFunctionOnSet(old, Batches) + SumFunctionOnSet(ch, Batches)
    <3>1. \A b \in Batches : old[b] \in Int /\ ch[b] \in Int /\ new[b] = old[b] + ch[b]
      BY <2>1
    <3> HIDE DEF old, new, ch
    <3>2. IsFiniteSet(Batches)
      BY RowsAssumption
    <3> QED BY <3>1, <3>2, SumPlus
  <2>4. committed'[i] = committed[i] + CacheDelta(t, i)
    BY <1>2, Typed DEF CacheDelta, Rows
  <2>5. CacheDelta(t, i) = BatchDelta(t, i)
    <3>1. CacheDelta(t, i) = BatchDelta(t, i) + Owed(tx[t], i)
      BY <1>4 DEF Own, Account
    <3>2. Owed(tx[t], i) = 0
      BY <1>4 DEF Owed
    <3> QED BY <3>1, <3>2, DeltaTypes
  <2> QED BY <2>2, <2>3, <2>4, <2>5
<1> QED BY <1>3, <1>5, <1>6, <1>7 DEF BooksInv

-------------------------------------------------------------------------------
(* What a statement must see to, to keep the books of its transaction.     *)

LEMMA OwedInt ==
  ASSUME NEW x \in TxRecords, NEW i \in Items
  PROVE  Owed(x, i) \in Int /\ Done(x, i) \in Int
<1>1. x.qty \in Nat /\ x.left \in Nat /\ x.ask[i] \in Int
  BY DEF TxRecords
<1>2. Owed(x, i) \in Int
  BY <1>1 DEF Owed, Ahead
<1>3. Done(x, i) \in Int
  <2>1. x.items \in Seq(Items)
    BY DEF TxRecords
  <2>2. Times(x.items, i) \in Nat
    BY <2>1, TimesType
  <2>3. x.qty * Times(x.items, i) \in Int
    BY <1>1, <2>2
  <2> QED BY <1>1, <2>3 DEF Done
<1> QED BY <1>2, <1>3

\* A statement of t leaves it with the locks its program y still needs.
KeepsLocks(t, y) ==
  /\ \A r \in Rows : lock[r] = t => lock'[r] = t
  /\ y.op # "none" /\ y.op = tx[t].op /\ y.row = tx[t].row
  /\ Len(y.code) < 6 <=> Len(tx[t].code) < 6
  /\ CacheFirst(y) => lock'[y.items[1]] = t
  /\ CacheLast(tx[t]) => \/ lock'[tx[t].items[1]] = t
                         \/ CacheLast(y) /\ y.items[1] = tx[t].items[1]
  /\ \A b \in Batches : lock'[b] = t =>
       \/ lock[b] = t /\ db'[b].item = db[b].item
       \/ lock'[db'[b].item] = t
       \/ CacheLast(y) /\ db'[b].item = y.items[1]
  /\ \A r \in Transfers : /\ lock'[r] = t <=> lock[r] = t
                          /\ db'[r] = db[r] /\ committed'[r] = committed[r]

\* Between two statements of t the locks it needs stay with it.
LEMMA LocksKept ==
  ASSUME StockInv, NEW t \in Txns, NEW y, Locks(t), tx' = [tx EXCEPT ![t] = y], KeepsLocks(t, y)
  PROVE  Locks(t)'
<1>1. tx'[t] = y
  BY DEF StockInv, TxInv
<1>2. \A b \in Batches : lock'[b] = t =>
        lock'[db'[b].item] = t \/ (CacheLast(y) /\ db'[b].item = y.items[1])
  <2> SUFFICES ASSUME NEW b \in Batches, lock'[b] = t
               PROVE  lock'[db'[b].item] = t \/ (CacheLast(y) /\ db'[b].item = y.items[1])
    OBVIOUS
  <2>0. /\ \A r \in Rows : lock[r] = t => lock'[r] = t
        /\ CacheLast(tx[t]) => \/ lock'[tx[t].items[1]] = t
                               \/ CacheLast(y) /\ y.items[1] = tx[t].items[1]
        /\ \/ lock[b] = t /\ db'[b].item = db[b].item
           \/ lock'[db'[b].item] = t
           \/ CacheLast(y) /\ db'[b].item = y.items[1]
    BY DEF KeepsLocks
  <2>1. CASE lock[b] = t /\ db'[b].item = db[b].item
    <3>1. db[b].item \in Rows
      BY Typed DEF Rows
    <3>2. lock[db[b].item] = t \/ (CacheLast(tx[t]) /\ db[b].item = tx[t].items[1])
      BY <2>1 DEF Locks
    <3> QED BY <2>0, <2>1, <3>1, <3>2
  <2> QED BY <2>0, <2>1
<1>3. \A r \in Transfers :
        /\ lock'[r] = t <=> y.op = "transfer" /\ Len(y.code) < 6 /\ r = y.row
        /\ lock'[r] = t => db'[r] = "COMPLETED" /\ committed'[r] = "PENDING"
  BY DEF Locks, KeepsLocks
<1>4. y.op # "none" /\ (CacheFirst(y) => lock'[y.items[1]] = t)
  BY DEF KeepsLocks
<1> QED BY <1>1, <1>2, <1>3, <1>4 DEF Locks

\* The account and the bookings after a write.
LEMMA WriteAccounts ==
  ASSUME StockInv, StockInv', NEW t \in Txns, NEW r \in Rows, NEW v, NEW y,
         Account(t), Booked(t), MayWrite(t, r), Write(t, r, v), UNCHANGED committed,
         tx' = [tx EXCEPT ![t] = y], Asks(y),
         \A i \in Items :
           /\ r \in Batches => Owed(y, i) = Owed(tx[t], i) - (At(v, i) - At(db[r], i))
           /\ r \notin Batches =>
                Owed(y, i) = IF i = r THEN Owed(tx[t], i) + (v - db[r]) ELSE Owed(tx[t], i)
           /\ Done(y, i) = IF i = r THEN Done(tx[t], i) + (v - db[r]) ELSE Done(tx[t], i)
  PROVE  Account(t)' /\ Booked(t)'
<1>1. tx'[t] = y /\ tx[t] \in TxRecords
  BY DEF StockInv, TxInv
<1> SUFFICES ASSUME NEW i \in Items
             PROVE  /\ CacheDelta(t, i)' = BatchDelta(t, i)' + Owed(y, i)
                    /\ CacheDelta(t, i)' = Done(y, i)
  BY <1>1 DEF Account, Booked
<1>2. /\ CacheDelta(t, i) = BatchDelta(t, i) + Owed(tx[t], i)
      /\ CacheDelta(t, i) = Done(tx[t], i)
  BY DEF Account, Booked
<1>3. /\ CacheDelta(t, i)' = IF i = r THEN CacheDelta(t, i) + (v - db[r])
                             ELSE CacheDelta(t, i)
      /\ BatchDelta(t, i)' = IF r \in Batches
                             THEN BatchDelta(t, i) + (At(v, i) - At(db[r], i))
                             ELSE BatchDelta(t, i)
  BY WriteDeltas
<1>4. /\ CacheDelta(t, i) \in Int /\ BatchDelta(t, i) \in Int /\ Owed(tx[t], i) \in Int
  BY <1>1, DeltaTypes, OwedInt
<1>5. v = db'[r]
  BY DEF Write, StockInv, RowsInv, Sound
<1>6. CASE r \in Batches
  <2>1. i # r
    BY <1>6, RowsAssumption
  <2>2. At(v, i) \in Int /\ At(db[r], i) \in Int
    <3>1. v \in BatchRow
      BY <1>5, <1>6 DEF StockInv, RowsInv, Sound
    <3> QED BY <1>6, <3>1, Typed DEF At, BatchRow
  <2> QED BY <1>2, <1>3, <1>4, <1>6, <2>1, <2>2
<1>7. CASE r \notin Batches
  <2>1. i = r => v \in Nat /\ db[r] \in Nat
    BY <1>5, Typed DEF StockInv, RowsInv, Sound
  <2> QED BY <1>2, <1>3, <1>4, <1>7, <2>1
<1> QED BY <1>6, <1>7

LEMMA ReadAccounts ==
  ASSUME StockInv, NEW t \in Txns, NEW y,
         Account(t), Booked(t), UNCHANGED <<db, committed, lock>>,
         tx' = [tx EXCEPT ![t] = y], Asks(y),
         \A i \in Items : Owed(y, i) = Owed(tx[t], i) /\ Done(y, i) = Done(tx[t], i)
  PROVE  Account(t)' /\ Booked(t)'
<1>1. tx'[t] = y
  BY DEF StockInv, TxInv
<1> QED BY <1>1 DEF Account, Booked, CacheDelta, BatchDelta, Change

LEMMA Codes ==
  /\ Len(<<"CacheDown", "List", "Take">>) = 3
  /\ Head(<<"CacheDown", "List", "Take">>) = "CacheDown"
  /\ Tail(<<"CacheDown", "List", "Take">>) = <<"List", "Take">>
  /\ Len(<<"List", "Take">>) = 2 /\ Head(<<"List", "Take">>) = "List"
  /\ Tail(<<"List", "Take">>) = <<"Take">>
  /\ Len(<<"Take">>) = 1 /\ Head(<<"Take">>) = "Take" /\ Tail(<<"Take">>) = <<>>
  /\ Len(<<"CacheUp", "Pick", "PutBack">>) = 3
  /\ Head(<<"CacheUp", "Pick", "PutBack">>) = "CacheUp"
  /\ Tail(<<"CacheUp", "Pick", "PutBack">>) = <<"Pick", "PutBack">>
  /\ Len(<<"Pick", "PutBack">>) = 2 /\ Head(<<"Pick", "PutBack">>) = "Pick"
  /\ Tail(<<"Pick", "PutBack">>) = <<"PutBack">>
  /\ Len(<<"Create", "PutBack">>) = 2 /\ Head(<<"Create", "PutBack">>) = "Create"
  /\ Tail(<<"Create", "PutBack">>) = <<"PutBack">>
  /\ Len(<<"PutBack">>) = 1 /\ Head(<<"PutBack">>) = "PutBack" /\ Tail(<<"PutBack">>) = <<>>
  /\ Len(<<"Create", "CacheUp">>) = 2 /\ Head(<<"Create", "CacheUp">>) = "Create"
  /\ Tail(<<"Create", "CacheUp">>) = <<"CacheUp">>
  /\ Len(<<"CacheUp">>) = 1 /\ Head(<<"CacheUp">>) = "CacheUp" /\ Tail(<<"CacheUp">>) = <<>>
  /\ Len(<<"CacheDown", "Create", "CacheUp">>) = 3
  /\ Head(<<"CacheDown", "Create", "CacheUp">>) = "CacheDown"
  /\ Tail(<<"CacheDown", "Create", "CacheUp">>) = <<"Create", "CacheUp">>
  /\ Len(<<"Take", "CacheDown", "Create", "CacheUp">>) = 4
  /\ Head(<<"Take", "CacheDown", "Create", "CacheUp">>) = "Take"
  /\ Tail(<<"Take", "CacheDown", "Create", "CacheUp">>) = <<"CacheDown", "Create", "CacheUp">>
  /\ Len(<<"List", "Take", "CacheDown", "Create", "CacheUp">>) = 5
  /\ Head(<<"List", "Take", "CacheDown", "Create", "CacheUp">>) = "List"
  /\ Tail(<<"List", "Take", "CacheDown", "Create", "CacheUp">>)
       = <<"Take", "CacheDown", "Create", "CacheUp">>
  /\ Len(<<"Claim", "List", "Take", "CacheDown", "Create", "CacheUp">>) = 6
  /\ Head(<<"Claim", "List", "Take", "CacheDown", "Create", "CacheUp">>) = "Claim"
  /\ Tail(<<"Claim", "List", "Take", "CacheDown", "Create", "CacheUp">>)
       = <<"List", "Take", "CacheDown", "Create", "CacheUp">>
  /\ Len(<<>>) = 0
OBVIOUS

\* Where in its program a transaction is that is about to execute a statement.
Place(x, op, code) == x.op = op /\ x.code = code

LEMMA Places ==
  ASSUME NEW t, Shape(tx[t]), NEW s, Runs(t, s)
  PROVE  /\ s = "CacheDown" => \/ Place(tx[t], "deduct", <<"CacheDown", "List", "Take">>)
                               \/ Place(tx[t], "transfer", <<"CacheDown", "Create", "CacheUp">>)
         /\ s = "CacheUp" => \/ Place(tx[t], "restore", <<"CacheUp", "Pick", "PutBack">>)
                             \/ Place(tx[t], "receive", <<"CacheUp">>)
                             \/ Place(tx[t], "transfer", <<"CacheUp">>)
         /\ s = "List" =>
              \/ Place(tx[t], "deduct", <<"List", "Take">>)
              \/ Place(tx[t], "transfer", <<"List", "Take", "CacheDown", "Create", "CacheUp">>)
         /\ s = "Take" =>
              \/ Place(tx[t], "deduct", <<"Take">>)
              \/ Place(tx[t], "transfer", <<"Take", "CacheDown", "Create", "CacheUp">>)
         /\ s = "Pick" => Place(tx[t], "restore", <<"Pick", "PutBack">>)
         /\ s = "PutBack" => Place(tx[t], "restore", <<"PutBack">>)
         /\ s = "Create" => \/ Place(tx[t], "restore", <<"Create", "PutBack">>)
                            \/ Place(tx[t], "receive", <<"Create", "CacheUp">>)
                            \/ Place(tx[t], "transfer", <<"Create", "CacheUp">>)
         /\ s = "Claim" => Place(tx[t], "transfer",
                             <<"Claim", "List", "Take", "CacheDown", "Create", "CacheUp">>)
         /\ s \notin {"ReadNamed", "ReadExpired", "Overwrite", "Expire"}
<1>1. s = Head(tx[t].code) /\ tx[t].code # <<>>
  BY DEF Runs
<1>2. tx[t] # Idle
  BY <1>1 DEF Idle
<1>3. CASE DeductShape(tx[t])
  BY <1>1, <1>3, Codes DEF DeductShape, Place
<1>4. CASE RestoreShape(tx[t])
  BY <1>1, <1>4, Codes DEF RestoreShape, Place
<1>5. CASE ReceiveShape(tx[t])
  BY <1>1, <1>5, Codes DEF ReceiveShape, Place
<1>6. CASE TransferShape(tx[t])
  BY <1>1, <1>6, Codes DEF TransferShape, Place
<1> QED BY <1>2, <1>3, <1>4, <1>5, <1>6 DEF Shape

-------------------------------------------------------------------------------
(* The statements.                                                         *)

\* What becomes of a transaction that changes the cache of its current item by d.
CacheStep(x, y, d) ==
  /\ Shape(y) /\ Asks(y)
  /\ y.op # "none" /\ y.op = x.op /\ y.row = x.row /\ y.list = {}
  /\ Len(y.code) < 6 <=> Len(x.code) < 6
  /\ CacheFirst(y) => y.items[1] = x.items[1]
  /\ \A j \in Items :
       /\ Owed(y, j) = IF j = x.items[1] THEN Owed(x, j) + d ELSE Owed(x, j)
       /\ Done(y, j) = IF j = x.items[1] THEN Done(x, j) + d ELSE Done(x, j)

LEMMA CacheBooks ==
  ASSUME StockInv, StockInv', BooksInv, NEW t \in Txns, NEW d \in Int, NEW y,
         tx[t].items[1] \in Items,
         MayWrite(t, tx[t].items[1]), Write(t, tx[t].items[1], db[tx[t].items[1]] + d),
         UNCHANGED committed, tx' = [tx EXCEPT ![t] = y], CacheStep(tx[t], y, d)
  PROVE  BooksInv'
<1> DEFINE i == tx[t].items[1]
<1>0. /\ i = tx[t].items[1] /\ i \in Items
      /\ MayWrite(t, i) /\ Write(t, i, db[i] + d)
      /\ Shape(y) /\ Asks(y)
      /\ y.op # "none" /\ y.op = tx[t].op /\ y.row = tx[t].row /\ y.list = {}
      /\ Len(y.code) < 6 <=> Len(tx[t].code) < 6
      /\ CacheFirst(y) => y.items[1] = i
      /\ \A j \in Items :
           /\ Owed(y, j) = IF j = i THEN Owed(tx[t], j) + d ELSE Owed(tx[t], j)
           /\ Done(y, j) = IF j = i THEN Done(tx[t], j) + d ELSE Done(tx[t], j)
  BY DEF CacheStep
<1> HIDE DEF i
<1>1. /\ i \in Rows /\ i \notin Batches /\ i \notin Transfers /\ db[i] \in Nat
      /\ tx'[t] = y /\ Own(t)
  BY <1>0, Typed, RowsAssumption DEF Rows, StockInv, TxInv, BooksInv
<1>2. /\ lock' = [lock EXCEPT ![i] = t] /\ db' = [db EXCEPT ![i] = db[i] + d]
      /\ DOMAIN lock = Rows /\ DOMAIN db = Rows
  BY <1>0 DEF Write, StockInv, RowsInv, Sound, FreeRowsCommitted
<1>3. /\ lock'[i] = t /\ \A r \in Rows : lock[r] = t => lock'[r] = t
      /\ \A r \in Rows : r # i => lock'[r] = lock[r] /\ db'[r] = db[r]
  BY <1>1, <1>2
<1>4. /\ \A b \in Batches : lock'[b] = t => lock[b] = t /\ db'[b].item = db[b].item
      /\ \A r \in Transfers : /\ lock'[r] = t <=> lock[r] = t
                              /\ db'[r] = db[r] /\ committed'[r] = committed[r]
  BY <1>1, <1>3 DEF Rows
<1>5. Locks(t)'
  <2>1. /\ CacheFirst(y) => lock'[y.items[1]] = t
        /\ CacheLast(tx[t]) => lock'[tx[t].items[1]] = t
    BY <1>0, <1>3
  <2>2. Locks(t)
    BY <1>1 DEF Own
  <2>3. KeepsLocks(t, y)
    BY <1>0, <1>3, <1>4, <2>1 DEF KeepsLocks
  <2> QED BY <2>2, <2>3, LocksKept
<1>6. (db[i] + d) - db[i] = d
  BY <1>1
<1>7. Account(t)' /\ Booked(t)'
  <2>1. Account(t) /\ Booked(t)
    BY <1>1 DEF Own
  <2>2. \A j \in Items :
          /\ i \in Batches => Owed(y, j) = Owed(tx[t], j) - (At(db[i] + d, j) - At(db[i], j))
          /\ i \notin Batches =>
               Owed(y, j) = IF j = i THEN Owed(tx[t], j) + ((db[i] + d) - db[i])
                            ELSE Owed(tx[t], j)
          /\ Done(y, j) = IF j = i THEN Done(tx[t], j) + ((db[i] + d) - db[i])
                          ELSE Done(tx[t], j)
    BY <1>0, <1>1, <1>6
  <2> QED BY <1>0, <1>1, <2>1, <2>2, WriteAccounts, Zenon
<1>8. Own(t)' /\ ListInv(t)'
  BY <1>0, <1>1, <1>5, <1>7 DEF Own, ListInv
<1> QED BY <1>0, <1>1, <1>8, WriteBooks

LEMMA TailItems ==
  ASSUME NEW s \in Seq(Items), Len(s) > 1
  PROVE  /\ Tail(s) # <<>> /\ Len(Tail(s)) = Len(s) - 1 /\ Len(s) \in Nat
         /\ DOMAIN s = 1 .. Len(s) /\ DOMAIN Tail(s) = 1 .. Len(s) - 1
         /\ \A k \in 1 .. Len(s) - 1 : Tail(s)[k] = s[k + 1]
<1>1. /\ Tail(s) \in Seq(Items) /\ Tail(s) # <<>> /\ Len(Tail(s)) = Len(s) - 1
      /\ DOMAIN s = 1 .. Len(s) /\ DOMAIN Tail(s) = 1 .. Len(s) - 1
      /\ \A k \in 1 .. Len(s) - 1 : Tail(s)[k] = s[k + 1]
  OBVIOUS
<1>2. Len(s) \in Nat
  OBVIOUS
<1> QED BY <1>1, <1>2

LEMMA OneItem == ASSUME NEW s \in Seq(Items), s # <<>>, ~(Len(s) > 1) PROVE Len(s) = 1
<1>1. Len(s) \in Nat /\ Len(s) # 0
  OBVIOUS
<1> QED BY <1>1

\* The item an operation has come to, and those it has still to come to.
LEMMA FirstItem ==
  ASSUME NEW s \in Seq(Items), s # <<>>
  PROVE  /\ Len(s) \in Nat \ {0} /\ s[1] \in Items
         /\ {s[k] : k \in 1 .. Len(s)} = {s[1]} \union {s[k] : k \in 2 .. Len(s)}
         /\ IsInjective(s) => s[1] \notin {s[k] : k \in 2 .. Len(s)}
<1>1. Len(s) \in Nat \ {0} /\ DOMAIN s = 1 .. Len(s) /\ s[1] \in Items
  OBVIOUS
<1>2. {s[k] : k \in 1 .. Len(s)} = {s[1]} \union {s[k] : k \in 2 .. Len(s)}
  <2>1. 1 .. Len(s) = {1} \union (2 .. Len(s))
    BY <1>1
  <2> QED BY <2>1
<1>3. IsInjective(s) => s[1] \notin {s[k] : k \in 2 .. Len(s)}
  BY <1>1 DEF IsInjective
<1> QED BY <1>1, <1>2, <1>3

LEMMA CacheDownBooks ==
  ASSUME StockInv, StockInv', BooksInv, NEW t \in Txns, CacheDown(t)
  PROVE  BooksInv'
<1> DEFINE x == tx[t]
           i == x.items[1]
           z == [x EXCEPT !.items = IF x.op = "transfer" THEN Tail(@) ELSE @]
           y == [z EXCEPT !.code = Tail(@)]
<1>1. /\ Runs(t, "CacheDown") /\ Own(t)
      /\ x \in TxRecords /\ i \in Items /\ x.items # <<>> /\ x.qty \in Nat /\ x.left \in Nat
  BY Running DEF CacheDown, BooksInv
<1>2. CASE Throw(t)
  BY <1>2, ThrowBooks
<1>3. CASE ~Throw(t)
  <2>1. /\ MayWrite(t, i) /\ Write(t, i, db[i] - x.qty) /\ UNCHANGED committed
        /\ tx' = [tx EXCEPT ![t] = y]
    BY <1>3 DEF CacheDown, Continue
  <2>2. /\ y.op = x.op /\ y.row = x.row /\ y.qty = x.qty
        /\ y.left = x.left /\ y.list = x.list /\ y.ask = x.ask
    BY <1>1 DEF TxRecords
  <2>6. /\ y.code = Tail(x.code)
        /\ y.items = IF x.op = "transfer" THEN Tail(x.items) ELSE x.items
    BY <1>1 DEF TxRecords
  <2>7. x.items \in Seq(Items) /\ x.ask \in [Items -> Int]
    BY <1>1 DEF TxRecords
  <2> HIDE DEF y, z
  <2>3. /\ Shape(x) /\ Asks(x) /\ -x.qty \in Int
        /\ Write(t, i, db[i] + (-x.qty)) /\ x = tx[t] /\ i = tx[t].items[1]
    <3>1. db[i] - x.qty = db[i] + (-x.qty) /\ -x.qty \in Int
      BY <1>1, Typed
    <3> QED BY <1>1, <2>1, <3>1 DEF Own, Booked
  <2> HIDE DEF x, i
  <2>4. CASE Place(x, "deduct", <<"CacheDown", "List", "Take">>)
    <3>1. /\ x.op = "deduct" /\ Len(x.code) = 3 /\ x.list = {} /\ x.left = x.qty
          /\ y.code = <<"List", "Take">> /\ Len(y.code) = 2 /\ y.items = x.items
      BY <2>2, <2>3, <2>4, <2>6, Codes DEF Place, Shape, DeductShape, RestoreShape, ReceiveShape,
         TransferShape, Idle
    <3>2. Shape(y)
      BY <1>1, <2>2, <3>1 DEF Shape, DeductShape
    <3>3. Asks(y) /\ IsInjective(x.items) /\ x.ask[i] = -x.qty
      <4>1. 1 \in DOMAIN x.items
        BY <1>1, <2>7
      <4> QED BY <2>2, <2>3, <3>1, <4>1 DEF Asks, i
    <3>4. \A j \in Items : Owed(y, j) = IF j = i THEN Owed(x, j) + (-x.qty) ELSE Owed(x, j)
      BY <1>1, <2>2, <3>1 DEF Owed, Ahead, i
    <3>5. \A j \in Items : Done(y, j) = IF j = i THEN Done(x, j) + (-x.qty) ELSE Done(x, j)
      <4>1. /\ Pending(x) = {i} \union Pending(y) /\ i \notin Pending(y)
        BY <1>1, <2>2, <2>3, <2>7, <3>1, <3>3, FirstItem DEF Pending, i
      <4> QED BY <1>1, <2>2, <3>1, <3>3, <4>1 DEF Done
    <3>6. y.op # "none" /\ y.list = {} /\ (Len(y.code) < 6 <=> Len(x.code) < 6)
          /\ (CacheFirst(y) => y.items[1] = i)
      BY <2>2, <3>1 DEF i
    <3>7. CacheStep(x, y, -x.qty)
      BY <2>2, <3>2, <3>3, <3>4, <3>5, <3>6 DEF CacheStep, i
    <3> QED BY <1>1, <2>1, <2>3, <3>7, CacheBooks DEF i
  <2>5. CASE Place(x, "transfer", <<"CacheDown", "Create", "CacheUp">>)
    <3>1. /\ x.op = "transfer" /\ Len(x.code) = 3 /\ x.list = {} /\ x.left = 0
          /\ y.code = <<"Create", "CacheUp">> /\ Len(y.code) = 2
          /\ x.row \in Transfers /\ x.qty = TransferOf[x.row].qty
          /\ x.items = <<TransferOf[x.row].from, TransferOf[x.row].to>>
      BY <2>2, <2>3, <2>5, <2>6, Codes DEF Place, Shape, DeductShape, RestoreShape, ReceiveShape,
         TransferShape, Idle
    <3>2. y.items = <<TransferOf[x.row].to>> /\ i = TransferOf[x.row].from
      BY <2>3, <2>6, <3>1 DEF i
    <3>3. Shape(y)
      BY <1>1, <2>2, <3>1, <3>2 DEF Shape, TransferShape
    <3>4. Asks(y)
      BY <2>2, <2>3, <3>1 DEF Asks
    <3>5. \A j \in Items : Owed(y, j) = IF j = i THEN Owed(x, j) + (-x.qty) ELSE Owed(x, j)
      BY <1>1, <2>2, <3>1 DEF Owed, Ahead, i
    <3>6. \A j \in Items : Done(y, j) = IF j = i THEN Done(x, j) + (-x.qty) ELSE Done(x, j)
      <4>1. x.code # <<>> /\ y.code # <<>>
        BY <3>1, Codes
      <4> QED BY <1>1, <2>2, <3>1, <3>2, <4>1 DEF Done
    <3>7. y.op # "none" /\ y.list = {} /\ (Len(y.code) < 6 <=> Len(x.code) < 6)
          /\ (CacheFirst(y) => y.items[1] = i)
      BY <2>2, <3>1 DEF CacheFirst
    <3>8. CacheStep(x, y, -x.qty)
      BY <2>2, <3>3, <3>4, <3>5, <3>6, <3>7 DEF CacheStep, i
    <3> QED BY <1>1, <2>1, <2>3, <3>8, CacheBooks DEF i
  <2> QED BY <1>1, <2>3, <2>4, <2>5, Places
<1> QED BY <1>2, <1>3

LEMMA CacheUpBooks ==
  ASSUME StockInv, StockInv', BooksInv, NEW t \in Txns, CacheUp(t)
  PROVE  BooksInv'
<1> DEFINE x == tx[t]
           i == x.items[1]
           more == x.op = "receive" /\ Len(x.items) > 1
           y == IF more THEN [x EXCEPT !.items = Tail(@), !.code = Program["receive"]]
                ELSE [x EXCEPT !.code = Tail(@)]
<1>1. /\ Runs(t, "CacheUp") /\ Own(t)
      /\ x \in TxRecords /\ i \in Items /\ x.items # <<>> /\ x.qty \in Nat /\ x.left \in Nat
  BY Running DEF CacheUp, BooksInv
<1>2. /\ MayWrite(t, i) /\ Write(t, i, db[i] + x.qty) /\ UNCHANGED committed
      /\ tx' = [tx EXCEPT ![t] = y]
  BY DEF CacheUp, Continue
<1>3. /\ y.op = x.op /\ y.row = x.row /\ y.qty = x.qty
      /\ y.left = x.left /\ y.list = x.list /\ y.ask = x.ask
  BY <1>1 DEF TxRecords
<1>9. /\ ~more => y.code = Tail(x.code) /\ y.items = x.items
      /\ more => y.code = <<"Create", "CacheUp">> /\ y.items = Tail(x.items)
  BY <1>1 DEF TxRecords, Program
<1>10. x.items \in Seq(Items) /\ x.ask \in [Items -> Int]
  BY <1>1 DEF TxRecords
<1>4. /\ Shape(x) /\ Asks(x) /\ x.qty \in Int /\ x = tx[t] /\ i = tx[t].items[1]
  BY <1>1 DEF Own, Booked
<1> HIDE DEF x, i, y
<1>5. Asks(y)
  BY <1>3, <1>4, <1>9 DEF Asks
<1>6. CASE Place(x, "restore", <<"CacheUp", "Pick", "PutBack">>)
  <2>1. /\ x.op = "restore" /\ Len(x.code) = 3 /\ x.list = {}
        /\ y.code = <<"Pick", "PutBack">> /\ Len(y.code) = 2 /\ y.items = x.items
    BY <1>3, <1>4, <1>6, <1>9, Codes DEF Place, Shape, DeductShape, RestoreShape, ReceiveShape,
       TransferShape, Idle
  <2>2. Shape(y)
    BY <1>1, <1>3, <2>1 DEF Shape, RestoreShape
  <2>3. IsInjective(x.items) /\ x.ask[i] = x.qty
    <3>1. 1 \in DOMAIN x.items
      BY <1>1, <1>10
    <3> QED BY <1>4, <2>1, <3>1 DEF Asks, i
  <2>4. \A j \in Items : Owed(y, j) = IF j = i THEN Owed(x, j) + x.qty ELSE Owed(x, j)
    BY <1>1, <1>3, <2>1 DEF Owed, Ahead, i
  <2>5. \A j \in Items : Done(y, j) = IF j = i THEN Done(x, j) + x.qty ELSE Done(x, j)
    <3>1. /\ Pending(x) = {i} \union Pending(y) /\ i \notin Pending(y)
      BY <1>1, <1>3, <1>4, <1>10, <2>1, <2>3, FirstItem DEF Pending, i
    <3> QED BY <1>1, <1>3, <2>1, <2>3, <3>1 DEF Done
  <2>6. y.op # "none" /\ y.list = {} /\ (Len(y.code) < 6 <=> Len(x.code) < 6)
        /\ (CacheFirst(y) => y.items[1] = i)
    BY <1>3, <2>1 DEF i
  <2>7. CacheStep(x, y, x.qty)
    BY <1>3, <1>5, <2>2, <2>4, <2>5, <2>6 DEF CacheStep, i
  <2> QED BY <1>1, <1>2, <1>4, <2>7, CacheBooks DEF i
<1>7. CASE Place(x, "receive", <<"CacheUp">>)
  <2>1. /\ x.op = "receive" /\ x.code = <<"CacheUp">> /\ x.list = {}
        /\ Len(x.code) = 1 /\ x.code # <<>>
    BY <1>4, <1>7, Codes DEF Place, Shape, DeductShape, RestoreShape, ReceiveShape,
       TransferShape, Idle
  <2>2. \/ /\ Len(x.items) = 1 /\ y.items = x.items /\ y.code = <<>> /\ Len(y.code) = 0
        \/ /\ Len(x.items) > 1 /\ y.items = Tail(x.items) /\ y.items # <<>>
           /\ y.code = <<"Create", "CacheUp">> /\ Len(y.code) = 2 /\ y.code # <<>>
    <3>1. Len(x.items) > 1 \/ Len(x.items) = 1
      BY <1>1, <1>10, OneItem
    <3>2. CASE Len(x.items) = 1
      <4>1. y.items = x.items /\ y.code = Tail(x.code)
        BY <1>9, <3>2
      <4> QED BY <2>1, <3>2, <4>1, Codes
    <3>3. CASE Len(x.items) > 1
      <4>1. y.items = Tail(x.items) /\ y.code = <<"Create", "CacheUp">>
        BY <1>9, <2>1, <3>3
      <4>2. y.items # <<>>
        BY <1>10, <3>3, <4>1, TailItems
      <4>3. Len(y.code) = 2 /\ y.code # <<>>
        BY <4>1, Codes
      <4> QED BY <3>3, <4>1, <4>2, <4>3
    <3> QED BY <3>1, <3>2, <3>3
  <2>8. y.op = "receive" /\ Len(y.code) # 1 /\ Len(y.code) < 6
    <3>1. y.op = "receive"
      BY <1>3, <2>1
    <3>2. Len(y.code) = 0 \/ Len(y.code) = 2
      BY <2>2, Zenon
    <3>3. PICK n : n = Len(y.code)
      OBVIOUS
    <3>4. n = 0 \/ n = 2
      BY <3>2, <3>3, Zenon
    <3>5. n # 1 /\ n < 6
      BY <3>4
    <3> QED BY <3>1, <3>3, <3>5, Zenon
  <2>3. Shape(y)
    BY <1>1, <1>3, <2>1, <2>2 DEF Shape, ReceiveShape
  <2>4. \A j \in Items : Owed(y, j) = IF j = i THEN Owed(x, j) + x.qty ELSE Owed(x, j)
    <3>1. \A j \in Items : Owed(y, j) = 0
      BY <2>8 DEF Owed, Ahead
    <3>2. \A j \in Items : Owed(x, j) = IF j = i THEN -x.qty ELSE 0
      BY <2>1 DEF Owed, Ahead, i
    <3> QED BY <1>1, <3>1, <3>2
  <2>5. \A j \in Items : Done(y, j) = IF j = i THEN Done(x, j) + x.qty ELSE Done(x, j)
    <3> SUFFICES ASSUME NEW j \in Items
                 PROVE  Done(y, j) = IF j = i THEN Done(x, j) + x.qty ELSE Done(x, j)
      OBVIOUS
    <3>1. /\ x.qty * Times(x.items, j) \in Int /\ x.qty * Times(Tail(x.items), j) \in Int
          /\ x.qty * Times(x.items, j) =
               x.qty * Times(Tail(x.items), j) + (IF j = i THEN x.qty ELSE 0)
      BY <1>1, <1>10, LinesLeft DEF i
    <3>2. Done(x, j) = x.ask[j] - x.qty * Times(x.items, j)
      BY <2>1 DEF Done
    <3>3. Done(y, j) = x.ask[j] - x.qty * Times(Tail(x.items), j)
      <4>1. CASE y.code = <<>>
        <5>1. x.qty * Times(Tail(x.items), j) = 0
          <6>1. Tail(x.items) = <<>>
            <7>1. Len(x.items) = 1
              BY <2>2, <4>1
            <7>2. PICK z : z = Tail(x.items)
              OBVIOUS
            <7>3. Len(z) = 0 /\ z \in Seq(Items)
              BY <1>1, <1>10, <7>1, <7>2
            <7> QED BY <7>2, <7>3, EmptySeq, Zenon
          <6>2. Times(Tail(x.items), j) = 0
            BY <6>1, TimesEmpty
          <6> QED BY <1>1, <6>2
        <5>2. Done(y, j) = x.ask[j] - 0
          BY <1>3, <2>1, <4>1 DEF Done
        <5> QED BY <5>1, <5>2
      <4>2. CASE y.code # <<>>
        BY <1>3, <2>1, <2>2, <4>2 DEF Done
      <4> QED BY <4>1, <4>2
    <3>4. x.ask[j] \in Int
      BY <1>10
    <3> QED BY <1>1, <3>1, <3>2, <3>3, <3>4
  <2>6. y.op # "none" /\ y.list = {} /\ (Len(y.code) < 6 <=> Len(x.code) < 6)
        /\ (CacheFirst(y) => y.items[1] = i)
    BY <1>3, <2>1, <2>8 DEF CacheFirst
  <2>7. CacheStep(x, y, x.qty)
    BY <1>3, <1>5, <2>3, <2>4, <2>5, <2>6 DEF CacheStep, i
  <2> QED BY <1>1, <1>2, <1>4, <2>7, CacheBooks DEF i
<1>8. CASE Place(x, "transfer", <<"CacheUp">>)
  <2>1. /\ x.op = "transfer" /\ Len(x.code) = 1 /\ x.list = {} /\ x.left = 0
        /\ y.code = <<>> /\ Len(y.code) = 0 /\ x.code # <<>>
        /\ x.row \in Transfers /\ x.qty = TransferOf[x.row].qty
        /\ x.items = <<TransferOf[x.row].to>> /\ y.items = x.items
    BY <1>3, <1>4, <1>8, <1>9, Codes DEF Place, Shape, DeductShape, RestoreShape, ReceiveShape,
       TransferShape, Idle
  <2>2. Shape(y)
    BY <1>1, <1>3, <2>1 DEF Shape, TransferShape
  <2>4. \A j \in Items : Owed(y, j) = IF j = i THEN Owed(x, j) + x.qty ELSE Owed(x, j)
    BY <1>1, <1>3, <2>1 DEF Owed, Ahead, i
  <2>5. \A j \in Items : Done(y, j) = IF j = i THEN Done(x, j) + x.qty ELSE Done(x, j)
    <3>1. i = TransferOf[x.row].to
      BY <2>1 DEF i
    <3> QED BY <1>1, <1>3, <2>1, <3>1 DEF Done
  <2>6. y.op # "none" /\ y.list = {} /\ (Len(y.code) < 6 <=> Len(x.code) < 6)
        /\ (CacheFirst(y) => y.items[1] = i)
    BY <1>3, <2>1 DEF CacheFirst
  <2>7. CacheStep(x, y, x.qty)
    BY <1>3, <1>5, <2>2, <2>4, <2>5, <2>6 DEF CacheStep, i
  <2> QED BY <1>1, <1>2, <1>4, <2>7, CacheBooks DEF i
<1> QED BY <1>1, <1>4, <1>6, <1>7, <1>8, Places

\* What becomes of a transaction that reads, or comes to its next statement.
ReadStep(x, y) ==
  /\ Shape(y) /\ Asks(y)
  /\ y.op # "none" /\ y.op = x.op /\ y.row = x.row
  /\ Len(y.code) < 6 <=> Len(x.code) < 6
  /\ CacheFirst(y) => CacheFirst(x) /\ y.items[1] = x.items[1]
  /\ CacheLast(x) => CacheLast(y) /\ y.items[1] = x.items[1]
  /\ \A j \in Items : Owed(y, j) = Owed(x, j) /\ Done(y, j) = Done(x, j)

LEMMA ReadStepBooks ==
  ASSUME StockInv, BooksInv, NEW t \in Txns, NEW y, UNCHANGED <<db, committed, lock>>,
         tx' = [tx EXCEPT ![t] = y], ReadStep(tx[t], y), ListInv(t)'
  PROVE  BooksInv'
<1>1. tx'[t] = y /\ Own(t)
  BY DEF StockInv, TxInv, BooksInv
<1>2. Locks(t)'
  <2>1. CacheFirst(y) => lock'[y.items[1]] = t
    BY <1>1 DEF ReadStep, Own, Locks
  <2>2. CacheLast(tx[t]) => \/ lock'[tx[t].items[1]] = t
                            \/ CacheLast(y) /\ y.items[1] = tx[t].items[1]
    BY DEF ReadStep
  <2>3. /\ Locks(t) /\ y.op # "none" /\ y.op = tx[t].op /\ y.row = tx[t].row
        /\ Len(y.code) < 6 <=> Len(tx[t].code) < 6
    BY <1>1 DEF Own, ReadStep
  <2>4. /\ \A r \in Rows : lock[r] = t => lock'[r] = t
        /\ \A b \in Batches : lock'[b] = t => lock[b] = t /\ db'[b].item = db[b].item
        /\ \A r \in Transfers : /\ lock'[r] = t <=> lock[r] = t
                                /\ db'[r] = db[r] /\ committed'[r] = committed[r]
    OBVIOUS
  <2>5. KeepsLocks(t, y)
    BY <2>1, <2>2, <2>3, <2>4 DEF KeepsLocks
  <2> QED BY <2>3, <2>5, LocksKept
<1>3. Account(t)' /\ Booked(t)'
  BY <1>1, ReadAccounts DEF Own, ReadStep
<1>4. Own(t)'
  BY <1>1, <1>2, <1>3 DEF Own, ReadStep
<1> QED BY <1>4, ReadBooks

\* What becomes of a transaction that changes a batch of its current item by c.
BatchStep(x, y, c) ==
  /\ Shape(y) /\ Asks(y)
  /\ y.op # "none" /\ y.op = x.op /\ y.row = x.row /\ y.items[1] = x.items[1]
  /\ Len(y.code) < 6 <=> Len(x.code) < 6
  /\ CacheFirst(y) => CacheFirst(x)
  /\ CacheLast(x) => CacheLast(y)
  /\ CacheFirst(x) \/ CacheLast(y)
  /\ \A j \in Items :
       /\ Owed(y, j) = IF j = x.items[1] THEN Owed(x, j) - c ELSE Owed(x, j)
       /\ Done(y, j) = Done(x, j)

LEMMA BatchBooks ==
  ASSUME StockInv, StockInv', BooksInv, NEW t \in Txns, NEW b \in Batches, NEW v \in BatchRow,
         NEW c \in Int, NEW y,
         tx[t].items[1] \in Items, MayWrite(t, b), Write(t, b, v), UNCHANGED committed,
         tx' = [tx EXCEPT ![t] = y], BatchStep(tx[t], y, c), ListInv(t)',
         v.st # "none", v.item = tx[t].items[1], db[b].st # "none" => v.item = db[b].item,
         v.st # "ACTIVE" => v.qty = 0,
         v.qty = (IF db[b].st = "none" THEN 0 ELSE db[b].qty) + c
  PROVE  BooksInv'
<1> DEFINE i == tx[t].items[1]
<1>0. /\ Shape(y) /\ Asks(y)
      /\ y.op # "none" /\ y.op = tx[t].op /\ y.row = tx[t].row
      /\ Len(y.code) < 6 <=> Len(tx[t].code) < 6
      /\ CacheFirst(y) => CacheFirst(tx[t]) /\ y.items[1] = i
      /\ CacheLast(tx[t]) => CacheLast(y) /\ y.items[1] = i
      /\ CacheFirst(tx[t]) \/ (CacheLast(y) /\ y.items[1] = i)
      /\ \A j \in Items :
           /\ Owed(y, j) = IF j = i THEN Owed(tx[t], j) - c ELSE Owed(tx[t], j)
           /\ Done(y, j) = Done(tx[t], j)
      /\ i = tx[t].items[1] /\ i \in Items /\ v.item = i
  BY DEF BatchStep
<1> HIDE DEF i
<1>1. /\ b \in Rows /\ b \notin Items /\ b \notin Transfers
      /\ tx'[t] = y /\ tx[t] \in TxRecords /\ Own(t)
      /\ db[b] \in BatchRow /\ db[b].qty \in Nat /\ v.qty \in Int
  BY Typed, RowsAssumption DEF Rows, StockInv, TxInv, BooksInv, BatchRow
<1>2. /\ lock' = [lock EXCEPT ![b] = t] /\ db' = [db EXCEPT ![b] = v]
      /\ DOMAIN lock = Rows /\ DOMAIN db = Rows
  BY DEF Write, StockInv, RowsInv, Sound, FreeRowsCommitted
<1>3. /\ lock'[b] = t /\ db'[b] = v /\ \A r \in Rows : lock[r] = t => lock'[r] = t
      /\ \A r \in Rows : r # b => lock'[r] = lock[r] /\ db'[r] = db[r]
  BY <1>1, <1>2
<1>4. CacheFirst(tx[t]) => lock'[i] = t
  BY <1>0, <1>1, <1>3 DEF Own, Locks, Rows
<1>5. /\ \A a \in Batches : lock'[a] = t =>
           \/ lock[a] = t /\ db'[a].item = db[a].item
           \/ lock'[db'[a].item] = t
           \/ CacheLast(y) /\ db'[a].item = y.items[1]
      /\ \A r \in Transfers : /\ lock'[r] = t <=> lock[r] = t
                              /\ db'[r] = db[r] /\ committed'[r] = committed[r]
  BY <1>0, <1>1, <1>3, <1>4 DEF Rows
<1>6. Locks(t)'
  <2>1. /\ CacheFirst(y) => lock'[y.items[1]] = t
        /\ CacheLast(tx[t]) => CacheLast(y) /\ y.items[1] = tx[t].items[1]
    BY <1>0, <1>4
  <2>2. Locks(t)
    BY <1>1 DEF Own
  <2>3. /\ y.op # "none" /\ y.op = tx[t].op /\ y.row = tx[t].row
        /\ Len(y.code) < 6 <=> Len(tx[t].code) < 6
    BY <1>0
  <2>4. /\ \A r \in Rows : lock[r] = t => lock'[r] = t
        /\ CacheLast(tx[t]) => \/ lock'[tx[t].items[1]] = t
                               \/ CacheLast(y) /\ y.items[1] = tx[t].items[1]
    BY <1>3, <2>1
  <2>5. \A a \in Batches : lock'[a] = t =>
          \/ lock[a] = t /\ db'[a].item = db[a].item
          \/ lock'[db'[a].item] = t
          \/ CacheLast(y) /\ db'[a].item = y.items[1]
    BY <1>5
  <2>6. \A r \in Transfers :
          /\ lock'[r] = t <=> lock[r] = t
          /\ db'[r] = db[r] /\ committed'[r] = committed[r]
    BY <1>5
  <2>7. KeepsLocks(t, y)
    BY <2>1, <2>3, <2>4, <2>5, <2>6 DEF KeepsLocks
  <2> QED BY <2>2, <2>7, LocksKept
<1>7. \A j \in Items : At(v, j) - At(db[b], j) = IF j = i THEN c ELSE 0
  <2> SUFFICES ASSUME NEW j \in Items
               PROVE  At(v, j) - At(db[b], j) = IF j = i THEN c ELSE 0
    OBVIOUS
  <2>1. At(v, j) = IF j = i THEN v.qty ELSE 0
    BY <1>0 DEF At
  <2>2. At(db[b], j) = IF j = i /\ db[b].st # "none" THEN db[b].qty ELSE 0
    BY <1>0, <1>1 DEF At, BooksInv, EmptyIn
  <2> QED BY <1>1, <2>1, <2>2
<1>8. Account(t)' /\ Booked(t)'
  <2>1. Account(t) /\ Booked(t)
    BY <1>1 DEF Own
  <2>2. \A j \in Items :
          /\ b \in Batches => Owed(y, j) = Owed(tx[t], j) - (At(v, j) - At(db[b], j))
          /\ b \notin Batches =>
               Owed(y, j) = IF j = b THEN Owed(tx[t], j) + (v - db[b]) ELSE Owed(tx[t], j)
          /\ Done(y, j) = IF j = b THEN Done(tx[t], j) + (v - db[b]) ELSE Done(tx[t], j)
    <3> SUFFICES ASSUME NEW j \in Items
                 PROVE  /\ Owed(y, j) = Owed(tx[t], j) - (At(v, j) - At(db[b], j))
                        /\ j # b /\ Done(y, j) = Done(tx[t], j)
      OBVIOUS
    <3>1. Owed(tx[t], j) \in Int
      BY <1>1, OwedInt
    <3> QED BY <1>0, <1>1, <1>7, <3>1
  <2>3. Asks(y) /\ b \in Rows
    BY <1>0, <1>1
  <2> QED BY <2>1, <2>2, <2>3, WriteAccounts, Zenon
<1>9. Own(t)'
  BY <1>0, <1>1, <1>6, <1>8 DEF Own
<1> QED BY <1>1, <1>9, WriteBooks

\* What t has read of batches of its current item is known for good.
LEMMA SeenKnown ==
  ASSUME StockInv, BooksInv, NEW t \in Txns, NEW b \in Batches,
         Seen(t, b).item = tx[t].items[1], Seen(t, b).st # "none"
  PROVE  Known(t, b)
BY DEF Seen, Known, BooksInv, KeptItems

LEMMA ListBooks ==
  ASSUME StockInv, BooksInv, NEW t \in Txns, List(t)
  PROVE  BooksInv'
<1> DEFINE x == tx[t]
           l == {s \in BatchesOf(t, "ACTIVE") : x.op = "deduct" => s.exp >= today}
           z == [x EXCEPT !.list = l]
           y == [z EXCEPT !.code = Tail(@)]
<1>1. /\ Runs(t, "List") /\ Own(t)
      /\ x \in TxRecords /\ x.items[1] \in Items /\ x.items # <<>>
      /\ x.qty \in Nat /\ x.left \in Nat
      /\ tx' = [tx EXCEPT ![t] = y] /\ tx'[t] = y
  BY Running DEF List, BooksInv, Continue, StockInv, TxInv
<1>2. /\ y.op = x.op /\ y.row = x.row /\ y.qty = x.qty
      /\ y.left = x.left /\ y.list = l /\ y.ask = x.ask /\ y.items = x.items
  BY <1>1 DEF TxRecords
<1>3. y.code = Tail(x.code)
  BY <1>1 DEF TxRecords
<1>4. ListInv(t)'
  <2> SUFFICES ASSUME NEW s \in l PROVE Known(t, s.id) /\ x.op # "restore"
    <3>1. UNCHANGED <<db, committed, lock>> /\ tx'[t] = y
      BY <1>1 DEF List
    <3> HIDE DEF y, z, l
    <3> QED BY <1>2, <3>1 DEF ListInv, Known
  <2>1. PICK b \in Batches : /\ Seen(t, b).st = "ACTIVE" /\ Seen(t, b).item = x.items[1]
                             /\ s = Snapshot(t, b)
    BY DEF BatchesOf
  <2>2. Known(t, b) /\ s.id = b
    BY <2>1, SeenKnown DEF Snapshot
  <2>3. x.op # "restore"
    BY <1>1, Places DEF Own, Place
  <2> QED BY <2>2, <2>3
<1>5. Shape(x) /\ Asks(x) /\ x = tx[t]
  BY <1>1 DEF Own, Booked
<1> HIDE DEF x, y, z, l
<1>6. CASE Place(x, "deduct", <<"List", "Take">>)
  <2>1. /\ x.op = "deduct" /\ Len(x.code) = 2 /\ x.list = {} /\ x.left = x.qty
        /\ y.code = <<"Take">> /\ Len(y.code) = 1
    BY <1>2, <1>3, <1>5, <1>6, Codes DEF Place, Shape, DeductShape, RestoreShape, ReceiveShape,
       TransferShape, Idle
  <2>2. Shape(y)
    BY <1>1, <1>2, <2>1 DEF Shape, DeductShape
  <2>3. \A j \in Items : Owed(y, j) = Owed(x, j)
    BY <1>1, <1>2, <2>1 DEF Owed, Ahead
  <2>4. \A j \in Items : Done(y, j) = Done(x, j)
    BY <1>1, <1>2, <2>1 DEF Done, Pending
  <2>5. ReadStep(x, y)
    BY <1>2, <1>5, <2>1, <2>2, <2>3, <2>4 DEF ReadStep, Asks, CacheFirst, CacheLast
  <2> QED BY <1>1, <1>4, <1>5, <2>5, ReadStepBooks DEF List
<1>7. CASE Place(x, "transfer", <<"List", "Take", "CacheDown", "Create", "CacheUp">>)
  <2>1. /\ x.op = "transfer" /\ Len(x.code) = 5 /\ x.list = {} /\ x.left = x.qty
        /\ y.code = <<"Take", "CacheDown", "Create", "CacheUp">> /\ Len(y.code) = 4
        /\ x.row \in Transfers /\ x.qty = TransferOf[x.row].qty
        /\ x.items = <<TransferOf[x.row].from, TransferOf[x.row].to>>
    BY <1>2, <1>3, <1>5, <1>7, Codes DEF Place, Shape, DeductShape, RestoreShape, ReceiveShape,
       TransferShape, Idle
  <2>2. Shape(y)
    BY <1>1, <1>2, <2>1 DEF Shape, TransferShape
  <2>3. \A j \in Items : Owed(y, j) = Owed(x, j)
    BY <1>1, <1>2, <2>1 DEF Owed, Ahead
  <2>4. \A j \in Items : Done(y, j) = Done(x, j)
    <3>1. x.code # <<>> /\ y.code # <<>>
      BY <2>1, Codes
    <3> QED BY <1>1, <1>2, <2>1, <3>1 DEF Done
  <2>5. Asks(y) /\ ~CacheFirst(y) /\ (CacheLast(x) => CacheLast(y)) /\ y.op = x.op
    BY <1>2, <1>5, <2>1 DEF Asks, CacheFirst, CacheLast
  <2>6. ReadStep(x, y)
    BY <1>2, <2>1, <2>2, <2>3, <2>4, <2>5 DEF ReadStep
  <2> QED BY <1>1, <1>4, <1>5, <2>6, ReadStepBooks DEF List
<1> QED BY <1>1, <1>5, <1>6, <1>7, Places

LEMMA PickBooks ==
  ASSUME StockInv, BooksInv, NEW t \in Txns, Pick(t)
  PROVE  BooksInv'
<1> DEFINE x == tx[t]
<1>1. /\ Runs(t, "Pick") /\ Own(t)
      /\ x \in TxRecords /\ x.items[1] \in Items /\ x.items # <<>>
      /\ x.qty \in Nat /\ x.left \in Nat
  BY Running DEF Pick, BooksInv
<1>2. Shape(x) /\ Asks(x) /\ x = tx[t] /\ Place(x, "restore", <<"Pick", "PutBack">>)
  BY <1>1, Places DEF Own, Booked
<1>3. /\ x.op = "restore" /\ Len(x.code) = 2 /\ x.list = {}
      /\ Tail(x.code) = <<"PutBack">>
  BY <1>2, Codes DEF Place, Shape, DeductShape, RestoreShape, ReceiveShape, TransferShape, Idle
<1>4. ASSUME NEW s \in BatchesOf(t, "ACTIVE") \union BatchesOf(t, "DEPLETED"),
             Continue(t, [tx[t] EXCEPT !.list = {s}])
      PROVE  BooksInv'
  <2> DEFINE z == [x EXCEPT !.list = {s}]
             y == [z EXCEPT !.code = Tail(@)]
  <2>1. tx' = [tx EXCEPT ![t] = y] /\ tx'[t] = y
    BY <1>4 DEF Continue, StockInv, TxInv
  <2>2. /\ y.op = x.op /\ y.row = x.row /\ y.qty = x.qty
        /\ y.left = x.left /\ y.list = {s} /\ y.ask = x.ask /\ y.items = x.items
    BY <1>1 DEF TxRecords
  <2>3. y.code = <<"PutBack">> /\ Len(y.code) = 1
    BY <1>1, <1>3, Codes DEF TxRecords
  <2>4. ListInv(t)'
    <3>1. PICK b \in Batches : /\ Seen(t, b).st \in {"ACTIVE", "DEPLETED"}
                               /\ Seen(t, b).item = x.items[1] /\ s = Snapshot(t, b)
      BY <1>4 DEF BatchesOf
    <3>2. Known(t, b) /\ s.id = b /\ s.st = Seen(t, b).st
      BY <3>1, SeenKnown DEF Snapshot
    <3>3. UNCHANGED <<db, committed, lock>>
      BY DEF Pick
    <3>4. Known(t, b)'
      BY <2>1, <2>2, <3>2, <3>3, Zenon DEF Known
    <3>5. Seen(t, b)' = Seen(t, b)
      BY <3>3 DEF Seen
    <3> HIDE DEF x, y, z
    <3> QED BY <2>1, <2>2, <3>1, <3>2, <3>4, <3>5 DEF ListInv
  <2> HIDE DEF y, z, x
  <2>5. Shape(y)
    BY <1>1, <1>3, <2>2, <2>3 DEF Shape, RestoreShape
  <2>6. \A j \in Items : Owed(y, j) = Owed(x, j)
    BY <1>1, <1>3, <2>2, <2>3 DEF Owed, Ahead
  <2>7. \A j \in Items : Done(y, j) = Done(x, j)
    BY <1>1, <1>3, <2>2, <2>3 DEF Done, Pending
  <2>8. ReadStep(x, y)
    BY <1>2, <1>3, <2>2, <2>3, <2>5, <2>6, <2>7 DEF ReadStep, Asks, CacheFirst, CacheLast
  <2> QED BY <1>2, <2>1, <2>4, <2>8, ReadStepBooks DEF Pick
<1>5. ASSUME tx' = [tx EXCEPT ![t].code = <<"Create", "PutBack">>]
      PROVE  BooksInv'
  <2> DEFINE y == [x EXCEPT !.code = <<"Create", "PutBack">>]
  <2>1. tx' = [tx EXCEPT ![t] = y] /\ tx'[t] = y
    BY <1>5 DEF StockInv, TxInv
  <2>2. /\ y.op = x.op /\ y.row = x.row /\ y.qty = x.qty
        /\ y.left = x.left /\ y.list = x.list /\ y.ask = x.ask /\ y.items = x.items
        /\ y.code = <<"Create", "PutBack">>
    BY <1>1 DEF TxRecords
  <2>3. Len(y.code) = 2
    BY <2>2, Codes
  <2>4. ListInv(t)'
    BY <1>3, <2>1, <2>2 DEF ListInv
  <2> HIDE DEF y, x
  <2>5. Shape(y)
    BY <1>1, <1>3, <2>2, <2>3 DEF Shape, RestoreShape
  <2>6. \A j \in Items : Owed(y, j) = Owed(x, j)
    BY <1>1, <1>3, <2>2, <2>3 DEF Owed, Ahead
  <2>7. \A j \in Items : Done(y, j) = Done(x, j)
    BY <1>1, <1>3, <2>2, <2>3 DEF Done, Pending
  <2>8. ReadStep(x, y)
    BY <1>2, <1>3, <2>2, <2>3, <2>5, <2>6, <2>7 DEF ReadStep, Asks, CacheFirst, CacheLast
  <2> QED BY <1>2, <2>1, <2>4, <2>8, ReadStepBooks DEF Pick
<1> QED BY <1>4, <1>5 DEF Pick

LEMMA TakeBooks ==
  ASSUME StockInv, StockInv', BooksInv, NEW t \in Txns, Take(t)
  PROVE  BooksInv'
<1> DEFINE x == tx[t]
<1>1. /\ Runs(t, "Take") /\ Own(t) /\ ListInv(t)
      /\ x \in TxRecords /\ x.items[1] \in Items /\ x.items # <<>>
      /\ x.qty \in Nat /\ x.left \in Nat
  BY Running DEF Take, BooksInv
<1>2. CASE Throw(t)
  BY <1>2, ThrowBooks
<1>3. CASE ~Throw(t)
  <2>1. PICK s \in x.list :
          /\ x.left > 0 /\ MayWrite(t, s.id)
          /\ IF s.qty <= x.left THEN db[s.id].qty = s.qty ELSE db[s.id].qty >= x.left
          /\ Write(t, s.id, IF s.qty <= x.left
                              THEN [db[s.id] EXCEPT !.qty = 0, !.st = "DEPLETED"]
                              ELSE [db[s.id] EXCEPT !.qty = @ - x.left])
          /\ tx' = [tx EXCEPT ![t].left = IF s.qty <= x.left THEN @ - s.qty ELSE 0,
                              ![t].list = @ \ {s},
                              ![t].exp = IF s.exp < @ THEN s.exp ELSE @]
          /\ UNCHANGED committed
    BY <1>3 DEF Take
  <2> DEFINE b == s.id
             n == IF s.qty <= x.left THEN s.qty ELSE x.left
             v == IF s.qty <= x.left THEN [db[b] EXCEPT !.qty = 0, !.st = "DEPLETED"]
                                     ELSE [db[b] EXCEPT !.qty = @ - x.left]
             y == [x EXCEPT !.left = IF s.qty <= x.left THEN @ - s.qty ELSE 0,
                            !.list = @ \ {s}, !.exp = IF s.exp < @ THEN s.exp ELSE @]
  <2>2. tx' = [tx EXCEPT ![t] = y] /\ tx'[t] = y
    BY <2>1 DEF StockInv, TxInv
  <2>3. s \in Snapshots /\ b \in Batches /\ s.qty \in Nat
    BY <1>1, <2>1 DEF TxRecords, Snapshots
  <2>4. /\ y.op = x.op /\ y.row = x.row /\ y.qty = x.qty /\ y.code = x.code
        /\ y.left = x.left - n /\ y.list = x.list \ {s} /\ y.ask = x.ask /\ y.items = x.items
    BY <1>1, <2>3 DEF TxRecords
  <2>5. n \in Nat /\ x.left - n \in Nat /\ -n \in Int
    BY <1>1, <2>3
  <2>6. Known(t, b) /\ db[b].item = x.items[1] /\ db[b].st # "none" /\ b \in Rows
    BY <1>1, <2>1, <2>3 DEF ListInv, Known, Rows
  <2>7. /\ v.item = x.items[1] /\ v.st # "none" /\ (v.st # "ACTIVE" => v.qty = 0)
        /\ v.qty = db[b].qty - n /\ v \in BatchRow
    <3>1. db[b] \in BatchRow /\ db[b].qty \in Nat
      BY <2>3, Typed
    <3>2. db[b].st # "ACTIVE" => db[b].qty = 0
      BY <2>3 DEF BooksInv, EmptyIn
    <3>3. CASE s.qty <= x.left
      <4>1. v = [db[b] EXCEPT !.qty = 0, !.st = "DEPLETED"] /\ n = s.qty /\ db[b].qty = s.qty
        BY <2>1, <3>3
      <4> HIDE DEF v, n
      <4>2. /\ v.item = db[b].item /\ v.qty = 0 /\ v.st = "DEPLETED" /\ v \in BatchRow
        <5> DEFINE w == [db[b] EXCEPT !.qty = 0]
        <5>1. w \in BatchRow /\ w.qty = 0 /\ w.item = db[b].item
          BY <3>1 DEF BatchRow
        <5>2. v = [w EXCEPT !.st = "DEPLETED"]
          BY <4>1
        <5> HIDE DEF w
        <5> QED BY <5>1, <5>2 DEF BatchRow, BatchStatuses
      <4> QED BY <2>6, <3>1, <4>1, <4>2
    <3>4. CASE ~(s.qty <= x.left)
      <4>1. v = [db[b] EXCEPT !.qty = @ - x.left] /\ n = x.left
            /\ db[b].qty >= x.left /\ x.left > 0
        BY <2>1, <3>4
      <4> HIDE DEF v, n
      <4> QED BY <1>1, <2>6, <3>1, <3>2, <4>1 DEF BatchRow, BatchStatuses
    <3> QED BY <3>3, <3>4
  <2>8. Write(t, b, v)
    BY <2>1
  <2>9. Shape(x) /\ Asks(x) /\ x = tx[t]
    BY <1>1 DEF Own, Booked
  <2>10. ListInv(t)'
    <3>1. x.op # "restore"
      BY <1>1, <2>9, Places DEF Place
    <3>2. /\ lock' = [lock EXCEPT ![b] = t] /\ db' = [db EXCEPT ![b] = v]
          /\ DOMAIN lock = Rows /\ DOMAIN db = Rows
      BY <2>8 DEF Write, StockInv, RowsInv, Sound, FreeRowsCommitted
    <3>3. ASSUME NEW u \in x.list PROVE Known(t, u.id)'
      <4>1. Known(t, u.id) /\ u.id \in Rows
        BY <1>1, <3>3 DEF ListInv, TxRecords, Snapshots, Rows
      <4> HIDE DEF v, b
      <4>2. CASE u.id = b
        BY <2>2, <2>4, <2>6, <2>7, <3>2, <4>2 DEF Known
      <4>3. CASE u.id # b
        BY <2>1, <2>2, <2>4, <3>2, <4>1, <4>3 DEF Known
      <4> QED BY <4>2, <4>3
    <3> QED BY <2>2, <2>4, <3>1, <3>3 DEF ListInv
  <2> HIDE DEF y, v, n, b, x
  <2>13. /\ b \in Batches /\ v \in BatchRow /\ -n \in Int /\ x.items[1] \in Items
         /\ MayWrite(t, b) /\ UNCHANGED committed
         /\ v.st # "none" /\ v.item = x.items[1]
         /\ db[b].st # "none" => v.item = db[b].item
         /\ v.st # "ACTIVE" => v.qty = 0
         /\ v.qty = (IF db[b].st = "none" THEN 0 ELSE db[b].qty) + (-n)
    <3>1. MayWrite(t, b) /\ db[b].qty \in Nat
      BY <2>1, <2>3, Typed DEF b
    <3> QED BY <1>1, <2>1, <2>3, <2>5, <2>6, <2>7, <3>1
  <2>11. CASE Place(x, "deduct", <<"Take">>)
    <3>1. x.op = "deduct" /\ x.code = <<"Take">> /\ Len(x.code) = 1
      BY <2>11, Codes DEF Place
    <3>2. Shape(y)
      BY <1>1, <2>4, <3>1 DEF Shape, DeductShape
    <3>3. \A j \in Items : Owed(y, j) = IF j = x.items[1] THEN Owed(x, j) - (-n) ELSE Owed(x, j)
      BY <1>1, <2>4, <2>5, <3>1 DEF Owed, Ahead
    <3>4. \A j \in Items : Done(y, j) = Done(x, j)
      BY <1>1, <2>4, <3>1 DEF Done, Pending
    <3>5. BatchStep(x, y, -n)
      BY <2>4, <2>9, <3>1, <3>2, <3>3, <3>4 DEF BatchStep, Asks, CacheFirst, CacheLast
    <3> QED BY <2>2, <2>8, <2>9, <2>10, <2>13, <3>5, BatchBooks
  <2>12. CASE Place(x, "transfer", <<"Take", "CacheDown", "Create", "CacheUp">>)
    <3>1. /\ x.op = "transfer" /\ Len(x.code) = 4
          /\ x.code = <<"Take", "CacheDown", "Create", "CacheUp">>
          /\ x.row \in Transfers /\ x.qty = TransferOf[x.row].qty
          /\ x.items = <<TransferOf[x.row].from, TransferOf[x.row].to>>
      BY <2>9, <2>12, Codes DEF Place, Shape, DeductShape, RestoreShape, ReceiveShape,
         TransferShape, Idle
    <3>2. Shape(y)
      BY <1>1, <2>4, <3>1 DEF Shape, TransferShape
    <3>3. \A j \in Items : Owed(y, j) = IF j = x.items[1] THEN Owed(x, j) - (-n) ELSE Owed(x, j)
      BY <1>1, <2>4, <2>5, <3>1 DEF Owed, Ahead
    <3>4. \A j \in Items : Done(y, j) = Done(x, j)
      <4>1. x.code # <<>>
        BY <3>1, Codes
      <4> QED BY <1>1, <2>4, <3>1, <4>1 DEF Done
    <3>5. BatchStep(x, y, -n)
      BY <2>4, <2>9, <3>1, <3>2, <3>3, <3>4 DEF BatchStep, Asks, CacheFirst, CacheLast
    <3> QED BY <2>2, <2>8, <2>9, <2>10, <2>13, <3>5, BatchBooks
  <2> QED BY <1>1, <2>9, <2>11, <2>12, Places
<1> QED BY <1>2, <1>3

LEMMA TailShifted ==
  ASSUME NEW s \in Seq(Items), Len(s) > 1
  PROVE  /\ {Tail(s)[k] : k \in 1 .. Len(s) - 1} = {s[k] : k \in 2 .. Len(s)}
         /\ IsInjective(s) => IsInjective(Tail(s))
<1> DEFINE u == Tail(s)
           n == Len(s)
<1>1. n \in Nat /\ n > 1 /\ \A k \in 1 .. n - 1 : u[k] = s[k + 1]
  BY TailItems
<1>2. DOMAIN s = 1 .. n /\ DOMAIN u = 1 .. n - 1
  BY TailItems
<1> HIDE DEF u, n
<1>4. {u[k] : k \in 1 .. n - 1} = {s[k] : k \in 2 .. n}
  <2>1. \A k \in 1 .. n - 1 : k + 1 \in 2 .. n /\ u[k] = s[k + 1]
    BY <1>1
  <2>2. \A k \in 2 .. n : k - 1 \in 1 .. n - 1 /\ u[k - 1] = s[k]
    <3> SUFFICES ASSUME NEW k \in 2 .. n PROVE k - 1 \in 1 .. n - 1 /\ u[k - 1] = s[k]
      OBVIOUS
    <3>1. k - 1 \in 1 .. n - 1 /\ (k - 1) + 1 = k
      BY <1>1
    <3> QED BY <1>1, <3>1
  <2> QED BY <2>1, <2>2
<1>5. ASSUME IsInjective(s) PROVE IsInjective(u)
  <2>1. \A j, k \in 1 .. n - 1 : j + 1 \in 1 .. n /\ k + 1 \in 1 .. n /\ (j + 1 = k + 1 => j = k)
    BY <1>1
  <2> QED BY <1>1, <1>2, <1>5, <2>1 DEF IsInjective
<1> QED BY <1>4, <1>5, Zenon DEF u, n

\* The next item of a sale or a reversal: what is pending becomes all of it again.
LEMMA NextItem ==
  ASSUME NEW s \in Seq(Items), Len(s) > 1, NEW u, u = Tail(s)
  PROVE  /\ u # <<>> /\ Len(u) = Len(s) - 1 /\ Len(s) \in Nat
         /\ DOMAIN s = 1 .. Len(s) /\ DOMAIN u = 1 .. Len(s) - 1
         /\ \A k \in 1 .. Len(s) - 1 : u[k] = s[k + 1]
         /\ {u[k] : k \in 1 .. Len(s) - 1} = {s[k] : k \in 2 .. Len(s)}
         /\ IsInjective(s) => IsInjective(u)
<1>1. /\ u # <<>> /\ Len(u) = Len(s) - 1 /\ Len(s) \in Nat
      /\ DOMAIN s = 1 .. Len(s) /\ DOMAIN u = 1 .. Len(s) - 1
      /\ \A k \in 1 .. Len(s) - 1 : u[k] = s[k + 1]
  BY TailItems, Zenon
<1>2. /\ {u[k] : k \in 1 .. Len(s) - 1} = {s[k] : k \in 2 .. Len(s)}
      /\ IsInjective(s) => IsInjective(u)
  BY TailShifted, Zenon
<1> QED BY <1>1, <1>2, Zenon

LEMMA NextItemBooks ==
  ASSUME NEW x \in TxRecords, NEW y \in TxRecords, x.op \in {"deduct", "restore"}, y.op = x.op,
         Len(x.items) > 1, y.items = Tail(x.items), y.qty = x.qty,
         x.op = "deduct" => y.left = x.qty, y.list = {}, y.ask = x.ask, y.row = x.row, Asks(x),
         Len(x.code) = 1, Ahead(x) = 0,
         y.code = IF x.op = "deduct" THEN <<"CacheDown", "List", "Take">>
                  ELSE <<"CacheUp", "Pick", "PutBack">>
  PROVE  ReadStep(x, y)
<1>1. x.items \in Seq(Items) /\ Len(y.code) = 3
  BY Codes DEF TxRecords
<1>2. /\ y.items # <<>> /\ Len(y.items) = Len(x.items) - 1 /\ Len(x.items) \in Nat
      /\ DOMAIN x.items = 1 .. Len(x.items) /\ DOMAIN y.items = 1 .. Len(x.items) - 1
      /\ \A k \in 1 .. Len(x.items) - 1 : y.items[k] = x.items[k + 1]
      /\ {y.items[k] : k \in 1 .. Len(x.items) - 1} = {x.items[k] : k \in 2 .. Len(x.items)}
      /\ IsInjective(x.items) => IsInjective(y.items)
  <2>1. x.items \in Seq(Items) /\ y.items = Tail(x.items) /\ Len(x.items) > 1
    BY <1>1
  <2> QED BY <2>1, NextItem, Zenon
<1>3. Pending(y) = Pending(x)
  <2>1. Pending(x) = {x.items[k] : k \in 2 .. Len(x.items)}
    BY DEF Pending
  <2>2. Pending(y) = {y.items[k] : k \in 1 .. Len(x.items) - 1}
    BY <1>1, <1>2 DEF Pending
  <2> QED BY <1>2, <2>1, <2>2
<1>4. Asks(y)
  <2>1. \A k \in DOMAIN y.items : k + 1 \in DOMAIN x.items /\ y.items[k] = x.items[k + 1]
    BY <1>2
  <2> QED BY <1>2, <2>1 DEF Asks
<1>5. Shape(y)
  BY <1>2 DEF Shape, DeductShape, RestoreShape
<1>6. \A j \in Items : Owed(y, j) = 0 /\ Owed(x, j) = 0
  BY <1>1 DEF Owed, Ahead
<1>7. \A j \in Items : Done(y, j) = Done(x, j)
  BY <1>3 DEF Done
<1> QED BY <1>1, <1>4, <1>5, <1>6, <1>7 DEF ReadStep, CacheFirst, CacheLast

LEMMA TakeDoneBooks ==
  ASSUME StockInv, StockInv', BooksInv, NEW t \in Txns, TakeDone(t)
  PROVE  BooksInv'
<1> DEFINE x == tx[t]
<1>1. /\ Runs(t, "Take") /\ Own(t)
      /\ x \in TxRecords /\ x.items[1] \in Items /\ x.items # <<>>
      /\ x.qty \in Nat /\ x.left \in Nat
  BY Running DEF TakeDone, BooksInv
<1>2. CASE x.left > 0
  BY <1>2, ThrowBooks DEF TakeDone
<1>3. CASE ~(x.left > 0)
  <2>5. x.left = 0 /\ x.items \in Seq(Items) /\ -x.left = 0
    BY <1>1, <1>3 DEF TxRecords
  <2>1. /\ UNCHANGED <<db, committed, lock>>
        /\ IF x.op = "deduct" /\ Len(x.items) > 1
             THEN tx' = [tx EXCEPT ![t].items = Tail(@), ![t].left = tx[t].qty,
                                   ![t].list = {}, ![t].code = Program["deduct"]]
             ELSE Continue(t, [tx[t] EXCEPT !.list = {}])
    BY <1>3, <2>5 DEF TakeDone
  <2>2. Shape(x) /\ Asks(x) /\ x = tx[t]
    BY <1>1 DEF Own, Booked
  <2>3. CASE x.op = "deduct" /\ Len(x.items) > 1
    <3> DEFINE y == [x EXCEPT !.items = Tail(@), !.left = x.qty, !.list = {},
                              !.code = Program["deduct"]]
    <3>1. tx' = [tx EXCEPT ![t] = y]
      BY <2>1, <2>3
    <3>2. tx'[t] = y /\ y \in TxRecords
      BY <3>1 DEF StockInv, TxInv
    <3>3. /\ y.op = x.op /\ y.row = x.row /\ y.qty = x.qty /\ y.left = x.qty
          /\ y.list = {} /\ y.ask = x.ask /\ y.items = Tail(x.items)
          /\ y.code = <<"CacheDown", "List", "Take">>
      BY <1>1 DEF TxRecords, Program
    <3>4. ListInv(t)'
      BY <3>2, <3>3 DEF ListInv
    <3> HIDE DEF y, x
    <3>5. Len(x.code) = 1
      BY <1>1, <2>2, <2>3, Places, Codes DEF Place
    <3>6. Ahead(x) = 0
      BY <2>3, <2>5, <3>5 DEF Ahead
    <3>7. ReadStep(x, y)
      BY <1>1, <2>2, <2>3, <3>2, <3>3, <3>5, <3>6, NextItemBooks
    <3> QED BY <2>1, <2>2, <3>1, <3>4, <3>7, ReadStepBooks
  <2>4. CASE ~(x.op = "deduct" /\ Len(x.items) > 1)
    <3> DEFINE z == [x EXCEPT !.list = {}]
               y == [z EXCEPT !.code = Tail(@)]
    <3>1. tx' = [tx EXCEPT ![t] = y] /\ tx'[t] = y
      BY <2>1, <2>4 DEF Continue, StockInv, TxInv
    <3>2. /\ y.op = x.op /\ y.row = x.row /\ y.qty = x.qty /\ y.left = x.left
          /\ y.list = {} /\ y.ask = x.ask /\ y.items = x.items
      BY <1>1 DEF TxRecords
    <3>3. y.code = Tail(x.code)
      BY <1>1 DEF TxRecords
    <3>4. ListInv(t)'
      BY <3>1, <3>2 DEF ListInv
    <3> HIDE DEF y, z, x
    <3>5. CASE Place(x, "deduct", <<"Take">>)
      <4>1. /\ x.op = "deduct" /\ x.code = <<"Take">> /\ Len(x.code) = 1
            /\ y.code = <<>> /\ Len(y.code) = 0
        BY <3>3, <3>5, Codes DEF Place
      <4>2. Len(x.items) = 1
        BY <1>1, <2>4, <2>5, <4>1, OneItem
      <4>3. Shape(y)
        BY <1>1, <3>2, <4>1, <4>2 DEF Shape, DeductShape
      <4>4. \A j \in Items : Owed(y, j) = Owed(x, j)
        BY <2>5, <3>2, <4>1 DEF Owed, Ahead
      <4>5. \A j \in Items : Done(y, j) = Done(x, j)
        BY <3>2, <4>1 DEF Done, Pending
      <4>6. ReadStep(x, y)
        BY <2>2, <3>2, <4>1, <4>3, <4>4, <4>5 DEF ReadStep, Asks, CacheFirst, CacheLast
      <4> QED BY <2>1, <2>2, <3>1, <3>4, <4>6, ReadStepBooks
    <3>6. CASE Place(x, "transfer", <<"Take", "CacheDown", "Create", "CacheUp">>)
      <4>1. /\ x.op = "transfer" /\ Len(x.code) = 4 /\ Len(y.code) = 3
            /\ x.code = <<"Take", "CacheDown", "Create", "CacheUp">>
            /\ y.code = <<"CacheDown", "Create", "CacheUp">>
            /\ x.row \in Transfers /\ x.qty = TransferOf[x.row].qty
            /\ x.items = <<TransferOf[x.row].from, TransferOf[x.row].to>>
        BY <2>2, <3>3, <3>6, Codes DEF Place, Shape, DeductShape, RestoreShape, ReceiveShape,
           TransferShape, Idle
      <4>2. Shape(y)
        BY <2>5, <3>2, <4>1 DEF Shape, TransferShape
      <4>3. \A j \in Items : Owed(y, j) = Owed(x, j)
        BY <3>2, <4>1 DEF Owed, Ahead
      <4>4. \A j \in Items : Done(y, j) = Done(x, j)
        <5>1. x.code # <<>> /\ y.code # <<>>
          BY <4>1, Codes
        <5> QED BY <3>2, <4>1, <5>1 DEF Done
      <4>5. ReadStep(x, y)
        BY <2>2, <3>2, <4>1, <4>2, <4>3, <4>4 DEF ReadStep, Asks, CacheFirst, CacheLast
      <4> QED BY <2>1, <2>2, <3>1, <3>4, <4>5, ReadStepBooks
    <3> QED BY <1>1, <2>2, <3>5, <3>6, Places
  <2> QED BY <2>3, <2>4
<1> QED BY <1>2, <1>3

LEMMA PutBackBooks ==
  ASSUME StockInv, StockInv', BooksInv, NEW t \in Txns, PutBack(t)
  PROVE  BooksInv'
<1> DEFINE x == tx[t]
           y == [x EXCEPT !.list = {}]
<1>1. /\ Runs(t, "PutBack") /\ Own(t) /\ ListInv(t)
      /\ x \in TxRecords /\ x.items[1] \in Items /\ x.items # <<>>
      /\ x.qty \in Nat /\ x.left \in Nat
  BY Running DEF PutBack, BooksInv
<1>2. Shape(x) /\ Asks(x) /\ x = tx[t] /\ Place(x, "restore", <<"PutBack">>)
  BY <1>1, Places DEF Own, Booked
<1>3. /\ x.op = "restore" /\ x.code = <<"PutBack">> /\ Len(x.code) = 1
  BY <1>2, Codes DEF Place
<1>4. PICK s \in x.list :
        /\ MayWrite(t, s.id)
        /\ Write(t, s.id, [db[s.id] EXCEPT !.qty = @ + x.qty,
                             !.st = IF s.st = "DEPLETED" THEN "ACTIVE" ELSE @])
  BY DEF PutBack
<1> DEFINE b == s.id
           w == [db[b] EXCEPT !.qty = @ + x.qty]
           v == [w EXCEPT !.st = IF s.st = "DEPLETED" THEN "ACTIVE" ELSE @]
<1>5. /\ b \in Batches /\ b \in Rows /\ db[b] \in BatchRow /\ db[b].qty \in Nat
  BY <1>1, <1>4, Typed DEF TxRecords, Snapshots, Rows
<1>6. Write(t, b, v) /\ MayWrite(t, b)
  BY <1>4
<1>7. /\ db[b].item = x.items[1] /\ db[b].st # "none"
      /\ s.st = db[b].st /\ s.st \in {"ACTIVE", "DEPLETED"}
  <2>1. /\ Known(t, b) /\ s.st = Seen(t, b).st /\ s.st \in {"ACTIVE", "DEPLETED"}
    BY <1>1, <1>3, <1>4 DEF ListInv
  <2>2. Seen(t, b) = db[b]
    BY <1>5, <1>6, Typed DEF Seen, MayWrite
  <2> QED BY <2>1, <2>2 DEF Known
<1>8. v \in BatchRow /\ v.item = db[b].item /\ v.st = "ACTIVE" /\ v.qty = db[b].qty + x.qty
  <2>1. w \in BatchRow /\ w.qty = db[b].qty + x.qty /\ w.item = db[b].item /\ w.st = db[b].st
    BY <1>1, <1>5 DEF BatchRow
  <2> HIDE DEF w
  <2>2. v.st = "ACTIVE"
    BY <1>7, <2>1 DEF BatchRow
  <2>3. v \in BatchRow /\ v.item = w.item /\ v.qty = w.qty
    BY <1>7, <2>1 DEF BatchRow, BatchStatuses
  <2> QED BY <2>1, <2>2, <2>3
<1>9. tx' = [tx EXCEPT ![t] = y] /\ tx'[t] = y /\ UNCHANGED committed
  BY DEF PutBack, StockInv, TxInv
<1>10. /\ y.op = x.op /\ y.row = x.row /\ y.qty = x.qty /\ y.left = x.left /\ y.code = x.code
       /\ y.list = {} /\ y.ask = x.ask /\ y.items = x.items
  BY <1>1 DEF TxRecords
<1>11. ListInv(t)'
  BY <1>9, <1>10 DEF ListInv
<1>12. x.list # {}
  BY <1>4
<1> HIDE DEF x, y, b, w, v
<1>13. Shape(y)
  BY <1>1, <1>3, <1>10 DEF Shape, RestoreShape
<1>14. \A j \in Items : Owed(y, j) = IF j = x.items[1] THEN Owed(x, j) - x.qty ELSE Owed(x, j)
  BY <1>1, <1>3, <1>10, <1>12 DEF Owed, Ahead
<1>15. \A j \in Items : Done(y, j) = Done(x, j)
  BY <1>3, <1>10 DEF Done, Pending
<1>16. BatchStep(x, y, x.qty)
  BY <1>2, <1>3, <1>10, <1>13, <1>14, <1>15 DEF BatchStep, Asks, CacheFirst, CacheLast
<1>17. /\ x.qty \in Int /\ v.st # "none" /\ v.item = x.items[1]
       /\ db[b].st # "none" => v.item = db[b].item
       /\ v.st # "ACTIVE" => v.qty = 0
       /\ v.qty = (IF db[b].st = "none" THEN 0 ELSE db[b].qty) + x.qty
  BY <1>1, <1>7, <1>8
<1> QED BY <1>1, <1>2, <1>5, <1>6, <1>8, <1>9, <1>11, <1>16, <1>17, BatchBooks

LEMMA PutBackDoneBooks ==
  ASSUME StockInv, StockInv', BooksInv, NEW t \in Txns, PutBackDone(t)
  PROVE  BooksInv'
<1> DEFINE x == tx[t]
<1>1. /\ Runs(t, "PutBack") /\ Own(t) /\ x.list = {}
      /\ x \in TxRecords /\ x.items[1] \in Items /\ x.items # <<>> /\ x.items \in Seq(Items)
      /\ x.qty \in Nat /\ x.left \in Nat /\ UNCHANGED <<db, committed, lock>>
  BY Running DEF PutBackDone, BooksInv, TxRecords
<1>2. Shape(x) /\ Asks(x) /\ x = tx[t] /\ Place(x, "restore", <<"PutBack">>)
  BY <1>1, Places DEF Own, Booked
<1>3. /\ x.op = "restore" /\ x.code = <<"PutBack">> /\ Len(x.code) = 1 /\ Tail(x.code) = <<>>
  BY <1>2, Codes DEF Place
<1>4. CASE Len(x.items) > 1
  <2> DEFINE y == [x EXCEPT !.items = Tail(@), !.code = Program["restore"]]
  <2>1. tx' = [tx EXCEPT ![t] = y]
    BY <1>4 DEF PutBackDone
  <2>2. tx'[t] = y
    BY <2>1 DEF StockInv, TxInv
  <2>3. /\ y.op = x.op /\ y.row = x.row /\ y.qty = x.qty /\ y.left = x.left
        /\ y.list = {} /\ y.ask = x.ask /\ y.items = Tail(x.items)
        /\ y.code = <<"CacheUp", "Pick", "PutBack">>
    BY <1>1 DEF TxRecords, Program
  <2>4. ListInv(t)'
    BY <2>2, <2>3 DEF ListInv
  <2>5. y \in TxRecords
    BY <2>2 DEF StockInv, TxInv
  <2> HIDE DEF y, x
  <2>6. Ahead(x) = 0
    BY <1>1, <1>3 DEF Ahead
  <2>7. ReadStep(x, y)
    BY <1>1, <1>2, <1>3, <1>4, <2>3, <2>5, <2>6, NextItemBooks
  <2> QED BY <1>1, <1>2, <2>1, <2>4, <2>7, ReadStepBooks
<1>5. CASE ~(Len(x.items) > 1)
  <2> DEFINE y == [x EXCEPT !.code = Tail(@)]
  <2>1. tx' = [tx EXCEPT ![t] = y] /\ tx'[t] = y
    BY <1>5 DEF PutBackDone, Continue, StockInv, TxInv
  <2>2. /\ y.op = x.op /\ y.row = x.row /\ y.qty = x.qty /\ y.left = x.left
        /\ y.list = {} /\ y.ask = x.ask /\ y.items = x.items
    BY <1>1 DEF TxRecords
  <2>3. y.code = <<>> /\ Len(y.code) = 0
    BY <1>1, <1>3, Codes DEF TxRecords
  <2>4. ListInv(t)'
    BY <2>1, <2>2 DEF ListInv
  <2> HIDE DEF y, x
  <2>5. Len(x.items) = 1
    BY <1>1, <1>5, OneItem
  <2>6. Shape(y)
    BY <1>1, <1>3, <2>2, <2>3, <2>5 DEF Shape, RestoreShape
  <2>7. \A j \in Items : Owed(y, j) = Owed(x, j)
    BY <1>1, <1>3, <2>2, <2>3 DEF Owed, Ahead
  <2>8. \A j \in Items : Done(y, j) = Done(x, j)
    BY <1>3, <2>2, <2>3 DEF Done, Pending
  <2>9. ReadStep(x, y)
    BY <1>2, <1>3, <2>2, <2>3, <2>6, <2>7, <2>8 DEF ReadStep, Asks, CacheFirst, CacheLast
  <2> QED BY <1>1, <1>2, <2>1, <2>4, <2>9, ReadStepBooks
<1> QED BY <1>4, <1>5

LEMMA CreateBooks ==
  ASSUME StockInv, StockInv', BooksInv, NEW t \in Txns, Create(t)
  PROVE  BooksInv'
<1> DEFINE x == tx[t]
           y == [x EXCEPT !.code = Tail(@)]
<1>1. /\ Runs(t, "Create") /\ Own(t)
      /\ x \in TxRecords /\ x.items[1] \in Items /\ x.items # <<>>
      /\ x.qty \in Nat /\ x.left \in Nat /\ x.exp \in Nat
  BY Running DEF Create, BooksInv
<1>2. PICK b \in Batches :
        /\ db[b].st = "none" /\ lock[b] = NoTxn
        /\ Write(t, b, [item |-> x.items[1], qty |-> x.qty, st |-> "ACTIVE", exp |-> x.exp])
  BY DEF Create
<1> DEFINE v == [item |-> x.items[1], qty |-> x.qty, st |-> "ACTIVE", exp |-> x.exp]
<1>3. /\ v \in BatchRow /\ v.item = x.items[1] /\ v.st = "ACTIVE" /\ v.qty = x.qty
      /\ Write(t, b, v) /\ MayWrite(t, b)
  BY <1>1, <1>2 DEF BatchRow, BatchStatuses, MayWrite
<1>4. tx' = [tx EXCEPT ![t] = y] /\ tx'[t] = y /\ UNCHANGED committed
  BY DEF Create, Continue, StockInv, TxInv
<1>5. /\ y.op = x.op /\ y.row = x.row /\ y.qty = x.qty /\ y.left = x.left
      /\ y.list = x.list /\ y.ask = x.ask /\ y.items = x.items
  BY <1>1 DEF TxRecords
<1>6. y.code = Tail(x.code)
  BY <1>1 DEF TxRecords
<1>7. Shape(x) /\ Asks(x) /\ x = tx[t]
  BY <1>1 DEF Own, Booked
<1> HIDE DEF x, y, v
<1>8. ASSUME BatchStep(x, y, x.qty), x.list = {}
      PROVE  BooksInv'
  <2>1. ListInv(t)'
    BY <1>4, <1>5, <1>8 DEF ListInv
  <2>2. /\ x.qty \in Int /\ v.st # "none" /\ v.item = x.items[1]
        /\ db[b].st # "none" => v.item = db[b].item
        /\ v.st # "ACTIVE" => v.qty = 0
        /\ v.qty = (IF db[b].st = "none" THEN 0 ELSE db[b].qty) + x.qty
    BY <1>1, <1>2, <1>3
  <2> QED BY <1>1, <1>3, <1>4, <1>7, <1>8, <2>1, <2>2, BatchBooks
<1>9. CASE Place(x, "restore", <<"Create", "PutBack">>)
  <2>1. /\ x.op = "restore" /\ Len(x.code) = 2 /\ x.list = {}
        /\ y.code = <<"PutBack">> /\ Len(y.code) = 1
    BY <1>6, <1>7, <1>9, Codes DEF Place, Shape, DeductShape, RestoreShape, ReceiveShape,
       TransferShape, Idle
  <2>2. Shape(y)
    BY <1>1, <1>5, <2>1 DEF Shape, RestoreShape
  <2>3. \A j \in Items : Owed(y, j) = IF j = x.items[1] THEN Owed(x, j) - x.qty ELSE Owed(x, j)
    BY <1>1, <1>5, <2>1 DEF Owed, Ahead
  <2>4. \A j \in Items : Done(y, j) = Done(x, j)
    BY <1>5, <2>1 DEF Done, Pending
  <2>5. BatchStep(x, y, x.qty)
    BY <1>5, <1>7, <2>1, <2>2, <2>3, <2>4 DEF BatchStep, Asks, CacheFirst, CacheLast
  <2> QED BY <1>8, <2>1, <2>5
<1>10. CASE Place(x, "receive", <<"Create", "CacheUp">>)
  <2>1. /\ x.op = "receive" /\ Len(x.code) = 2 /\ x.list = {}
        /\ y.code = <<"CacheUp">> /\ Len(y.code) = 1 /\ x.code # <<>> /\ y.code # <<>>
    BY <1>6, <1>7, <1>10, Codes DEF Place, Shape, DeductShape, RestoreShape, ReceiveShape,
       TransferShape, Idle
  <2>2. Shape(y)
    BY <1>1, <1>5, <2>1 DEF Shape, ReceiveShape
  <2>3. \A j \in Items : Owed(y, j) = IF j = x.items[1] THEN Owed(x, j) - x.qty ELSE Owed(x, j)
    BY <1>1, <1>5, <2>1 DEF Owed, Ahead
  <2>4. \A j \in Items : Done(y, j) = Done(x, j)
    BY <1>5, <2>1 DEF Done
  <2>5. BatchStep(x, y, x.qty)
    BY <1>5, <1>7, <2>1, <2>2, <2>3, <2>4 DEF BatchStep, Asks, CacheFirst, CacheLast
  <2> QED BY <1>8, <2>1, <2>5
<1>11. CASE Place(x, "transfer", <<"Create", "CacheUp">>)
  <2>1. /\ x.op = "transfer" /\ Len(x.code) = 2 /\ x.list = {} /\ x.left = 0
        /\ x.code = <<"Create", "CacheUp">> /\ y.code = <<"CacheUp">> /\ Len(y.code) = 1
        /\ x.row \in Transfers /\ x.qty = TransferOf[x.row].qty
        /\ x.items = <<TransferOf[x.row].to>> /\ x.code # <<>> /\ y.code # <<>>
    BY <1>6, <1>7, <1>11, Codes DEF Place, Shape, DeductShape, RestoreShape, ReceiveShape,
       TransferShape, Idle
  <2>2. Shape(y)
    BY <1>1, <1>5, <2>1 DEF Shape, TransferShape
  <2>3. \A j \in Items : Owed(y, j) = IF j = x.items[1] THEN Owed(x, j) - x.qty ELSE Owed(x, j)
    BY <1>1, <1>5, <2>1 DEF Owed, Ahead
  <2>4. \A j \in Items : Done(y, j) = Done(x, j)
    BY <1>5, <2>1 DEF Done
  <2>5. BatchStep(x, y, x.qty)
    BY <1>5, <1>7, <2>1, <2>2, <2>3, <2>4 DEF BatchStep, Asks, CacheFirst, CacheLast
  <2> QED BY <1>8, <2>1, <2>5
<1> QED BY <1>1, <1>7, <1>9, <1>10, <1>11, Places

LEMMA ClaimBooks ==
  ASSUME StockInv, StockInv', BooksInv, NEW t \in Txns, Claim(t)
  PROVE  BooksInv'
<1> DEFINE x == tx[t]
           r == x.row
           y == [x EXCEPT !.code = Tail(@)]
<1>1. /\ Runs(t, "Claim") /\ Own(t)
      /\ x \in TxRecords /\ x.items[1] \in Items /\ x.items # <<>>
      /\ x.qty \in Nat /\ x.left \in Nat
  BY Running DEF Claim, BooksInv
<1>2. CASE Throw(t)
  BY <1>2, ThrowBooks
<1>3. CASE ~Throw(t)
  <2>1. /\ MayWrite(t, r) /\ Write(t, r, "COMPLETED") /\ db[r] = "PENDING" /\ UNCHANGED committed
        /\ tx' = [tx EXCEPT ![t] = y] /\ tx'[t] = y
    BY <1>3 DEF Claim, Continue, StockInv, TxInv
  <2>2. /\ y.op = x.op /\ y.row = x.row /\ y.qty = x.qty /\ y.left = x.left
        /\ y.list = x.list /\ y.ask = x.ask /\ y.items = x.items
    BY <1>1 DEF TxRecords
  <2>3. y.code = Tail(x.code)
    BY <1>1 DEF TxRecords
  <2>4. Shape(x) /\ Asks(x) /\ x = tx[t] /\ r = x.row
    BY <1>1 DEF Own, Booked
  <2> HIDE DEF r, y, x
  <2>5. Place(x, "transfer", <<"Claim", "List", "Take", "CacheDown", "Create", "CacheUp">>)
    BY <1>1, <2>4, Places
  <2>6. /\ x.op = "transfer" /\ Len(x.code) = 6 /\ x.list = {} /\ x.left = x.qty
        /\ y.code = <<"List", "Take", "CacheDown", "Create", "CacheUp">> /\ Len(y.code) = 5
        /\ x.code = <<"Claim", "List", "Take", "CacheDown", "Create", "CacheUp">>
        /\ r \in Transfers /\ x.qty = TransferOf[x.row].qty /\ x.row \in Transfers
        /\ x.items = <<TransferOf[x.row].from, TransferOf[x.row].to>>
    BY <2>3, <2>4, <2>5, Codes DEF Place, Shape, DeductShape, RestoreShape, ReceiveShape,
       TransferShape, Idle
  <2>7. Shape(y)
    BY <1>1, <2>2, <2>6 DEF Shape, TransferShape
  <2>8. Asks(y)
    BY <2>2, <2>4, <2>6 DEF Asks
  <2>9. \A j \in Items : Owed(y, j) = Owed(x, j)
    <3>1. y.qty - y.left = 0
      BY <1>1, <2>2, <2>6
    <3> QED BY <2>2, <2>6, <3>1 DEF Owed, Ahead
  <2>10. \A j \in Items : Done(y, j) = Done(x, j)
    <3>1. x.code # <<>> /\ y.code # <<>>
      BY <2>6, Codes
    <3> QED BY <2>2, <2>6, <3>1 DEF Done
  <2>11. /\ r \in Rows /\ r \notin Items /\ r \notin Batches
         /\ lock' = [lock EXCEPT ![r] = t] /\ db' = [db EXCEPT ![r] = "COMPLETED"]
         /\ DOMAIN lock = Rows /\ DOMAIN db = Rows
    BY <2>1, <2>6, RowsAssumption DEF Rows, Write, StockInv, RowsInv, Sound, FreeRowsCommitted
  <2>12. /\ lock'[r] = t /\ db'[r] = "COMPLETED"
         /\ \A q \in Rows : q # r => lock'[q] = lock[q] /\ db'[q] = db[q]
    BY <2>11
  <2>13. Locks(t) /\ tx[t].op = "transfer" /\ Len(tx[t].code) = 6 /\ Len(y.code) = 5
    BY <1>1, <2>4, <2>6 DEF Own
  <2>14. Locks(t)'
    <3>1. committed[r] = "PENDING" /\ \A q \in Transfers : lock[q] # t
      <4>1. \A q \in Transfers : lock[q] # t
        BY <2>13 DEF Locks
      <4>2. lock[r] = NoTxn
        BY <2>1, <2>6, <4>1 DEF MayWrite
      <4> QED BY <2>1, <2>11, <4>1, <4>2, Typed
    <3>2. \A b \in Batches : lock'[b] = t => lock'[db'[b].item] = t
      <4> SUFFICES ASSUME NEW b \in Batches, lock'[b] = t PROVE lock'[db'[b].item] = t
        OBVIOUS
      <4>1. lock[b] = t /\ db'[b] = db[b] /\ db[b].item \in Items
        BY <2>11, <2>12, Typed DEF Rows
      <4>2. lock[db[b].item] = t
        BY <2>13, <4>1 DEF Locks, CacheLast
      <4> QED BY <2>11, <2>12, <4>1, <4>2 DEF Rows
    <3>3. ~CacheFirst(y) /\ y.op = "transfer" /\ y.row = r /\ r \in Transfers
      BY <2>2, <2>4, <2>6 DEF CacheFirst
    <3>4. \A q \in Transfers : q # r => lock'[q] # t
      BY <2>12, <3>1 DEF Rows
    <3>5. \A q \in Transfers :
            /\ lock'[q] = t <=> y.op = "transfer" /\ Len(y.code) < 6 /\ q = y.row
            /\ lock'[q] = t => db'[q] = "COMPLETED" /\ committed'[q] = "PENDING"
      BY <2>1, <2>12, <2>13, <3>1, <3>3, <3>4
    <3>6. y.op # "none" /\ tx'[t] = y
      BY <2>1, <3>3
    <3> QED BY <3>2, <3>3, <3>5, <3>6 DEF Locks
  <2>15. Account(t)' /\ Booked(t)'
    <3>1. Account(t) /\ Booked(t)
      BY <1>1 DEF Own
    <3>2. \A i \in Items :
            /\ r \in Batches => Owed(y, i) = Owed(tx[t], i) - (At("COMPLETED", i) - At(db[r], i))
            /\ r \notin Batches =>
                 Owed(y, i) = IF i = r THEN Owed(tx[t], i) + ("COMPLETED" - db[r])
                              ELSE Owed(tx[t], i)
            /\ Done(y, i) = IF i = r THEN Done(tx[t], i) + ("COMPLETED" - db[r])
                            ELSE Done(tx[t], i)
      BY <2>4, <2>9, <2>10, <2>11
    <3>3. r \in Rows /\ MayWrite(t, r) /\ Write(t, r, "COMPLETED") /\ UNCHANGED committed
          /\ tx' = [tx EXCEPT ![t] = y]
      BY <2>1, <2>11
    <3> QED BY <2>8, <3>1, <3>2, <3>3, WriteAccounts, Zenon
  <2>16. Own(t)' /\ ListInv(t)'
    BY <2>1, <2>2, <2>6, <2>7, <2>14, <2>15 DEF Own, ListInv
  <2> QED BY <2>1, <2>11, <2>16, WriteBooks
<1> QED BY <1>2, <1>3

\* An operation that begins holds nothing and has done nothing.
LEMMA BeginBooks ==
  ASSUME StockInv, BooksInv, NEW t \in Txns, NEW y, Begin(t, y),
         Shape(y), Asks(y), y.op # "none", y.list = {}, ~CacheFirst(y),
         y.op = "transfer" => Len(y.code) = 6,
         \A i \in Items : Owed(y, i) = 0 /\ Done(y, i) = 0
  PROVE  BooksInv'
<1>1. /\ tx[t].op = "none" /\ UNCHANGED <<db, committed, lock>>
      /\ tx' = [tx EXCEPT ![t] = y] /\ tx'[t] = y /\ Own(t)
  BY DEF Begin, StockInv, TxInv, BooksInv
<1>2. \A r \in Rows : lock[r] # t
  BY <1>1 DEF Own, Locks
<1>3. Locks(t)'
  <2>1. \A r \in Transfers : ~(y.op = "transfer" /\ Len(y.code) < 6 /\ r = y.row)
    OBVIOUS
  <2>2. \A r \in Rows : lock'[r] # t
    BY <1>1, <1>2
  <2> QED BY <1>1, <2>1, <2>2 DEF Locks, Rows
<1>4. Account(t)' /\ Booked(t)'
  <2>1. \A i \in Items : Owed(tx[t], i) = 0 /\ Done(tx[t], i) = 0
    BY <1>1 DEF Owed, Done
  <2> QED BY <1>1, <2>1, ReadAccounts DEF Own
<1>5. Own(t)' /\ ListInv(t)'
  BY <1>1, <1>3, <1>4 DEF Own, ListInv
<1> QED BY <1>1, <1>5, ReadBooks

\* What an operation of these four is when it begins.
Fresh(y, op, items, q, ask) ==
  /\ y.op = op /\ y.code = Program[op] /\ y.items = items
  /\ y.qty = q /\ y.left = q /\ y.list = {} /\ y.ask = ask /\ y.request = items

LEMMA FreshOperation ==
  ASSUME NEW op \in OpNames, NEW items \in Seq(Items), NEW q \in Nat
  PROVE  Operation(op, items, q) \in TxRecords /\ Fresh(Operation(op, items, q), op, items, q, NoAsk)
<1>1. Operation(op, items, q) \in TxRecords
  BY OperationType
<1>2. Fresh(Operation(op, items, q), op, items, q, NoAsk)
  BY DEF Operation, Idle, Fresh
<1> QED BY <1>1, <1>2

LEMMA FreshAsk ==
  ASSUME NEW x \in TxRecords, NEW op, NEW items, NEW q, NEW old, Fresh(x, op, items, q, old),
         NEW ask
  PROVE  Fresh([x EXCEPT !.ask = ask], op, items, q, ask)
BY DEF Fresh, TxRecords

LEMMA FreshExpiry ==
  ASSUME NEW x \in TxRecords, NEW op, NEW items, NEW q, NEW ask, Fresh(x, op, items, q, ask),
         NEW exp \in Nat
  PROVE  [x EXCEPT !.exp = exp] \in TxRecords /\ Fresh([x EXCEPT !.exp = exp], op, items, q, ask)
BY DEF Fresh, TxRecords

LEMMA FreshRow ==
  ASSUME NEW x \in TxRecords, NEW op, NEW items, NEW q, NEW ask, Fresh(x, op, items, q, ask),
         NEW row \in Transfers
  PROVE  Fresh([x EXCEPT !.row = row], op, items, q, ask) /\ [x EXCEPT !.row = row].row = row
BY DEF Fresh, TxRecords

LEMMA RecipeBooks ==
  ASSUME StockInv, BooksInv, NEW t \in Txns, NEW y, Begin(t, y),
         NEW op \in {"deduct", "restore"}, NEW plan \in Plans, NEW q \in Nat,
         Fresh(y, op, plan, q, Asking(plan, IF op = "deduct" THEN -q ELSE q))
  PROVE  BooksInv'
<1>1. /\ plan \in Seq(Items) /\ plan # <<>> /\ IsInjective(plan)
      /\ y.op = op /\ y.items = plan /\ y.qty = q /\ y.left = q /\ y.list = {}
      /\ y.ask = Asking(plan, IF op = "deduct" THEN -q ELSE q)
  BY PlansAssumption DEF Fresh
<1>2. /\ y.code = IF op = "deduct" THEN <<"CacheDown", "List", "Take">>
                  ELSE <<"CacheUp", "Pick", "PutBack">>
      /\ Len(y.code) = 3
  BY Codes DEF Fresh, Program
<1>3. Shape(y)
  BY <1>1, <1>2 DEF Shape, DeductShape, RestoreShape
<1>4. DOMAIN plan = 1 .. Len(plan) /\ \A k \in 1 .. Len(plan) : plan[k] \in Items
  BY <1>1
<1>5. \A i \in Items :
        y.ask[i] = IF i \in {plan[k] : k \in 1 .. Len(plan)}
                   THEN (IF op = "deduct" THEN -q ELSE q) ELSE 0
  <2> DEFINE n == IF op = "deduct" THEN -q ELSE q
  <2>1. \A i \in Items : y.ask[i] = n * Times(plan, i)
    BY <1>1 DEF Asking
  <2>2. n \in Int /\ n * 1 = n /\ n * 0 = 0
    OBVIOUS
  <2> HIDE DEF n
  <2>3. \A i \in Items : y.ask[i] = IF i \in {plan[k] : k \in 1 .. Len(plan)} THEN n ELSE 0
    BY <1>1, <2>1, <2>2, TimesOnce
  <2> QED BY <2>3 DEF n
<1>6. Asks(y)
  BY <1>1, <1>4, <1>5 DEF Asks
<1>7. \A i \in Items : Owed(y, i) = 0 /\ Done(y, i) = 0
  <2>1. Pending(y) = {plan[k] : k \in 1 .. Len(plan)}
    BY <1>1, <1>2 DEF Pending
  <2> QED BY <1>1, <1>2, <1>5, <2>1 DEF Owed, Ahead, Done
<1>8. y.op # "none" /\ y.op # "transfer" /\ ~CacheFirst(y)
  BY <1>1, <1>2 DEF CacheFirst
<1> QED BY <1>1, <1>3, <1>6, <1>7, <1>8, BeginBooks

LEMMA StartsBooks ==
  ASSUME StockInv, BooksInv, Ops \subseteq CoreOps, NEW t \in Txns, Starts(t)
  PROVE  BooksInv'
<1> USE NumbersAssumption
<1>1. CASE BeginSale(t)
  <2>1. PICK plan \in Plans, q \in Quantities :
          Begin(t, [Operation("deduct", plan, q) EXCEPT !.ask = Asking(plan, -q)])
    BY <1>1 DEF BeginSale
  <2>2. plan \in Seq(Items) /\ q \in Nat /\ "deduct" \in OpNames
    BY PlansAssumption DEF OpNames
  <2> DEFINE y == [Operation("deduct", plan, q) EXCEPT !.ask = Asking(plan, -q)]
  <2>3. Fresh(y, "deduct", plan, q, Asking(plan, -q))
    BY <2>2, FreshOperation, FreshAsk
  <2>4. Begin(t, y)
    BY <2>1
  <2> HIDE DEF y
  <2> QED BY <2>2, <2>3, <2>4, RecipeBooks
<1>2. CASE BeginReversal(t)
  <2>1. PICK plan \in Plans, q \in Quantities :
          Begin(t, [Operation("restore", plan, q) EXCEPT !.ask = Asking(plan, q)])
    BY <1>2 DEF BeginReversal
  <2>2. plan \in Seq(Items) /\ q \in Nat /\ "restore" \in OpNames
    BY PlansAssumption DEF OpNames
  <2> DEFINE y == [Operation("restore", plan, q) EXCEPT !.ask = Asking(plan, q)]
  <2>3. Fresh(y, "restore", plan, q, Asking(plan, q))
    BY <2>2, FreshOperation, FreshAsk
  <2>4. Begin(t, y)
    BY <2>1
  <2> HIDE DEF y
  <2> QED BY <2>2, <2>3, <2>4, RecipeBooks
<1>3. CASE BeginReceipt(t)
  <2>1. PICK items \in Deliveries, q \in Quantities, d \in ExpiryDays :
          Begin(t, [Operation("receive", items, q) EXCEPT !.exp = d, !.ask = Asking(items, q)])
    BY <1>3 DEF BeginReceipt
  <2> DEFINE ask == Asking(items, q)
             x == Operation("receive", items, q)
             z == [x EXCEPT !.exp = d]
             y == [z EXCEPT !.ask = ask]
  <2>2. /\ "receive" \in OpNames /\ items \in Seq(Items) /\ items # <<>>
        /\ q \in Nat /\ d \in Nat
    BY DeliveriesAssumption DEF OpNames
  <2>3. Begin(t, y)
    BY <2>1
  <2>4. \A j \in Items : ask[j] = q * Times(items, j) /\ q * Times(items, j) \in Int
    <3>1. \A j \in Items : q * Times(items, j) \in Int
      BY <2>2, LinesLeft
    <3> QED BY <3>1 DEF Asking
  <2> HIDE DEF ask
  <2>6. x \in TxRecords /\ Fresh(x, "receive", items, q, NoAsk)
    BY <2>2, FreshOperation
  <2> HIDE DEF x
  <2>7. z \in TxRecords /\ Fresh(z, "receive", items, q, NoAsk)
    BY <2>2, <2>6, FreshExpiry
  <2> HIDE DEF z
  <2>8. Fresh(y, "receive", items, q, ask)
    BY <2>7, FreshAsk
  <2> HIDE DEF y
  <2>9. /\ y.op = "receive" /\ y.items = items /\ y.qty = q /\ y.left = q /\ y.list = {}
        /\ y.ask = ask /\ y.code = <<"Create", "CacheUp">>
    BY <2>8 DEF Fresh, Program
  <2>10. Len(y.code) = 2 /\ y.code # <<>>
    BY <2>9, Codes
  <2>11. Shape(y)
    BY <2>2, <2>9 DEF Shape, ReceiveShape
  <2>12. Asks(y)
    BY <2>9 DEF Asks
  <2>13. \A j \in Items : Owed(y, j) = 0 /\ Done(y, j) = 0
    <3>1. \A j \in Items : Owed(y, j) = 0
      BY <2>9, <2>10 DEF Owed, Ahead
    <3>2. \A j \in Items : Done(y, j) = ask[j] - q * Times(items, j)
      BY <2>9, <2>10 DEF Done
    <3> QED BY <2>4, <3>1, <3>2
  <2>14. y.op # "none" /\ ~CacheFirst(y) /\ y.op # "transfer"
    BY <2>9 DEF CacheFirst
  <2> QED BY <2>3, <2>9, <2>11, <2>12, <2>13, <2>14, BeginBooks
<1>4. CASE BeginWaste(t)
  <2>1. PICK i \in Items, q \in Quantities, b \in Batches :
          Begin(t, [Operation("waste", <<i>>, q) EXCEPT !.row = b, !.ask = Asking(<<i>>, -q)])
    BY <1>4 DEF BeginWaste
  <2>2. "waste" \in Ops
    BY <2>1 DEF Begin, Operation, Idle
  <2> QED BY <2>2 DEF CoreOps
<1>5. CASE BeginDisposal(t)
  <2>1. PICK b \in Batches :
          Begin(t, [Operation("dispose", <<committed[b].item>>, 0) EXCEPT !.row = b])
    BY <1>5 DEF BeginDisposal
  <2>2. "dispose" \in Ops
    BY <2>1 DEF Begin, Operation, Idle
  <2> QED BY <2>2 DEF CoreOps
<1>6. CASE BeginTransfer(t)
  <2>1. PICK r \in Transfers :
          Begin(t, [Operation("transfer", <<TransferOf[r].from, TransferOf[r].to>>,
                              TransferOf[r].qty) EXCEPT !.row = r])
    BY <1>6 DEF BeginTransfer
  <2> DEFINE items == <<TransferOf[r].from, TransferOf[r].to>>
             q == TransferOf[r].qty
             x == Operation("transfer", items, q)
             y == [x EXCEPT !.row = r]
  <2>2. "transfer" \in OpNames /\ q \in Nat /\ items \in Seq(Items)
    BY TransferAssumption DEF OpNames
  <2>3. Begin(t, y)
    BY <2>1
  <2> HIDE DEF items, q
  <2>4. x \in TxRecords /\ Fresh(x, "transfer", items, q, NoAsk)
    BY <2>2, FreshOperation
  <2> HIDE DEF x
  <2>5. Fresh(y, "transfer", items, q, NoAsk) /\ y.row = r
    BY <2>4, FreshRow
  <2> HIDE DEF y
  <2>6. /\ y.op = "transfer" /\ y.items = items /\ y.qty = q /\ y.left = q /\ y.list = {}
        /\ y.ask = NoAsk /\ y.row = r
        /\ y.code = <<"Claim", "List", "Take", "CacheDown", "Create", "CacheUp">>
    BY <2>5 DEF Fresh, Program
  <2>7. Len(y.code) = 6 /\ y.code # <<>>
    BY <2>6, Codes
  <2>8. Shape(y)
    BY <2>6, <2>7 DEF Shape, TransferShape, items, q
  <2>9. Asks(y)
    BY <2>6 DEF Asks
  <2>10. \A j \in Items : Owed(y, j) = 0 /\ Done(y, j) = 0
    BY <2>6, <2>7 DEF Owed, Ahead, Done
  <2>11. y.op # "none" /\ ~CacheFirst(y)
    BY <2>6 DEF CacheFirst
  <2> QED BY <2>3, <2>6, <2>7, <2>8, <2>9, <2>10, <2>11, BeginBooks
<1> QED BY <1>1, <1>2, <1>3, <1>4, <1>5, <1>6 DEF Starts

LEMMA StatementBooks ==
  ASSUME StockInv, StockInv', BooksInv, NEW t \in Txns, Statement(t)
  PROVE  BooksInv'
<1>1. ASSUME NEW s \in {"ReadNamed", "ReadExpired", "Overwrite", "Expire"}, Runs(t, s)
      PROVE  FALSE
  BY <1>1, Places DEF BooksInv, Own
<1> QED BY <1>1, CacheDownBooks, CacheUpBooks, ListBooks, TakeBooks, TakeDoneBooks, PickBooks,
           PutBackBooks, PutBackDoneBooks, CreateBooks, ClaimBooks
        DEF Statement, ReadNamed, ReadExpired, Overwrite, OverwriteDone, Expire

LEMMA NextBooks ==
  ASSUME StockInv, StockInv', BooksInv, Ops \subseteq CoreOps, [Next]_vars
  PROVE  BooksInv'
<1>1. ASSUME UNCHANGED <<db, committed, lock, tx>> PROVE BooksInv'
  BY <1>1 DEF BooksInv, Own, Locks, Account, Booked, CacheDelta, BatchDelta, Change, ListInv,
     Known, Seen, EmptyIn, KeptItems, CacheInv
<1>2. CASE NextDay \/ UNCHANGED vars
  BY <1>1, <1>2 DEF NextDay, vars
<1>3. CASE \E t \in Txns : Starts(t)
  BY <1>3, StartsBooks
<1>4. CASE \E t \in Txns : Statement(t)
  BY <1>4, StatementBooks
<1>5. CASE \E t \in Txns : Commit(t) \/ Abort(t)
  BY <1>5, CommitBooks, ThrowBooks DEF Abort
<1> QED BY <1>2, <1>3, <1>4, <1>5 DEF Next

\* A sum over the batches of an item is one over all batches.
LEMMA ItemSum ==
  ASSUME NEW v, \A b \in Batches : v[b].qty \in Int, NEW i, NEW statuses
  PROVE  SumOf(v, i, statuses) =
           SumFunctionOnSet([b \in Batches |-> IF v[b].item = i /\ v[b].st \in statuses
                                               THEN v[b].qty ELSE 0], Batches)
<1> DEFINE S == BatchesIn(v, i, statuses)
           g == [b \in S |-> v[b].qty]
           h == [b \in Batches |-> IF v[b].item = i /\ v[b].st \in statuses
                                   THEN v[b].qty ELSE 0]
<1>1. S \in SUBSET Batches /\ IsFiniteSet(Batches)
  BY RowsAssumption DEF BatchesIn
<1>2. (\A b \in S : g[b] \in Int) /\ \A b \in Batches : h[b] = IF b \in S THEN g[b] ELSE 0
  BY DEF BatchesIn
<1>3. SumOf(v, i, statuses) = SumFunctionOnSet(g, S)
  BY DEF SumOf, SumFunction
<1> HIDE DEF S, g, h
<1>4. SumFunctionOnSet(g, S) = SumFunctionOnSet(h, Batches)
  BY <1>1, <1>2, SumPart
<1> QED BY <1>3, <1>4 DEF h

LEMMA CacheMeaning ==
  ASSUME StockInv, CacheInv, NEW i \in Items
  PROVE  committed[i] = SumOf(committed, i, {"ACTIVE"})
<1>1. [b \in Batches |-> IF committed[b].item = i /\ committed[b].st \in {"ACTIVE"}
                         THEN committed[b].qty ELSE 0]
        = [b \in Batches |-> At(committed[b], i)]
  BY DEF At
<1>2. \A b \in Batches : committed[b].qty \in Int
  BY Typed
<1> DEFINE h == [b \in Batches |-> IF committed[b].item = i /\ committed[b].st \in {"ACTIVE"}
                                   THEN committed[b].qty ELSE 0]
           k == [b \in Batches |-> At(committed[b], i)]
<1>3. SumOf(committed, i, {"ACTIVE"}) = SumFunctionOnSet(h, Batches)
  BY <1>2, ItemSum
<1>4. committed[i] = SumFunctionOnSet(k, Batches)
  BY DEF CacheInv
<1>5. h = k
  BY <1>1
<1> HIDE DEF h, k
<1> QED BY <1>3, <1>4, <1>5

LEMMA InitBooks == Init => BooksInv
<1> SUFFICES ASSUME Init PROVE BooksInv
  OBVIOUS
<1>1. \A t \in Txns : Own(t) /\ ListInv(t)
  <2>1. \A t \in Txns : tx[t] = Idle /\ \A r \in Rows : lock[r] # t
    BY NoTxnAssumption DEF Init
  <2> QED BY <2>1, IdleBooks DEF FreeOfBooks
<1>2. \A b \in Batches : db[b] = Initial[b] /\ committed[b] = Initial[b]
  BY RowsAssumption DEF Init, InitialDb, Rows
<1>3. EmptyIn(db) /\ EmptyIn(committed) /\ KeptItems
  BY <1>2, InitialAssumption DEF EmptyIn, KeptItems
<1>4. CacheInv
  <2> SUFFICES ASSUME NEW i \in Items
               PROVE  committed[i] = SumFunctionOnSet([b \in Batches |-> At(committed[b], i)],
                                                      Batches)
    BY DEF CacheInv
  <2>1. committed[i] = SumOf(Initial, i, BatchStatuses)
    BY RowsAssumption DEF Init, InitialDb, Rows
  <2>2. \A b \in Batches : Initial[b].qty \in Int /\ Initial[b].st \in BatchStatuses
    BY InitialAssumption DEF BatchRow
  <2>3. [b \in Batches |-> IF Initial[b].item = i /\ Initial[b].st \in BatchStatuses
                           THEN Initial[b].qty ELSE 0]
          = [b \in Batches |-> At(committed[b], i)]
    BY <1>2, <2>2, InitialAssumption DEF At
  <2> QED BY <2>1, <2>2, <2>3, ItemSum
<1> QED BY <1>1, <1>3, <1>4 DEF BooksInv

\* As long as only sales, reversals, receipts and transfers run, whatever they do at
\* the same time, the cached stock of every item is the sum of its ACTIVE batches
\* in every committed state.  (Waste reports and the expiry cron break it: StockDrift.)
THEOREM CacheMatchesBatchesHolds ==
  ASSUME Ops \subseteq CoreOps
  PROVE  Spec => []CacheMatchesBatches
<1>1. Init => StockInv /\ BooksInv
  BY InitKeeps, InitBooks
<1>2. StockInv /\ BooksInv /\ [Next]_vars => (StockInv /\ BooksInv)'
  BY NextKeeps, NextBooks
<1>3. StockInv /\ BooksInv => CacheMatchesBatches
  BY CacheMeaning DEF CacheMatchesBatches, BooksInv, EmptyIn
<1> QED BY <1>1, <1>2, <1>3, PTL DEF Spec

-------------------------------------------------------------------------------
(* The balance of the stock: what committed operations asked, and no more.     *)

\* What a committed operation has changed is what it asked, and its transfer.
LEMMA DoneIsAsked ==
  ASSUME StockInv, NEW t \in Txns, Own(t), tx[t].op # "none", tx[t].code = <<>>,
         NEW i \in Items
  PROVE  /\ tx[t].op # "transfer" => Done(tx[t], i) = tx[t].ask[i]
         /\ tx[t].op = "transfer" =>
              /\ tx[t].row \in Transfers /\ tx[t].ask[i] = 0
              /\ Done(tx[t], i) =
                   (IF TransferOf[tx[t].row].to = i THEN TransferOf[tx[t].row].qty ELSE 0)
                   - (IF TransferOf[tx[t].row].from = i THEN TransferOf[tx[t].row].qty ELSE 0)
<1> DEFINE x == tx[t]
<1>1. Shape(x) /\ Asks(x) /\ x # Idle /\ x.code = <<>> /\ Len(x.code) = 0
  BY DEF Own, Booked, Idle
<1> HIDE DEF x
<1>2. CASE DeductShape(x) \/ RestoreShape(x)
  <2>1. Len(x.items) = 1 /\ x.op \in {"deduct", "restore"}
    BY <1>1, <1>2, Codes DEF DeductShape, RestoreShape
  <2>2. Pending(x) = {}
    BY <1>1, <2>1 DEF Pending
  <2> QED BY <2>1, <2>2 DEF Done, x
<1>3. CASE ReceiveShape(x)
  <2>1. x.op = "receive" /\ Done(x, i) = x.ask[i] - 0
    BY <1>1, <1>3 DEF ReceiveShape, Done
  <2>2. x.ask[i] \in Int
    BY DEF x, StockInv, TxInv, TxRecords
  <2> QED BY <2>1, <2>2 DEF x
<1>4. CASE TransferShape(x)
  <2>1. x.op = "transfer" /\ x.row \in Transfers /\ x.qty = TransferOf[x.row].qty
    BY <1>4 DEF TransferShape
  <2>2. x.ask[i] = 0
    BY <1>1, <2>1 DEF Asks, NoAsk
  <2> QED BY <1>1, <2>1, <2>2 DEF Done, x
<1> QED BY <1>1, <1>2, <1>3, <1>4 DEF Shape

MovedIn(S) == SumFunctionOnSet([r \in S |-> Moved(r)], S)

\* A transfer completed adds its quantity to a sum that counts it.
LEMMA MovedOnce ==
  ASSUME NEW S \in SUBSET Transfers, NEW y \in Transfers,
         Moved(y) = 0, Moved(y)' = TransferOf[y].qty,
         \A r \in Transfers : r # y => Moved(r)' = Moved(r)
  PROVE  MovedIn(S)' = MovedIn(S) + (IF y \in S THEN TransferOf[y].qty ELSE 0)
<1> DEFINE g == [r \in S |-> Moved(r)]
           h == [r \in S |-> Moved(r)']
<1>1. IsFiniteSet(S)
  BY RowsAssumption, FS_Subset
<1>2. \A r \in S : TransferOf[r].qty \in Int
  BY TransferAssumption
<1>3. \A r \in S : g[r] \in Int
  BY <1>2 DEF Moved
<1>4. \A r \in S : h[r] = IF r = y THEN TransferOf[y].qty ELSE g[r]
  OBVIOUS
<1>5. y \in S => g[y] = 0
  OBVIOUS
<1>6. MovedIn(S) = SumFunctionOnSet(g, S) /\ MovedIn(S)' = SumFunctionOnSet(h, S)
  BY DEF MovedIn
<1>7. \A r \in S : h[r] \in Int
  BY <1>2, <1>3, <1>4
<1> HIDE DEF g, h
<1>8. SumFunctionOnSet(g, S) \in Int
  BY <1>1, <1>3, SumInt
<1>9. CASE y \in S
  <2>1. SumFunctionOnSet(h, S) = SumFunctionOnSet(g, S) + (h[y] - g[y])
    BY <1>1, <1>3, <1>4, <1>7, <1>9, SumChange
  <2> QED BY <1>2, <1>4, <1>5, <1>6, <1>8, <1>9, <2>1
<1>10. CASE y \notin S
  <2>1. SumFunctionOnSet(g, S) = SumFunctionOnSet(h, S)
    BY <1>1, <1>4, <1>10, SumAgrees
  <2> QED BY <1>6, <1>8, <1>10, <2>1
<1> QED BY <1>9, <1>10

Arrivals(i) == {r \in Transfers : TransferOf[r].to = i}
Departures(i) == {r \in Transfers : TransferOf[r].from = i}

LEMMA BalanceForm ==
  StockBalances <=> \A i \in Items :
    committed[i] = InitialDb[i] + net[i] + MovedIn(Arrivals(i)) - MovedIn(Departures(i))
BY DEF StockBalances, MovedIn, Arrivals, Departures, SumFunction

LEMMA BalanceFormNext ==
  StockBalances' <=> \A i \in Items :
    committed'[i] = InitialDb[i] + net'[i] + MovedIn(Arrivals(i))' - MovedIn(Departures(i))'
BY DEF StockBalances, MovedIn, Arrivals, Departures, SumFunction, Moved

LEMMA MovedInt ==
  ASSUME NEW S \in SUBSET Transfers
  PROVE  MovedIn(S) \in Int
<1> DEFINE g == [r \in S |-> Moved(r)]
<1>1. IsFiniteSet(S)
  BY RowsAssumption, FS_Subset
<1>2. \A r \in S : g[r] \in Int
  BY TransferAssumption DEF Moved
<1> HIDE DEF g
<1>3. SumFunctionOnSet(g, S) \in Int
  BY <1>1, <1>2, SumInt
<1> QED BY <1>3 DEF MovedIn, g

\* The transfers a commit completes: the one its transaction accepted.
LEMMA CommitMoves ==
  ASSUME StockInv, BooksInv, NEW t \in Txns, Commit(t)
  PROVE  /\ tx[t].op # "transfer" => \A r \in Transfers : Moved(r)' = Moved(r)
         /\ tx[t].op = "transfer" => \E y \in Transfers :
              /\ y = tx[t].row /\ Moved(y) = 0 /\ Moved(y)' = TransferOf[y].qty
              /\ \A r \in Transfers : r # y => Moved(r)' = Moved(r)
<1>1. \A r \in Rows : committed'[r] = IF lock[r] = t THEN db[r] ELSE committed[r]
  BY DEF Commit, KeepWrites
<1>2. Own(t) /\ tx[t].code = <<>> /\ tx[t].op # "none"
  BY DEF BooksInv, Commit
<1>3. Len(tx[t].code) = 0
  BY <1>2
<1>4. \A r \in Transfers :
        /\ lock[r] = t <=> tx[t].op = "transfer" /\ r = tx[t].row
        /\ lock[r] = t => db[r] = "COMPLETED" /\ committed[r] = "PENDING"
  BY <1>2, <1>3 DEF Own, Locks
<1>5. tx[t].op = "transfer" => tx[t].row \in Transfers
  BY <1>2 DEF Own, Shape, Idle, DeductShape, RestoreShape, ReceiveShape, TransferShape
<1>6. \A r \in Transfers : committed'[r] = IF lock[r] = t THEN db[r] ELSE committed[r]
  BY <1>1 DEF Rows
<1> QED BY <1>4, <1>5, <1>6 DEF Moved

LEMMA CommitBalances ==
  ASSUME StockInv, BooksInv, StockBalances, NEW t \in Txns, Commit(t)
  PROVE  StockBalances'
<1> SUFFICES ASSUME NEW i \in Items
             PROVE  committed'[i] = InitialDb[i] + net'[i] + MovedIn(Arrivals(i))'
                                      - MovedIn(Departures(i))'
  BY BalanceFormNext
<1> DEFINE x == tx[t]
           in == MovedIn(Arrivals(i))
           out == MovedIn(Departures(i))
<1>1. committed[i] = InitialDb[i] + net[i] + in - out
  BY BalanceForm
<1>2. /\ committed'[i] = IF lock[i] = t THEN db[i] ELSE committed[i]
      /\ net'[i] = net[i] + x.ask[i]
      /\ x.op # "none" /\ x.code = <<>>
  BY DEF Commit, KeepWrites, Rows
<1>3. CacheDelta(t, i) = Done(x, i) /\ Own(t)
  BY DEF BooksInv, Own, Booked
<1>4. committed[i] \in Int /\ db[i] \in Int
  BY Typed
<1>5. committed'[i] = committed[i] + Done(x, i)
  BY <1>2, <1>3, <1>4 DEF CacheDelta
<1>6. net[i] \in Int /\ InitialDb[i] \in Int
  BY InitialSums, RowsAssumption DEF StockInv, InitialDb, Rows
<1>7. in \in Int /\ out \in Int
  BY MovedInt DEF Arrivals, Departures
<1>8. Arrivals(i) \in SUBSET Transfers /\ Departures(i) \in SUBSET Transfers
  BY DEF Arrivals, Departures
<1>9. Done(x, i) \in Int
  BY <1>3, <1>4 DEF CacheDelta
<1>10. CASE x.op # "transfer"
  <2>1. Done(x, i) = x.ask[i]
    BY <1>2, <1>3, <1>10, DoneIsAsked
  <2>2. \A r \in Transfers : Moved(r)' = Moved(r)
    BY <1>10, CommitMoves
  <2>3. in' = in /\ out' = out
    BY <1>8, <2>2 DEF MovedIn
  <2> HIDE DEF x, in, out
  <2> QED BY <1>1, <1>2, <1>5, <1>6, <1>7, <1>9, <2>1, <2>3 DEF in, out
<1>11. CASE x.op = "transfer"
  <2>1. PICK y \in Transfers :
          /\ y = tx[t].row /\ Moved(y) = 0 /\ Moved(y)' = TransferOf[y].qty
          /\ \A r \in Transfers : r # y => Moved(r)' = Moved(r)
    BY <1>11, CommitMoves
  <2> DEFINE q == TransferOf[y].qty
  <2>2. /\ x.ask[i] = 0
        /\ Done(x, i) = (IF TransferOf[y].to = i THEN q ELSE 0)
                        - (IF TransferOf[y].from = i THEN q ELSE 0)
    BY <1>2, <1>3, <1>11, <2>1, DoneIsAsked
  <2>3. in' = in + (IF y \in Arrivals(i) THEN q ELSE 0)
    BY <1>8, <2>1, MovedOnce
  <2>4. out' = out + (IF y \in Departures(i) THEN q ELSE 0)
    BY <1>8, <2>1, MovedOnce
  <2>5. /\ y \in Arrivals(i) <=> TransferOf[y].to = i
        /\ y \in Departures(i) <=> TransferOf[y].from = i
    BY <2>1 DEF Arrivals, Departures
  <2>6. q \in Int
    BY <2>1, TransferAssumption
  <2> DEFINE a == IF TransferOf[y].to = i THEN q ELSE 0
             d == IF TransferOf[y].from = i THEN q ELSE 0
  <2>7. in' = in + a /\ out' = out + d /\ a \in Int /\ d \in Int
    BY <2>3, <2>4, <2>5, <2>6
  <2>8. committed'[i] = committed[i] + (a - d) /\ net'[i] = net[i] + 0
    BY <1>2, <1>5, <2>2
  <2> HIDE DEF x, q, in, out, a, d
  <2>9. committed'[i] = InitialDb[i] + net'[i] + (in + a) - (out + d)
    BY <1>1, <1>6, <1>7, <2>7, <2>8
  <2> QED BY <2>7, <2>9 DEF in, out
<1> QED BY <1>10, <1>11

\* Nothing but a commit changes what is committed.
LEMMA OthersBalance ==
  ASSUME StockBalances, UNCHANGED <<committed, net>>
  PROVE  StockBalances'
BY BalanceForm, BalanceFormNext DEF MovedIn, Moved

LEMMA NextBalances ==
  ASSUME StockInv, BooksInv, StockBalances, [Next]_vars
  PROVE  StockBalances'
<1>1. ASSUME NEW t \in Txns, Starts(t) PROVE UNCHANGED <<committed, net>>
  BY <1>1 DEF Starts, BeginSale, BeginReversal, BeginReceipt, BeginWaste, BeginDisposal,
              BeginTransfer, Begin
<1>2. ASSUME NEW t \in Txns, Throw(t) PROVE UNCHANGED <<committed, net>>
  BY <1>2 DEF Throw, UndoWrites
<1>3. ASSUME NEW t \in Txns, Statement(t) PROVE UNCHANGED <<committed, net>>
  <2>1. CASE CacheDown(t) \/ CacheUp(t) \/ List(t) \/ Claim(t)
    BY <1>2, <2>1 DEF CacheDown, CacheUp, List, Claim
  <2>2. CASE Take(t)
    BY <1>2, <2>2 DEF Take
  <2>3. CASE TakeDone(t) \/ Pick(t) \/ PutBack(t) \/ PutBackDone(t) \/ Create(t)
    BY <1>2, <2>3 DEF TakeDone, Pick, PutBack, PutBackDone, Create
  <2>4. CASE ReadNamed(t) \/ ReadExpired(t) \/ Overwrite(t) \/ OverwriteDone(t) \/ Expire(t)
    BY <2>4 DEF ReadNamed, ReadExpired, Overwrite, OverwriteDone, Expire
  <2> QED BY <1>3, <2>1, <2>2, <2>3, <2>4 DEF Statement
<1>4. CASE \E t \in Txns : Commit(t)
  BY <1>4, CommitBalances
<1>5. CASE NextDay \/ UNCHANGED vars
  BY <1>5, OthersBalance DEF NextDay, vars
<1> QED BY <1>1, <1>2, <1>3, <1>4, <1>5, OthersBalance DEF Next, Abort

LEMMA InitBalances == Init => StockBalances
<1> SUFFICES ASSUME Init, NEW i \in Items
             PROVE  committed[i] = InitialDb[i] + net[i] + MovedIn(Arrivals(i))
                                     - MovedIn(Departures(i))
  BY BalanceForm
<1>1. \A r \in Transfers : Moved(r) = 0
  BY RowsAssumption DEF Init, InitialDb, Rows, Moved
<1>2. ASSUME NEW S \in SUBSET Transfers PROVE MovedIn(S) = 0
  <2>1. IsFiniteSet(S) /\ \A r \in S : [u \in S |-> Moved(u)][r] = 0
    BY <1>1, RowsAssumption, FS_Subset
  <2> DEFINE g == [r \in S |-> Moved(r)]
  <2>2. \A r \in S : g[r] = 0
    BY <2>1
  <2>3. MovedIn(S) = SumFunctionOnSet(g, S)
    BY DEF MovedIn
  <2> HIDE DEF g
  <2> QED BY <2>1, <2>2, <2>3, SumZero
<1>3. MovedIn(Arrivals(i)) = 0 /\ MovedIn(Departures(i)) = 0
  BY <1>2 DEF Arrivals, Departures
<1>4. committed[i] = InitialDb[i] /\ net[i] = 0
  BY DEF Init, NoAsk
<1>5. InitialDb[i] \in Int
  BY InitialSums, RowsAssumption DEF InitialDb, Rows
<1> QED BY <1>3, <1>4, <1>5

\* As long as only sales, reversals, receipts and transfers run, no committed change of
\* stock is lost or applied twice: the stock of an item is what it was at the start,
\* plus what every committed operation asked, plus every accepted transfer once.
THEOREM StockBalancesHolds ==
  ASSUME Ops \subseteq CoreOps
  PROVE  Spec => []StockBalances
<1>1. Init => StockInv /\ BooksInv /\ StockBalances
  BY InitKeeps, InitBooks, InitBalances
<1>2. StockInv /\ BooksInv /\ StockBalances /\ [Next]_vars
        => (StockInv /\ BooksInv /\ StockBalances)'
  BY NextKeeps, NextBooks, NextBalances
<1> QED BY <1>1, <1>2, PTL DEF Spec

-------------------------------------------------------------------------------
(* A sale takes the batches that expire first.                                 *)

\* What a sale about to take from the batches has not read, or has finished with,
\* nobody can sell; what it has read expires when it did.
InOrder(u) ==
  tx[u].op = "deduct" /\ tx[u].code = <<"Take">> =>
    /\ \A s \in tx[u].list : s.exp = Seen(u, s.id).exp
    /\ tx[u].left > 0 => \A c \in Batches :
         /\ IsBatchOf(Seen(u, c), tx[u].items[1])
         /\ Seen(u, c).exp >= today /\ Seen(u, c).qty > 0
         => \E s \in tx[u].list : s.id = c

OrderInv == today \in Int /\ \A u \in Txns : InOrder(u)

\* A step that leaves alone the request of u and the rows u holds.
Apart(u) ==
  /\ tx'[u] = tx[u]
  /\ \A r \in Rows : lock'[r] = u <=> lock[r] = u
  /\ \A r \in Rows : lock[r] = u => db'[r] = db[r]

\* A change of one request, and of a row it may write, leaves the others alone.
LEMMA RequestsApart ==
  ASSUME StockInv, NEW t \in Txns, NEW u \in Txns, u # t
  PROVE  /\ \A y : tx' = [tx EXCEPT ![t] = y] => tx'[u] = tx[u]
         /\ UNCHANGED <<db, lock>> /\ tx'[u] = tx[u] => Apart(u)
         /\ \A r, v : MayWrite(t, r) /\ Write(t, r, v) /\ tx'[u] = tx[u] => Apart(u)
<1>1. /\ tx = [w \in Txns |-> tx[w]] /\ lock = [r \in Rows |-> lock[r]]
      /\ db = [r \in Rows |-> db[r]] /\ NoTxn # u
  BY Typed DEF StockInv, TxInv, RowsInv, Sound, FreeRowsCommitted
<1>2. ASSUME NEW y, tx' = [tx EXCEPT ![t] = y] PROVE tx'[u] = tx[u]
  BY <1>1, <1>2
<1>3. ASSUME NEW r, NEW v, MayWrite(t, r), Write(t, r, v), tx'[u] = tx[u] PROVE Apart(u)
  BY <1>1, <1>3 DEF MayWrite, Write, Apart
<1>4. UNCHANGED <<db, lock>> /\ tx'[u] = tx[u] => Apart(u)
  BY DEF Apart
<1> QED BY <1>2, <1>3, <1>4

LEMMA ThrowApart ==
  ASSUME StockInv, NEW t \in Txns, NEW u \in Txns, u # t, Throw(t)
  PROVE  Apart(u) /\ UNCHANGED <<committed, today>>
<1>1. /\ db' = [r \in Rows |-> IF lock[r] = t THEN committed[r] ELSE db[r]]
      /\ lock' = [r \in Rows |-> IF lock[r] = t THEN NoTxn ELSE lock[r]]
      /\ committed' = committed /\ today' = today
      /\ tx' = [tx EXCEPT ![t] = Idle]
  BY DEF Throw, UndoWrites, Release, End
<1>2. tx'[u] = tx[u] /\ NoTxn # u
  BY <1>1, RequestsApart, Typed
<1> QED BY <1>1, <1>2 DEF Apart

LEMMA CommitApart ==
  ASSUME StockInv, NEW t \in Txns, NEW u \in Txns, u # t, Commit(t)
  PROVE  Apart(u) /\ UNCHANGED today
<1>1. /\ db' = db
      /\ lock' = [r \in Rows |-> IF lock[r] = t THEN NoTxn ELSE lock[r]]
      /\ today' = today
      /\ tx' = [tx EXCEPT ![t] = Idle]
  BY DEF Commit, KeepWrites, Release, End
<1>2. tx'[u] = tx[u] /\ NoTxn # u
  BY <1>1, RequestsApart, Typed
<1> QED BY <1>1, <1>2 DEF Apart

LEMMA OperationRecord ==
  ASSUME NEW op, NEW items, NEW q
  PROVE  Operation(op, items, q) =
           [op |-> op, code |-> Program[op], items |-> items, qty |-> q, left |-> q,
            list |-> {}, exp |-> NoExpiry, row |-> NoTxn, ask |-> NoAsk, request |-> items]
<1>1. PICK x : x = [Idle EXCEPT !.op = op, !.code = Program[op]]
  OBVIOUS
<1>2. x = [op |-> op, code |-> Program[op], items |-> <<>>, qty |-> 0, left |-> 0,
           list |-> {}, exp |-> NoExpiry, row |-> NoTxn, ask |-> NoAsk, request |-> <<>>]
  BY <1>1 DEF Idle
<1>3. Operation(op, items, q) = [x EXCEPT !.items = items, !.qty = q, !.left = q, !.request = items]
  BY <1>1, <1>2 DEF Operation, Idle
<1> QED BY <1>2, <1>3

LEMMA StartsApart ==
  ASSUME StockInv, NEW t \in Txns, Starts(t)
  PROVE  /\ UNCHANGED <<db, committed, lock, today>> /\ tx[t].op = "none"
         /\ \A u \in Txns : u # t => Apart(u)
         /\ ~ (tx'[t].op = "deduct" /\ tx'[t].code = <<"Take">>)
<1>1. PICK y : Begin(t, y) /\ y.code # <<"Take">>
  <2>1. \A op, items, q : Operation(op, items, q) =
          [op |-> op, code |-> Program[op], items |-> items, qty |-> q, left |-> q,
           list |-> {}, exp |-> NoExpiry, row |-> NoTxn, ask |-> NoAsk, request |-> items]
    BY OperationRecord
  <2>2. \A op \in {"deduct", "restore", "receive", "waste", "dispose", "transfer"} :
          Len(Program[op]) # 1
    BY DEF Program
  <2>3. \A op \in {"deduct", "restore", "receive", "waste", "dispose", "transfer"} :
          Program[op] # <<"Take">>
    BY <2>2, Codes
  <2>4. CASE BeginSale(t)
    BY <2>1, <2>3, <2>4 DEF BeginSale
  <2>5. CASE BeginReversal(t)
    BY <2>1, <2>3, <2>5 DEF BeginReversal
  <2>6. CASE BeginReceipt(t)
    <3>1. PICK items \in Deliveries, q \in Quantities, d \in ExpiryDays :
            Begin(t, [Operation("receive", items, q) EXCEPT !.exp = d, !.ask = Asking(items, q)])
      BY <2>6 DEF BeginReceipt
    <3>2. PICK x : x = Operation("receive", items, q)
      OBVIOUS
    <3>3. x = [op |-> "receive", code |-> Program["receive"], items |-> items, qty |-> q, left |-> q,
               list |-> {}, exp |-> NoExpiry, row |-> NoTxn, ask |-> NoAsk, request |-> items]
      BY <2>1, <3>2
    <3>4. PICK y : y = [x EXCEPT !.exp = d, !.ask = Asking(items, q)]
      OBVIOUS
    <3>5. y = [op |-> "receive", code |-> Program["receive"], items |-> items, qty |-> q, left |-> q,
               list |-> {}, exp |-> d, row |-> NoTxn, ask |-> Asking(items, q), request |-> items]
      BY <3>3, <3>4
    <3>6. Begin(t, y)
      BY <3>1, <3>2, <3>4
    <3>7. y.code = Program["receive"]
      BY <3>5
    <3> QED BY <2>3, <3>6, <3>7
  <2>7. CASE BeginWaste(t)
    <3>1. PICK i \in Items, q \in Quantities, b \in Batches :
            Begin(t, [Operation("waste", <<i>>, q) EXCEPT !.row = b, !.ask = Asking(<<i>>, -q)])
      BY <2>7 DEF BeginWaste
    <3>2. PICK x : x = Operation("waste", <<i>>, q)
      OBVIOUS
    <3>3. x = [op |-> "waste", code |-> Program["waste"], items |-> <<i>>, qty |-> q, left |-> q,
               list |-> {}, exp |-> NoExpiry, row |-> NoTxn, ask |-> NoAsk, request |-> <<i>>]
      BY <2>1, <3>2
    <3>4. PICK y : y = [x EXCEPT !.row = b, !.ask = Asking(<<i>>, -q)]
      OBVIOUS
    <3>5. y = [op |-> "waste", code |-> Program["waste"], items |-> <<i>>, qty |-> q, left |-> q,
               list |-> {}, exp |-> NoExpiry, row |-> b, ask |-> Asking(<<i>>, -q), request |-> <<i>>]
      BY <3>3, <3>4
    <3>6. Begin(t, y)
      BY <3>1, <3>2, <3>4
    <3>7. y.code = Program["waste"]
      BY <3>5
    <3> QED BY <2>3, <3>6, <3>7
  <2>8. CASE BeginDisposal(t)
    BY <2>1, <2>3, <2>8 DEF BeginDisposal
  <2>9. CASE BeginTransfer(t)
    BY <2>1, <2>3, <2>9 DEF BeginTransfer
  <2> QED BY <2>4, <2>5, <2>6, <2>7, <2>8, <2>9 DEF Starts
<1>2. tx' = [tx EXCEPT ![t] = y] /\ UNCHANGED <<db, committed, lock, today>> /\ tx[t].op = "none"
  BY <1>1 DEF Begin
<1>3. tx'[t] = y
  BY <1>2 DEF StockInv, TxInv
<1> QED BY <1>1, <1>2, <1>3, RequestsApart

\* A statement writes one row it may write, if any; a batch that exists keeps
\* existing, as a batch of the same item.
OneWrite(t) ==
  \/ UNCHANGED <<db, lock>>
  \/ \E r \in Rows : \E v :
       /\ MayWrite(t, r) /\ Write(t, r, v)
       /\ r \in Batches /\ db[r].st # "none" => v.st # "none" /\ v.item = db[r].item

LEMMA StatementWrites ==
  ASSUME StockInv, NEW t \in Txns, Statement(t), ~Throw(t)
  PROVE  /\ OneWrite(t) /\ UNCHANGED <<committed, today>>
         /\ \E y : tx' = [tx EXCEPT ![t] = y]
<1> DEFINE x == tx[t]
<1>1. ASSUME NEW s \in x.list PROVE s.id \in Batches /\ s.id \in Rows
  BY DEF StockInv, TxInv, TxRecords, Snapshots, Rows
<1>2. \A b \in Batches : db[b] \in BatchRow /\ b \in Rows
  BY Typed DEF Rows
<1>3. \A i \in Items : i \in Rows /\ i \notin Batches
  BY RowsAssumption DEF Rows
<1>4. CASE CacheDown(t) \/ CacheUp(t)
  <2>1. x.items[1] \in Items
    BY <1>4, Running DEF CacheDown, CacheUp
  <2>2. /\ \E v : MayWrite(t, x.items[1]) /\ Write(t, x.items[1], v)
        /\ UNCHANGED <<committed, today>> /\ \E y : tx' = [tx EXCEPT ![t] = y]
    BY <1>4 DEF CacheDown, CacheUp, Continue
  <2> QED BY <1>3, <2>1, <2>2 DEF OneWrite
<1>5. CASE List(t) \/ ReadNamed(t) \/ ReadExpired(t) \/ OverwriteDone(t)
  BY <1>5 DEF List, ReadNamed, ReadExpired, OverwriteDone, Continue, OneWrite
<1>6. CASE TakeDone(t) \/ Pick(t) \/ PutBackDone(t)
  BY <1>6 DEF TakeDone, Pick, PutBackDone, Continue, OneWrite
<1>7. CASE Take(t)
  <2>1. PICK s \in x.list :
          /\ MayWrite(t, s.id)
          /\ Write(t, s.id, IF s.qty <= x.left THEN [db[s.id] EXCEPT !.qty = 0, !.st = "DEPLETED"]
                                              ELSE [db[s.id] EXCEPT !.qty = @ - x.left])
          /\ UNCHANGED <<committed, today>> /\ \E y : tx' = [tx EXCEPT ![t] = y]
    BY <1>7 DEF Take
  <2> DEFINE v == IF s.qty <= x.left THEN [db[s.id] EXCEPT !.qty = 0, !.st = "DEPLETED"]
                                     ELSE [db[s.id] EXCEPT !.qty = @ - x.left]
  <2>2. db[s.id].st # "none" => v.st # "none" /\ v.item = db[s.id].item
    BY <1>1, <1>2 DEF BatchRow
  <2>3. Write(t, s.id, v)
    BY <2>1
  <2> HIDE DEF v
  <2> QED BY <1>1, <2>1, <2>2, <2>3 DEF OneWrite
<1>8. CASE PutBack(t)
  <2>1. PICK s \in x.list :
          /\ MayWrite(t, s.id)
          /\ Write(t, s.id, [db[s.id] EXCEPT !.qty = @ + x.qty,
                               !.st = IF s.st = "DEPLETED" THEN "ACTIVE" ELSE @])
    BY <1>8 DEF PutBack
  <2> DEFINE v == [db[s.id] EXCEPT !.qty = @ + x.qty, !.st = IF s.st = "DEPLETED" THEN "ACTIVE" ELSE @]
  <2>2. db[s.id].st # "none" => v.st # "none" /\ v.item = db[s.id].item
    BY <1>1, <1>2 DEF BatchRow
  <2>3. Write(t, s.id, v)
    BY <2>1
  <2>4. UNCHANGED <<committed, today>> /\ \E y : tx' = [tx EXCEPT ![t] = y]
    BY <1>8 DEF PutBack
  <2> HIDE DEF v
  <2> QED BY <1>1, <2>1, <2>2, <2>3, <2>4 DEF OneWrite
<1>9. CASE Create(t)
  <2>1. PICK b \in Batches : db[b].st = "none" /\ MayWrite(t, b) /\ \E v : Write(t, b, v)
    BY <1>9 DEF Create, MayWrite
  <2>2. UNCHANGED <<committed, today>> /\ \E y : tx' = [tx EXCEPT ![t] = y]
    BY <1>9 DEF Create, Continue
  <2> QED BY <1>2, <2>1, <2>2 DEF OneWrite
<1>10. CASE Claim(t)
  <2>1. x.row \in Transfers
    BY <1>10, Running DEF Claim, RowsNamed
  <2>2. x.row \in Rows /\ x.row \notin Batches
    BY <2>1, RowsAssumption DEF Rows
  <2>3. /\ \E v : MayWrite(t, x.row) /\ Write(t, x.row, v)
        /\ UNCHANGED <<committed, today>> /\ \E y : tx' = [tx EXCEPT ![t] = y]
    BY <1>10 DEF Claim, Continue
  <2> QED BY <2>2, <2>3 DEF OneWrite
<1>11. CASE Overwrite(t)
  <2>0. PICK s \in x.list : \E n :
          /\ MayWrite(t, s.id)
          /\ \/ UNCHANGED <<db, lock>>
             \/ Write(t, s.id, [db[s.id] EXCEPT !.qty = s.qty - n,
                                  !.st = IF s.qty = n THEN "DEPLETED" ELSE "ACTIVE"])
    BY <1>11 DEF Overwrite
  <2>1. PICK n :
          /\ MayWrite(t, s.id)
          /\ \/ UNCHANGED <<db, lock>>
             \/ Write(t, s.id, [db[s.id] EXCEPT !.qty = s.qty - n,
                                  !.st = IF s.qty = n THEN "DEPLETED" ELSE "ACTIVE"])
    BY <2>0
  <2> DEFINE v == [db[s.id] EXCEPT !.qty = s.qty - n, !.st = IF s.qty = n THEN "DEPLETED" ELSE "ACTIVE"]
  <2>2. v.st # "none" /\ v.item = db[s.id].item
    BY <1>1, <1>2 DEF BatchRow
  <2>3. UNCHANGED <<db, lock>> \/ Write(t, s.id, v)
    BY <2>1
  <2>4. UNCHANGED <<committed, today>> /\ \E y : tx' = [tx EXCEPT ![t] = y]
    BY <1>11 DEF Overwrite
  <2> HIDE DEF v
  <2> QED BY <1>1, <2>1, <2>2, <2>3, <2>4 DEF OneWrite
<1>12. CASE Expire(t)
  <2>1. x.row \in Batches
    BY <1>12, Running DEF Expire, RowsNamed
  <2> DEFINE v == [db[x.row] EXCEPT !.qty = 0, !.st = "EXPIRED"]
  <2>2. v.st # "none" /\ v.item = db[x.row].item
    BY <1>2, <2>1 DEF BatchRow
  <2>3. MayWrite(t, x.row) /\ Write(t, x.row, v)
    BY <1>12 DEF Expire
  <2>4. UNCHANGED <<committed, today>> /\ \E y : tx' = [tx EXCEPT ![t] = y]
    BY <1>12 DEF Expire, Continue
  <2> HIDE DEF v
  <2> QED BY <1>2, <2>1, <2>2, <2>3, <2>4 DEF OneWrite
<1> QED BY <1>4, <1>5, <1>6, <1>7, <1>8, <1>9, <1>10, <1>11, <1>12 DEF Statement

\* A statement of t leaves every other request alone, and commits nothing.
LEMMA StatementApart ==
  ASSUME StockInv, NEW t \in Txns, NEW u \in Txns, u # t, Statement(t)
  PROVE  Apart(u) /\ UNCHANGED <<committed, today>>
<1>1. CASE Throw(t)
  BY <1>1, ThrowApart
<1>2. CASE ~Throw(t)
  BY <1>2, StatementWrites, RequestsApart DEF OneWrite
<1> QED BY <1>1, <1>2

\* What another request or another day changes, a sale under way does not see.
LEMMA ApartOrder ==
  ASSUME StockInv, NEW u \in Txns, InOrder(u), Apart(u), UNCHANGED committed,
         today' = today \/ (today \in Int /\ today' = today + 1)
  PROVE  InOrder(u)'
<1>1. \A c \in Batches : Seen(u, c)' = Seen(u, c)
  BY DEF Seen, Apart, Rows
<1>2. \A s \in tx[u].list : s.id \in Batches
  BY DEF StockInv, TxInv, TxRecords, Snapshots
<1>3. \A c \in Batches : Seen(u, c).exp \in Nat
  BY Typed DEF Seen, BatchRow
<1>4. \A c \in Batches : Seen(u, c).exp >= today' => Seen(u, c).exp >= today
  BY <1>3
<1>5. tx'[u] = tx[u]
  BY DEF Apart
<1>6. \A c \in Batches : IsBatchOf(Seen(u, c), tx[u].items[1])' = IsBatchOf(Seen(u, c), tx[u].items[1])
  BY <1>1, <1>5 DEF IsBatchOf
<1> QED BY <1>1, <1>2, <1>4, <1>5, <1>6 DEF InOrder

\* A commit changes no batch of an item whose cache row another transaction holds.
LEMMA CommitOrder ==
  ASSUME StockInv, BooksInv, NEW t \in Txns, NEW u \in Txns, u # t, Commit(t), InOrder(u)
  PROVE  InOrder(u)'
<1>1. Apart(u) /\ today' = today
  BY CommitApart
<1>2. SUFFICES ASSUME tx[u].op = "deduct", tx[u].code = <<"Take">> PROVE InOrder(u)'
  BY <1>1 DEF InOrder, Apart
<1>3. \A r \in Rows : committed'[r] = IF lock[r] = t THEN db[r] ELSE committed[r]
  BY DEF Commit, KeepWrites
<1>4. Own(t) /\ Own(u) /\ ListInv(u) /\ tx[t].code = <<>> /\ KeptItems
  BY DEF Commit, BooksInv
<1>5. lock[tx[u].items[1]] = u
  BY <1>2, <1>4, Codes DEF Own, Locks, CacheFirst
<1>6. ~CacheLast(tx[t])
  BY <1>4, Codes DEF CacheLast
<1>7. ASSUME NEW c \in Batches, lock[c] = t PROVE db[c].item # tx[u].items[1]
  BY <1>4, <1>5, <1>6, <1>7 DEF Own, Locks
<1>8. ASSUME NEW c \in Batches
      PROVE  \/ Seen(u, c)' = Seen(u, c)
             \/ lock[c] = t /\ Seen(u, c)'.item # tx[u].items[1]
  <2>1. c \in Rows
    BY DEF Rows
  <2>2. CASE lock[c] = t
    <3>1. t # u /\ committed'[c] = db[c] /\ lock'[c] # u
      BY <1>1, <1>3, <2>1, <2>2 DEF Apart
    <3> QED BY <1>7, <2>2, <3>1 DEF Seen
  <2>3. CASE lock[c] # t
    <3>1. committed'[c] = committed[c]
      BY <1>3, <2>1, <2>3
    <3>2. (lock'[c] = u <=> lock[c] = u) /\ (lock[c] = u => db'[c] = db[c])
      BY <1>1, <2>1 DEF Apart
    <3> QED BY <3>1, <3>2 DEF Seen
  <2> QED BY <2>2, <2>3
<1>9. ASSUME NEW s \in tx[u].list PROVE s.id \in Batches /\ Seen(u, s.id)' = Seen(u, s.id)
  <2>1. s.id \in Batches
    BY DEF StockInv, TxInv, TxRecords, Snapshots
  <2>2. Known(u, s.id)
    BY <1>4 DEF ListInv
  <2> QED BY <1>7, <1>8, <2>1, <2>2 DEF Known
<1>10. tx'[u] = tx[u]
  BY <1>1 DEF Apart
<1>11. ASSUME NEW c \in Batches, IsBatchOf(Seen(u, c), tx[u].items[1])'
       PROVE  Seen(u, c)' = Seen(u, c) /\ IsBatchOf(Seen(u, c), tx[u].items[1])
  BY <1>8, <1>10, <1>11 DEF IsBatchOf
<1> QED BY <1>1, <1>2, <1>9, <1>10, <1>11 DEF InOrder

\* A sale reads every batch it may sell.
LEMMA ListOrder ==
  ASSUME StockInv, BooksInv, NEW u \in Txns, List(u)
  PROVE  InOrder(u)'
<1> DEFINE x == tx[u]
           l == {s \in BatchesOf(u, "ACTIVE") : x.op = "deduct" => s.exp >= today}
           z == [x EXCEPT !.list = l]
           y == [z EXCEPT !.code = Tail(@)]
<1>1. /\ x \in TxRecords /\ tx' = [tx EXCEPT ![u] = y] /\ tx'[u] = y
      /\ UNCHANGED <<db, committed, lock, today>>
  BY Running DEF List, Continue, StockInv, TxInv
<1>2. y.op = x.op /\ y.list = l /\ y.items = x.items
  BY <1>1 DEF TxRecords
<1>3. \A c \in Batches : Seen(u, c)' = Seen(u, c)
  BY <1>1 DEF Seen
<1>4. \A s \in l : \E c \in Batches : s.id = c /\ s.exp = Seen(u, c).exp
  BY DEF BatchesOf, Snapshot
<1>5. ASSUME x.op = "deduct", NEW c \in Batches, IsBatchOf(Seen(u, c), x.items[1]),
             Seen(u, c).exp >= today
      PROVE  \E s \in l : s.id = c
  <2>1. Snapshot(u, c) \in BatchesOf(u, "ACTIVE")
    BY <1>5 DEF BatchesOf, IsBatchOf
  <2>2. Snapshot(u, c).id = c /\ Snapshot(u, c).exp = Seen(u, c).exp
    BY DEF Snapshot
  <2> QED BY <1>5, <2>1, <2>2
<1> HIDE DEF x, y, z, l
<1> QED BY <1>1, <1>2, <1>3, <1>4, <1>5 DEF InOrder, IsBatchOf

\* The batch a sale takes from, and what is left of the others.
LEMMA TakeFirst ==
  ASSUME StockInv, BooksInv, NEW u \in Txns, InOrder(u), tx[u].op = "deduct", Take(u), ~Throw(u)
  PROVE  /\ InOrder(u)' /\ tx[u].code = <<"Take">>
         /\ \E s \in tx[u].list :
              /\ s.id \in Batches /\ tx[u].left > 0 /\ First(tx[u].list, s)
              /\ db[s.id].exp = s.exp /\ db[s.id].item = tx[u].items[1]
              /\ \A b \in Batches : b # s.id => db'[b] = db[b]
<1> DEFINE x == tx[u]
<1>1. /\ Runs(u, "Take") /\ Own(u) /\ ListInv(u)
      /\ x \in TxRecords /\ x.qty \in Nat /\ x.left \in Nat /\ x.list \subseteq Snapshots
  BY Running DEF Take, BooksInv
<1>2. x.code = <<"Take">>
  BY <1>1, Places DEF Own, Place
<1>3. PICK s \in x.list :
        /\ x.left > 0 /\ First(x.list, s) /\ MayWrite(u, s.id)
        /\ Write(u, s.id, IF s.qty <= x.left
                            THEN [db[s.id] EXCEPT !.qty = 0, !.st = "DEPLETED"]
                            ELSE [db[s.id] EXCEPT !.qty = @ - x.left])
        /\ tx' = [tx EXCEPT ![u].left = IF s.qty <= x.left THEN @ - s.qty ELSE 0,
                            ![u].list = @ \ {s},
                            ![u].exp = IF s.exp < @ THEN s.exp ELSE @]
        /\ UNCHANGED <<committed, today>>
  BY DEF Take
<1> DEFINE b == s.id
           v == IF s.qty <= x.left THEN [db[b] EXCEPT !.qty = 0, !.st = "DEPLETED"]
                                   ELSE [db[b] EXCEPT !.qty = @ - x.left]
           y == [x EXCEPT !.left = IF s.qty <= x.left THEN @ - s.qty ELSE 0,
                          !.list = @ \ {s}, !.exp = IF s.exp < @ THEN s.exp ELSE @]
<1>4. tx' = [tx EXCEPT ![u] = y] /\ tx'[u] = y
  BY <1>3 DEF StockInv, TxInv
<1>5. b \in Batches /\ s.qty \in Nat /\ b \in Rows /\ db[b] \in BatchRow
  BY <1>1, <1>3, Typed DEF Snapshots, Rows
<1>6. /\ y.op = x.op /\ y.list = x.list \ {s} /\ y.items = x.items
      /\ y.left = IF s.qty <= x.left THEN x.left - s.qty ELSE 0
  BY <1>1 DEF TxRecords
<1>7. /\ db' = [db EXCEPT ![b] = v] /\ lock' = [lock EXCEPT ![b] = u]
      /\ lock[b] \in {NoTxn, u} /\ committed' = committed
  BY <1>3 DEF Write, MayWrite
<1>8. /\ db'[b] = v /\ lock'[b] = u
      /\ \A r \in Rows : r # b => db'[r] = db[r] /\ lock'[r] = lock[r]
  BY <1>5, <1>7 DEF StockInv, RowsInv, Sound, FreeRowsCommitted
<1>9. db[b].exp = s.exp
  <2>1. Seen(u, b) = db[b]
    BY <1>5, <1>7, Typed DEF Seen
  <2> QED BY <1>2, <1>3, <2>1 DEF InOrder
<1>10. db[b].item = x.items[1]
  BY <1>1, <1>3 DEF ListInv, Known
<1>11. v.exp = db[b].exp /\ (s.qty <= x.left => v.st = "DEPLETED")
  BY <1>5 DEF BatchRow
<1> HIDE DEF v, y
<1>12. \A c \in Batches : c # b => Seen(u, c)' = Seen(u, c)
  BY <1>7, <1>8 DEF Seen, Rows
<1>13. Seen(u, b)' = v
  BY <1>8 DEF Seen
<1>14. ASSUME NEW w \in y.list PROVE w.exp = Seen(u, w.id)'.exp
  <2>1. w \in x.list /\ w.exp = Seen(u, w.id).exp /\ w.id \in Batches
    BY <1>1, <1>2, <1>6, <1>14 DEF InOrder, Snapshots
  <2>2. CASE w.id = b
    <3>1. Seen(u, b) = db[b]
      BY <1>5, <1>7, Typed DEF Seen
    <3> QED BY <1>11, <1>13, <2>1, <2>2, <3>1
  <2> QED BY <1>12, <2>1, <2>2
<1>15. ASSUME y.left > 0, NEW c \in Batches, IsBatchOf(Seen(u, c)', x.items[1]),
              Seen(u, c)'.exp >= today, Seen(u, c)'.qty > 0
       PROVE  \E w \in y.list : w.id = c
  <2>1. s.qty <= x.left
    BY <1>6, <1>15
  <2>2. c # b
    BY <1>11, <1>13, <1>15, <2>1 DEF IsBatchOf
  <2>3. PICK w \in x.list : w.id = c
    BY <1>2, <1>3, <1>12, <1>15, <2>2 DEF InOrder
  <2> QED BY <1>6, <2>2, <2>3
<1>16. InOrder(u)'
  BY <1>3, <1>4, <1>6, <1>14, <1>15 DEF InOrder, IsBatchOf
<1> QED BY <1>2, <1>3, <1>5, <1>8, <1>9, <1>10, <1>16 DEF Rows

\* A statement does not change what a transaction is about.
Same(u) == tx'[u].op = tx[u].op /\ tx'[u].request = tx[u].request

LEMMA OpKept ==
  ASSUME StockInv, NEW u \in Txns, Statement(u)
  PROVE  /\ tx'[u].op = IF Throw(u) THEN "none" ELSE tx[u].op
         /\ Throw(u) \/ tx'[u].request = tx[u].request
<1>1. tx[u] \in TxRecords /\ DOMAIN tx = Txns
  BY DEF StockInv, TxInv
<1>2. SUFFICES ASSUME ~Throw(u) PROVE Same(u)
  BY <1>1 DEF Throw, End, Idle, Same
<1>3. ASSUME NEW z \in TxRecords, z.op = tx[u].op, z.request = tx[u].request, Continue(u, z) PROVE Same(u)
  <2>1. [z EXCEPT !.code = Tail(@)].op = z.op /\ [z EXCEPT !.code = Tail(@)].request = z.request
    BY DEF TxRecords
  <2> QED BY <1>1, <1>3, <2>1 DEF Continue, Same
<1>4. ASSUME NEW f, Continue(u, [tx[u] EXCEPT !.list = f]) PROVE Same(u)
  <2>1. PICK z : z = [tx[u] EXCEPT !.list = f]
    OBVIOUS
  <2>2. PICK y : y = [z EXCEPT !.code = Tail(@)]
    OBVIOUS
  <2>3. tx'[u] = y
    BY <1>1, <1>4, <2>1, <2>2 DEF Continue
  <2> QED BY <1>1, <2>1, <2>2, <2>3 DEF TxRecords, Same
<1>5. CASE CacheDown(u)
  <2>1. PICK z : z = [tx[u] EXCEPT !.items = IF tx[u].op = "transfer" THEN Tail(@) ELSE @]
    OBVIOUS
  <2>2. PICK y : y = [z EXCEPT !.code = Tail(@)]
    OBVIOUS
  <2>3. tx'[u] = y
    BY <1>1, <1>2, <1>5, <2>1, <2>2 DEF CacheDown, Continue
  <2> QED BY <1>1, <2>1, <2>2, <2>3 DEF TxRecords, Same
<1>6. CASE Create(u) \/ Expire(u)
  BY <1>1, <1>3, <1>6 DEF Create, Expire
<1>16. CASE CacheUp(u)
  <2>1. \/ tx' = [tx EXCEPT ![u].items = Tail(@), ![u].code = Program["receive"]]
        \/ Continue(u, tx[u])
    BY <1>16 DEF CacheUp
  <2>2. ASSUME tx' = [tx EXCEPT ![u].items = Tail(@), ![u].code = Program["receive"]]
        PROVE  Same(u)
    BY <1>1, <2>2 DEF TxRecords, Same
  <2> QED BY <1>1, <1>3, <2>1, <2>2
<1>7. CASE Claim(u)
  BY <1>1, <1>2, <1>3, <1>7 DEF Claim
<1>8. CASE List(u) \/ ReadNamed(u) \/ OverwriteDone(u)
  BY <1>4, <1>8 DEF List, ReadNamed, OverwriteDone
<1>9. CASE Take(u)
  <2>1. PICK s \in tx[u].list : tx' = [tx EXCEPT
            ![u].left = IF s.qty <= tx[u].left THEN @ - s.qty ELSE 0,
            ![u].list = @ \ {s}, ![u].exp = IF s.exp < @ THEN s.exp ELSE @]
    BY <1>2, <1>9 DEF Take
  <2> QED BY <1>1, <2>1 DEF TxRecords, Same
<1>10. CASE TakeDone(u)
  <2>1. \/ tx' = [tx EXCEPT ![u].items = Tail(@), ![u].left = tx[u].qty,
                           ![u].list = {}, ![u].code = Program["deduct"]]
        \/ Continue(u, [tx[u] EXCEPT !.list = {}])
    BY <1>2, <1>10 DEF TakeDone
  <2>2. ASSUME tx' = [tx EXCEPT ![u].items = Tail(@), ![u].left = tx[u].qty,
                           ![u].list = {}, ![u].code = Program["deduct"]]
        PROVE  Same(u)
    BY <1>1, <2>2 DEF TxRecords, Same
  <2> QED BY <1>4, <2>1, <2>2
<1>11. CASE Pick(u)
  <2>1. \/ \E b : Continue(u, [tx[u] EXCEPT !.list = {b}])
        \/ tx' = [tx EXCEPT ![u].code = <<"Create", "PutBack">>]
    BY <1>11 DEF Pick
  <2>2. ASSUME tx' = [tx EXCEPT ![u].code = <<"Create", "PutBack">>] PROVE Same(u)
    BY <1>1, <2>2 DEF TxRecords, Same
  <2> QED BY <1>4, <2>1, <2>2
<1>12. CASE PutBack(u)
  BY <1>1, <1>12 DEF PutBack, TxRecords, Same
<1>13. CASE PutBackDone(u)
  <2>1. \/ tx' = [tx EXCEPT ![u].items = Tail(@), ![u].code = Program["restore"]]
        \/ Continue(u, tx[u])
    BY <1>13 DEF PutBackDone
  <2>2. ASSUME tx' = [tx EXCEPT ![u].items = Tail(@), ![u].code = Program["restore"]]
        PROVE  Same(u)
    BY <1>1, <2>2 DEF TxRecords, Same
  <2> QED BY <1>1, <1>3, <2>1, <2>2
<1>14. CASE ReadExpired(u)
  <2>1. \/ \E q, a : Continue(u, [tx[u] EXCEPT !.qty = q, !.ask = a])
        \/ tx' = [tx EXCEPT ![u].code = <<>>]
    BY <1>14 DEF ReadExpired
  <2>2. ASSUME tx' = [tx EXCEPT ![u].code = <<>>] PROVE Same(u)
    BY <1>1, <2>2 DEF TxRecords, Same
  <2>3. ASSUME NEW q, NEW a, Continue(u, [tx[u] EXCEPT !.qty = q, !.ask = a])
        PROVE  Same(u)
    <3>1. PICK z : z = [tx[u] EXCEPT !.qty = q, !.ask = a]
      OBVIOUS
    <3>2. PICK y : y = [z EXCEPT !.code = Tail(@)]
      OBVIOUS
    <3>3. tx'[u] = y
      BY <1>1, <2>3, <3>1, <3>2 DEF Continue
    <3> QED BY <1>1, <3>1, <3>2, <3>3 DEF TxRecords, Same
  <2> QED BY <2>1, <2>2, <2>3
<1>15. CASE Overwrite(u)
  <2>1. PICK b, n : tx' = [tx EXCEPT ![u].left = @ - n, ![u].list = @ \ {b}]
    BY <1>15 DEF Overwrite
  <2> QED BY <1>1, <2>1 DEF TxRecords, Same
<1> QED BY <1>5, <1>6, <1>7, <1>8, <1>9, <1>10, <1>11, <1>12, <1>13, <1>14, <1>15, <1>16 DEF Statement

LEMMA OwnOrder ==
  ASSUME StockInv, BooksInv, NEW u \in Txns, InOrder(u), Statement(u)
  PROVE  InOrder(u)'
<1>1. Shape(tx[u]) /\ tx[u] \in TxRecords
  BY DEF BooksInv, Own, StockInv, TxInv
<1>2. ASSUME Throw(u) PROVE InOrder(u)'
  <2>1. tx'[u] = Idle
    BY <1>2 DEF Throw, End, StockInv, TxInv
  <2> QED BY <2>1 DEF InOrder, Idle
<1>3. ASSUME NEW y, tx' = [tx EXCEPT ![u] = y], y.op # "deduct" \/ y.code # <<"Take">>
      PROVE  InOrder(u)'
  <2>1. tx'[u] = y
    BY <1>3 DEF StockInv, TxInv
  <2> QED BY <1>3, <2>1 DEF InOrder
<1>4. ASSUME tx'[u].op # "deduct" \/ tx'[u].code # <<"Take">> PROVE InOrder(u)'
  BY <1>4 DEF InOrder
<1>5. CASE CacheDown(u)
  <2>1. CASE Throw(u)
    BY <1>2, <2>1
  <2>2. CASE ~Throw(u)
    <3>1. PICK z : z = [tx[u] EXCEPT !.items = IF tx[u].op = "transfer" THEN Tail(@) ELSE @]
      OBVIOUS
    <3>2. PICK y : y = [z EXCEPT !.code = Tail(@)]
      OBVIOUS
    <3>3. tx' = [tx EXCEPT ![u] = y]
      BY <1>5, <2>2, <3>1, <3>2 DEF CacheDown, Continue
    <3>4. z.op = tx[u].op /\ z.code = tx[u].code /\ z = [op |-> z.op, code |-> z.code, items |-> z.items,
            qty |-> z.qty, left |-> z.left, list |-> z.list, exp |-> z.exp, row |-> z.row, ask |-> z.ask,
            request |-> z.request]
      BY <1>1, <3>1 DEF TxRecords
    <3>5. y.op = tx[u].op /\ y.code = Tail(tx[u].code)
      BY <3>2, <3>4
    <3>6. y.op # "deduct" \/ y.code # <<"Take">>
      BY <1>1, <1>5, <3>5, Places, Codes DEF Place, CacheDown
    <3> QED BY <1>3, <3>3, <3>6
  <2> QED BY <2>1, <2>2
<1>6. CASE List(u)
  BY <1>6, ListOrder
<1>7. CASE Take(u)
  <2>1. CASE Throw(u)
    BY <1>2, <2>1
  <2>2. CASE ~Throw(u) /\ tx[u].op = "deduct"
    BY <1>7, <2>2, TakeFirst
  <2>3. CASE ~Throw(u) /\ tx[u].op # "deduct"
    <3>1. tx'[u].op = tx[u].op
      BY <1>1, <1>7, <2>3 DEF Take, StockInv, TxInv, TxRecords
    <3> QED BY <1>4, <2>3, <3>1
  <2> QED BY <2>1, <2>2, <2>3
<1>8. CASE TakeDone(u)
  <2>1. CASE Throw(u)
    BY <1>2, <2>1
  <2>2. CASE ~Throw(u) /\ tx[u].op = "deduct" /\ Len(tx[u].items) > 1
    <3>1. tx'[u].code = Program["deduct"]
      BY <1>1, <1>8, <2>2 DEF TakeDone, StockInv, TxInv, TxRecords
    <3>2. Program["deduct"] # <<"Take">>
      BY Codes DEF Program
    <3> QED BY <1>4, <3>1, <3>2
  <2>3. CASE ~Throw(u) /\ ~(tx[u].op = "deduct" /\ Len(tx[u].items) > 1)
    <3>1. PICK z : z = [tx[u] EXCEPT !.list = {}]
      OBVIOUS
    <3>2. tx'[u] = [z EXCEPT !.code = Tail(@)]
      BY <1>8, <2>3, <3>1 DEF TakeDone, Continue, StockInv, TxInv
    <3>3. z \in TxRecords /\ z.code = tx[u].code /\ z.op = tx[u].op
      BY <1>1, <3>1 DEF TxRecords
    <3>4. tx'[u].code = Tail(tx[u].code) /\ tx'[u].op = tx[u].op
      BY <3>2, <3>3 DEF TxRecords
    <3>5. tx[u].op # "deduct" \/ tx[u].code = <<"Take">>
      BY <1>1, <1>8, Places DEF Place, TakeDone
    <3>6. <<>> # <<"Take">>
      BY Codes
    <3> QED BY <1>4, <3>4, <3>5, <3>6, Codes
  <2> QED BY <2>1, <2>2, <2>3
<1>9. ASSUME NEW s \in {"CacheUp", "Pick", "PutBack", "Create", "Claim",
                        "ReadNamed", "ReadExpired", "Overwrite", "Expire"}, Runs(u, s)
      PROVE  tx[u].op # "deduct"
  BY <1>1, <1>9, Places DEF Place
<1>10. tx[u].op # "deduct" => tx'[u].op # "deduct"
  BY <1>1, OpKept
<1> QED BY <1>4, <1>5, <1>6, <1>7, <1>8, <1>9, <1>10
        DEF Statement, CacheUp, Pick, PutBack, PutBackDone, Create, Claim, ReadNamed, ReadExpired,
            Overwrite, OverwriteDone, Expire

LEMMA NextOrder ==
  ASSUME StockInv, BooksInv, OrderInv, [Next]_vars
  PROVE  OrderInv'
<1>0. today' \in Int
  <2>1. today \in Int /\ (NextDay => today' \in Int)
    BY DEF OrderInv, NextDay
  <2>2. ASSUME NEW t \in Txns, Starts(t) \/ Statement(t) \/ Throw(t) \/ Commit(t)
        PROVE  today' = today
    <3>1. CASE Starts(t)
      BY <3>1, StartsApart
    <3>2. CASE Statement(t)
      BY <3>2 DEF Statement, CacheDown, CacheUp, List, Take, TakeDone, Pick, PutBack,
         PutBackDone, Create, Claim, ReadNamed, ReadExpired, Overwrite, OverwriteDone,
         Expire, Throw, End
    <3> QED BY <2>2, <3>1, <3>2 DEF Throw, Commit, End
  <2> QED BY <2>1, <2>2 DEF Next, Abort, vars
<1> SUFFICES ASSUME NEW u \in Txns PROVE InOrder(u)'
  BY <1>0 DEF OrderInv
<1>1. InOrder(u) /\ today \in Int
  BY DEF OrderInv
<1>2. CASE NextDay \/ UNCHANGED vars
  <2>1. Apart(u) /\ UNCHANGED committed
    BY <1>2 DEF NextDay, vars, Apart
  <2>2. CASE UNCHANGED vars
    BY <2>2, <1>1, <2>1, ApartOrder DEF vars
  <2>3. CASE NextDay
    <3>1. today' = today + 1
      BY <2>3 DEF NextDay
    <3> QED BY <1>1, <2>1, <3>1, ApartOrder
  <2> QED BY <1>2, <2>2, <2>3
<1>3. ASSUME NEW t \in Txns, u # t, Starts(t) \/ Statement(t) \/ Throw(t) PROVE InOrder(u)'
  <2>1. Apart(u) /\ UNCHANGED <<committed, today>>
    BY <1>3, StartsApart, StatementApart, ThrowApart
  <2> QED BY <1>1, <2>1, ApartOrder
<1>4. ASSUME NEW t \in Txns, u # t, Commit(t) PROVE InOrder(u)'
  BY <1>1, <1>4, CommitOrder
<1>5. ASSUME Starts(u) PROVE InOrder(u)'
  BY <1>5, StartsApart DEF InOrder
<1>6. ASSUME Statement(u) PROVE InOrder(u)'
  BY <1>1, <1>6, OwnOrder
<1>7. ASSUME Throw(u) \/ Commit(u) PROVE InOrder(u)'
  <2>1. tx'[u] = Idle
    BY <1>7 DEF Throw, Commit, End, StockInv, TxInv
  <2> QED BY <2>1 DEF InOrder, Idle
<1> QED BY <1>2, <1>3, <1>4, <1>5, <1>6, <1>7 DEF Next, Abort

\* A sale takes from a batch only when what it has not read, or has finished with,
\* holds nothing that expires earlier.
LEMMA NextTakesFirst ==
  ASSUME StockInv, BooksInv, OrderInv, [Next]_vars,
         NEW u \in Txns, NEW b \in Batches, NEW c \in Batches,
         tx[u].op = "deduct", tx'[u].op = "deduct", lock'[b] = u, db'[b].qty < db[b].qty,
         IsBatchOf(Seen(u, c), db[b].item), Seen(u, c).exp >= today, Seen(u, c).qty > 0
  PROVE  db[b].exp <= Seen(u, c).exp
<1>1. db'[b] # db[b] /\ b \in Rows /\ db[b].qty \in Nat
  BY Typed DEF Rows
<1>2. ~Apart(u)
  BY <1>1 DEF Apart
<1>3. ~Throw(u) /\ ~Commit(u)
  <2>1. ASSUME Throw(u) \/ Commit(u) PROVE FALSE
    <3>1. tx'[u] = Idle
      BY <2>1 DEF Throw, Commit, End, StockInv, TxInv
    <3> QED BY <3>1 DEF Idle
  <2> QED BY <2>1
<1>4. ~UNCHANGED db
  BY <1>1
<1>5. Statement(u)
  <2>1. ASSUME NEW t \in Txns, t # u, Starts(t) \/ Statement(t) \/ Throw(t) \/ Commit(t) PROVE FALSE
    BY <1>2, <2>1, StartsApart, StatementApart, ThrowApart, CommitApart
  <2>2. ~Starts(u)
    BY <1>4, StartsApart
  <2> QED BY <1>3, <1>4, <2>1, <2>2 DEF Next, Abort, NextDay, vars
<1>6. Shape(tx[u])
  BY DEF BooksInv, Own
<1>7. ASSUME NEW s \in {"CacheUp", "Pick", "PutBack", "Create", "Claim",
                        "ReadNamed", "ReadExpired", "Overwrite", "Expire"}, Runs(u, s)
      PROVE  FALSE
  BY <1>6, <1>7, Places DEF Place
<1>8. ~CacheDown(u)
  <2>1. ASSUME CacheDown(u) PROVE FALSE
    <3>1. tx[u].items[1] \in Items /\ db = [r \in Rows |-> db[r]]
      BY <2>1, Running DEF CacheDown, StockInv, RowsInv, Sound
    <3>2. \E v : Write(u, tx[u].items[1], v)
      BY <1>3, <2>1 DEF CacheDown
    <3>3. tx[u].items[1] # b
      BY <3>1, RowsAssumption
    <3> QED BY <1>1, <3>1, <3>2, <3>3 DEF Write
  <2> QED BY <2>1
<1>9. ~List(u) /\ ~TakeDone(u)
  BY <1>3, <1>4 DEF List, TakeDone
<1>10. Take(u)
  BY <1>5, <1>7, <1>8, <1>9 DEF Statement, CacheUp, Pick, PutBack, PutBackDone, Create, Claim,
     ReadNamed, ReadExpired, Overwrite, OverwriteDone, Expire
<1>11. InOrder(u) /\ tx[u].code = <<"Take">>
  BY <1>3, <1>10, TakeFirst DEF OrderInv
<1>12. PICK s \in tx[u].list :
         /\ s.id \in Batches /\ tx[u].left > 0 /\ First(tx[u].list, s)
         /\ db[s.id].exp = s.exp /\ db[s.id].item = tx[u].items[1]
         /\ \A d \in Batches : d # s.id => db'[d] = db[d]
  BY <1>3, <1>10, <1>11, TakeFirst
<1>13. s.id = b
  BY <1>1, <1>12
<1>14. PICK w \in tx[u].list : w.id = c
  BY <1>11, <1>12, <1>13 DEF InOrder
<1>15. w.exp = Seen(u, c).exp
  BY <1>11, <1>14 DEF InOrder
<1>16. s.exp <= w.exp
  <2>1. s \in Snapshots /\ w \in Snapshots
    BY <1>12, <1>14 DEF StockInv, TxInv, TxRecords
  <2> QED BY <1>12, <1>14, <2>1 DEF First, Snapshots
<1> QED BY <1>12, <1>13, <1>15, <1>16

\* As long as only sales, reversals, receipts and transfers run, a sale never takes from
\* a batch while one of the same item that expires earlier, and has not expired, holds
\* anything, whatever is received, given back or taken from the item meanwhile.
THEOREM FirstExpiredFirstOutHolds ==
  ASSUME Ops \subseteq CoreOps
  PROVE  Spec => FirstExpiredFirstOut
<1>1. Init => StockInv /\ BooksInv /\ OrderInv
  <2>1. Init => OrderInv
    BY DEF Init, OrderInv, InOrder, Idle
  <2> QED BY <2>1, InitKeeps, InitBooks
<1>2. StockInv /\ BooksInv /\ OrderInv /\ [Next]_vars => (StockInv /\ BooksInv /\ OrderInv)'
  BY NextKeeps, NextBooks, NextOrder
<1>3. StockInv /\ BooksInv /\ OrderInv /\ [Next]_vars =>
        [\A t \in Txns, b, c \in Batches :
           /\ tx[t].op = "deduct" /\ tx'[t].op = "deduct"
           /\ lock'[b] = t /\ db'[b].qty < db[b].qty
           /\ IsBatchOf(Seen(t, c), db[b].item)
           /\ Seen(t, c).exp >= today /\ Seen(t, c).qty > 0
           => db[b].exp <= Seen(t, c).exp]_vars
  BY NextTakesFirst
<1> QED BY <1>1, <1>2, <1>3, PTL DEF Spec, FirstExpiredFirstOut

-------------------------------------------------------------------------------
(* Orderly operations wait for each other only where their requests cross.      *)

\* How many items of its request an operation is through with, and which.
Reached(x) == Len(x.request) - Len(x.items)
Passed(x, i) == \E m \in 1 .. Reached(x) : x.request[m] = i

\* What an operation has still to do is the end of its request.
Follows(x) == /\ Reached(x) >= 0
              /\ \A m \in DOMAIN x.items : x.items[m] = x.request[Reached(x) + m]

BeforeCache == {<<"CacheDown", "List", "Take">>, <<"CacheUp", "Pick", "PutBack">>,
                <<"Create", "CacheUp">>, <<"CacheUp">>,
                <<"ReadExpired", "CacheDown", "Expire">>, <<"CacheDown", "Expire">>}
AfterCache == {<<"List", "Take">>, <<"Take">>, <<"Pick", "PutBack">>,
               <<"Create", "PutBack">>, <<"PutBack">>, <<"Expire">>}
Disposing == {<<"ReadExpired", "CacheDown", "Expire">>, <<"CacheDown", "Expire">>, <<"Expire">>}

\* A batch of the current item, for good.
Exists(t, b) == Seen(t, b).st # "none" /\ Seen(t, b).item = tx[t].items[1]

\* An orderly operation holds the caches of items its request names before the current
\* one, that of its current one once it deals with its batches, and that of every batch
\* it has changed and others know of.
InLine(t) ==
  tx[t].op \in Orderly /\ tx[t].code # <<>> =>
    /\ tx[t].code \in BeforeCache \union AfterCache
    /\ Follows(tx[t])
    /\ \A i \in Items : lock[i] = t =>
         Passed(tx[t], i) \/ (tx[t].code \in AfterCache /\ i = tx[t].items[1])
    /\ tx[t].code \in AfterCache => lock[tx[t].items[1]] = t
    /\ tx[t].code \in BeforeCache => tx[t].list = {}
    /\ \A b \in Batches : lock[b] = t => committed[b].st = "none" \/ lock[db[b].item] = t
    /\ \A s \in tx[t].list : Exists(t, s.id)
    /\ tx[t].code \in Disposing => Exists(t, tx[t].row)

HoldsNothing(t) ==
  tx[t].op = "none" => tx[t].code = <<>> /\ \A r \in Rows : lock[r] # t

LineInv == KeptItems /\ \A t \in Txns : InLine(t) /\ HoldsNothing(t)

LEMMA LineCodes ==
  /\ Head(<<"ReadExpired", "CacheDown", "Expire">>) = "ReadExpired"
  /\ Tail(<<"ReadExpired", "CacheDown", "Expire">>) = <<"CacheDown", "Expire">>
  /\ Head(<<"CacheDown", "Expire">>) = "CacheDown"
  /\ Tail(<<"CacheDown", "Expire">>) = <<"Expire">>
  /\ Head(<<"Expire">>) = "Expire" /\ Tail(<<"Expire">>) = <<>>
OBVIOUS

\* Where in its program an orderly operation is that is about to execute a statement.
LEMMA LinePlaces ==
  ASSUME NEW code \in BeforeCache \union AfterCache
  PROVE  /\ Head(code) = "CacheDown" =>
              code \in {<<"CacheDown", "List", "Take">>, <<"CacheDown", "Expire">>}
         /\ Head(code) = "CacheUp" => code \in {<<"CacheUp", "Pick", "PutBack">>, <<"CacheUp">>}
         /\ Head(code) = "List" => code = <<"List", "Take">>
         /\ Head(code) = "Take" => code = <<"Take">>
         /\ Head(code) = "Pick" => code = <<"Pick", "PutBack">>
         /\ Head(code) = "PutBack" => code = <<"PutBack">>
         /\ Head(code) = "Create" => code \in {<<"Create", "CacheUp">>, <<"Create", "PutBack">>}
         /\ Head(code) = "ReadExpired" => code = <<"ReadExpired", "CacheDown", "Expire">>
         /\ Head(code) = "Expire" => code = <<"Expire">>
         /\ Head(code) \notin {"Claim", "ReadNamed", "Overwrite"}
BY Codes, LineCodes DEF BeforeCache, AfterCache

\* What an orderly operation has left of its program after a statement.
LEMMA RestOfLine ==
  ASSUME NEW code \in BeforeCache \union AfterCache
  PROVE  \/ Tail(code) = <<>>
         \/ /\ Tail(code) \in BeforeCache \union AfterCache
            /\ Tail(code) \in Disposing => code \in Disposing
            /\ code \in AfterCache => Tail(code) \in AfterCache
<1>1. ASSUME code \in BeforeCache
      PROVE  \/ Tail(code) = <<>>
             \/ /\ Tail(code) \in AfterCache \union BeforeCache
                /\ Tail(code) \in Disposing => code \in Disposing
                /\ code \notin AfterCache
  <2>1. code \notin AfterCache
    BY <1>1, Codes, LineCodes DEF BeforeCache, AfterCache
  <2>2. Tail(code) = <<>> \/ Tail(code) \in AfterCache \union BeforeCache
    BY <1>1, Codes, LineCodes DEF BeforeCache, AfterCache
  <2>3. Tail(code) \in Disposing => code \in Disposing
    <3>1. \/ code \in Disposing
          \/ Tail(code) \in {<<"List", "Take">>, <<"Pick", "PutBack">>, <<"CacheUp">>, <<>>}
      BY <1>1, Codes, LineCodes DEF BeforeCache, Disposing
    <3>2. \A rest \in Disposing :
            rest # <<>> /\ Head(rest) \in {"ReadExpired", "CacheDown", "Expire"}
      BY LineCodes DEF Disposing
    <3>3. /\ Head(<<"List", "Take">>) = "List" /\ Head(<<"Pick", "PutBack">>) = "Pick"
          /\ Head(<<"CacheUp">>) = "CacheUp"
      OBVIOUS
    <3> QED BY <3>1, <3>2, <3>3
  <2> QED BY <2>1, <2>2, <2>3
<1>2. ASSUME code \in AfterCache
      PROVE  Tail(code) \in {<<>>, <<"Take">>, <<"PutBack">>}
  BY <1>2, Codes, LineCodes DEF AfterCache
<1>3. <<"Take">> \notin Disposing /\ <<"PutBack">> \notin Disposing
  BY Codes, LineCodes DEF Disposing
<1> QED BY <1>1, <1>2, <1>3 DEF AfterCache

LEMMA BeforeOrAfter ==
  /\ \A code \in BeforeCache : code \notin AfterCache /\ Head(code) \in {"CacheDown", "CacheUp", "Create", "ReadExpired"}
  /\ <<"CacheUp", "Pick", "PutBack">> \notin Disposing
  /\ <<"CacheDown", "List", "Take">> \notin Disposing
  /\ <<"Create", "CacheUp">> \notin Disposing
BY Codes, LineCodes DEF BeforeCache, AfterCache, Disposing

\* What a transaction sees of a batch that exists, it goes on seeing.
LEMMA OwnExists ==
  ASSUME StockInv, KeptItems, NEW t \in Txns, OneWrite(t), UNCHANGED committed,
         NEW b \in Batches, Seen(t, b).st # "none"
  PROVE  Seen(t, b)'.st # "none" /\ Seen(t, b)'.item = Seen(t, b).item
<1>1. b \in Rows /\ DOMAIN db = Rows /\ DOMAIN lock = Rows
  BY DEF Rows, StockInv, RowsInv, Sound, FreeRowsCommitted
<1>2. CASE UNCHANGED <<db, lock>>
  BY <1>2 DEF Seen
<1>3. ASSUME NEW r \in Rows, NEW v, MayWrite(t, r), Write(t, r, v),
             r \in Batches /\ db[r].st # "none" => v.st # "none" /\ v.item = db[r].item
      PROVE  Seen(t, b)'.st # "none" /\ Seen(t, b)'.item = Seen(t, b).item
  <2>1. CASE r = b
    <3>1. Seen(t, b) = db[b]
      BY <1>1, <1>3, <2>1, Typed DEF Seen, MayWrite
    <3>2. Seen(t, b)' = v
      BY <1>1, <1>3, <2>1 DEF Seen, Write
    <3> QED BY <1>3, <2>1, <3>1, <3>2
  <2>2. CASE r # b
    <3>1. db'[b] = db[b] /\ lock'[b] = lock[b]
      BY <1>1, <1>3, <2>2 DEF Write
    <3> QED BY <3>1 DEF Seen
  <2> QED BY <2>1, <2>2
<1> QED BY <1>2, <1>3 DEF OneWrite

\* Batches keep their items whatever is written, undone or committed.
LEMMA NextItems ==
  ASSUME StockInv, KeptItems, [Next]_vars
  PROVE  /\ KeptItems'
         /\ \A b \in Batches : committed[b].st # "none" =>
              committed'[b].st # "none" /\ committed'[b].item = committed[b].item
<1>1. Batches \subseteq Rows /\ DOMAIN db = Rows
  BY DEF Rows, StockInv, RowsInv, Sound
<1>2. CASE UNCHANGED <<db, committed>>
  BY <1>2 DEF KeptItems
<1>3. ASSUME NEW t \in Txns, Throw(t) PROVE UNCHANGED committed /\ KeptItems'
  BY <1>1, <1>3 DEF Throw, UndoWrites, KeptItems
<1>4. ASSUME NEW t \in Txns, Statement(t), ~Throw(t) PROVE UNCHANGED committed /\ KeptItems'
  <2>1. OneWrite(t) /\ UNCHANGED committed
    BY <1>4, StatementWrites
  <2>2. ASSUME NEW r \in Rows, NEW v, Write(t, r, v),
               r \in Batches /\ db[r].st # "none" => v.st # "none" /\ v.item = db[r].item
        PROVE  KeptItems'
    BY <1>1, <2>1, <2>2 DEF Write, KeptItems
  <2> QED BY <1>2, <2>1, <2>2 DEF OneWrite
<1>5. ASSUME NEW t \in Txns, Commit(t)
      PROVE  /\ KeptItems'
             /\ \A b \in Batches : committed[b].st # "none" =>
                  committed'[b].st # "none" /\ committed'[b].item = committed[b].item
  BY <1>1, <1>5 DEF Commit, KeepWrites, KeptItems
<1>6. ASSUME NEW t \in Txns, Starts(t) PROVE UNCHANGED <<db, committed>>
  BY <1>6, StartsApart
<1> QED BY <1>2, <1>3, <1>4, <1>5, <1>6 DEF Next, Abort, NextDay, vars

LEMMA DisposedRow ==
  ASSUME NEW x \in TxRecords, RowsNamed(x), x.code \in Disposing
  PROVE  x.row \in Batches
<1>1. \E n \in 1 .. Len(x.code) : x.code[n] = "Expire"
  <2>1. ASSUME x.code = <<"Expire">> PROVE 1 \in 1 .. Len(x.code) /\ x.code[1] = "Expire"
    BY <2>1
  <2>2. ASSUME x.code = <<"CacheDown", "Expire">>
        PROVE  2 \in 1 .. Len(x.code) /\ x.code[2] = "Expire"
    BY <2>2
  <2>3. ASSUME x.code = <<"ReadExpired", "CacheDown", "Expire">>
        PROVE  3 \in 1 .. Len(x.code) /\ x.code[3] = "Expire"
    BY <2>3
  <2> QED BY <2>1, <2>2, <2>3 DEF Disposing
<1> QED BY <1>1 DEF RowsNamed

\* What another transaction does, an orderly operation does not notice.
LEMMA OthersInLine ==
  ASSUME StockInv, KeptItems, NEW u \in Txns, InLine(u), HoldsNothing(u),
         Apart(u), \A r \in Rows : lock[r] = u => committed'[r] = committed[r],
         \A b \in Batches : committed[b].st # "none" =>
           committed'[b].st # "none" /\ committed'[b].item = committed[b].item
  PROVE  InLine(u)' /\ HoldsNothing(u)'
<1>1. tx'[u] = tx[u]
  BY DEF Apart
<1>2. HoldsNothing(u)'
  BY <1>1 DEF HoldsNothing, Apart
<1>3. SUFFICES ASSUME tx[u].op \in Orderly, tx[u].code # <<>> PROVE InLine(u)'
  BY <1>1, <1>2 DEF InLine
<1>4. tx[u].items[1] \in Items /\ tx[u] \in TxRecords /\ RowsNamed(tx[u])
  BY <1>3, Running DEF Runs
<1>5. \A b \in Batches : Exists(u, b) => Exists(u, b)'
  <2>1. ASSUME NEW b \in Batches, Exists(u, b) PROVE Exists(u, b)'
    <3>1. b \in Rows
      BY DEF Rows
    <3>2. CASE lock[b] = u
      BY <1>1, <2>1, <3>1, <3>2 DEF Exists, Seen, Apart
    <3>3. CASE lock[b] # u
      BY <1>1, <2>1, <3>1, <3>3 DEF Exists, Seen, Apart
    <3> QED BY <3>2, <3>3
  <2> QED BY <2>1
<1>6. (/\ Follows(tx[u])
       /\ \A i \in Items : lock[i] = u =>
            Passed(tx[u], i) \/ (tx[u].code \in AfterCache /\ i = tx[u].items[1]))'
  <2>1. Follows(tx[u])'
    BY <1>1, <1>3 DEF InLine
  <2>2. ASSUME NEW i \in Items, lock'[i] = u
        PROVE  (Passed(tx[u], i) \/ (tx[u].code \in AfterCache /\ i = tx[u].items[1]))'
    <3>1. lock[i] = u
      BY <2>2 DEF Apart, Rows
    <3>2. Passed(tx[u], i) \/ (tx[u].code \in AfterCache /\ i = tx[u].items[1])
      BY <1>3, <3>1 DEF InLine
    <3>3. Passed(tx[u], i) => Passed(tx'[u], i)
      BY <1>1
    <3> QED BY <1>1, <3>2, <3>3
  <2> QED BY <2>1, <2>2
<1>7. (tx[u].code \in AfterCache => lock[tx[u].items[1]] = u)'
  BY <1>1, <1>3, <1>4 DEF InLine, Apart, Rows
<1>8. (\A b \in Batches : lock[b] = u => committed[b].st = "none" \/ lock[db[b].item] = u)'
  <2>1. ASSUME NEW b \in Batches, lock'[b] = u
        PROVE  committed'[b].st = "none" \/ lock'[db'[b].item] = u
    <3>1. b \in Rows /\ lock[b] = u /\ db'[b] = db[b] /\ committed'[b] = committed[b]
      BY <2>1 DEF Apart, Rows
    <3>2. db[b].item \in Rows
      BY Typed DEF Rows
    <3> QED BY <1>3, <3>1, <3>2 DEF InLine, Apart
  <2> QED BY <2>1
<1>9. (\A s \in tx[u].list : Exists(u, s.id))'
  <2>1. \A s \in tx[u].list : s.id \in Batches /\ Exists(u, s.id)
    BY <1>3, <1>4 DEF InLine, TxRecords, Snapshots
  <2> QED BY <1>1, <1>5, <2>1
<1>10. (tx[u].code \in Disposing => Exists(u, tx[u].row))'
  <2>1. tx[u].code \in Disposing => tx[u].row \in Batches
    BY <1>4, DisposedRow
  <2> QED BY <1>1, <1>3, <1>5, <2>1 DEF InLine
<1> QED BY <1>1, <1>3, <1>6, <1>7, <1>8, <1>9, <1>10 DEF InLine

\* How a statement of an orderly operation may change its request.
Advances(t, x, y) ==
  /\ y.code \in BeforeCache \union AfterCache
  /\ y.row = x.row /\ (y.code \in Disposing => x.code \in Disposing)
  /\ y.list = {} \/ (y.list = x.list /\ x.code \in BeforeCache) \/ y.code \in AfterCache
  /\ \/ /\ y.items = x.items /\ (x.code \in AfterCache => y.code \in AfterCache)
        /\ \A s \in y.list : s.id \in Batches /\ Exists(t, s.id)
     \/ /\ Len(x.items) > 1 /\ y.items = Tail(x.items) /\ y.list = {}
        /\ y.code \in BeforeCache \ Disposing
  /\ y.code \in AfterCache => x.code \in AfterCache \/ lock'[x.items[1]] = t

LEMMA Advanced ==
  ASSUME StockInv, KeptItems, NEW t \in Txns, InLine(t),
         tx[t].op \in Orderly, tx[t].code # <<>>, OneWrite(t), UNCHANGED committed,
         NEW y, tx' = [tx EXCEPT ![t] = y], Advances(t, tx[t], y),
         y.request = tx[t].request,
         \A i \in Items : lock'[i] = t =>
           \/ lock[i] = t
           \/ i = tx[t].items[1] /\ (y.code \in AfterCache \/ y.items = Tail(tx[t].items)),
         \A b \in Batches : lock'[b] = t =>
           lock[b] = t \/ committed[b].st = "none" \/ lock'[db'[b].item] = t
  PROVE  InLine(t)'
<1> DEFINE x == tx[t]
<1>1. tx'[t] = y /\ DOMAIN lock = Rows /\ DOMAIN db = Rows
  BY DEF StockInv, TxInv, RowsInv, Sound, FreeRowsCommitted
<1>2. /\ x \in TxRecords /\ RowsNamed(x) /\ x.items[1] \in Items /\ x.items \in Seq(Items)
      /\ x.items # <<>>
  BY Running DEF Runs, TxRecords
<1>3. /\ x.code \in BeforeCache \union AfterCache /\ Follows(x)
      /\ \A i \in Items : lock[i] = t =>
           Passed(x, i) \/ (x.code \in AfterCache /\ i = x.items[1])
      /\ x.code \in BeforeCache => x.list = {}
      /\ x.code \in AfterCache => lock[x.items[1]] = t
      /\ \A b \in Batches : lock[b] = t => committed[b].st = "none" \/ lock[db[b].item] = t
      /\ x.code \in Disposing => Exists(t, x.row)
  BY DEF InLine
<1>4. \A r \in Rows : lock[r] = t => lock'[r] = t
  BY <1>1 DEF OneWrite, Write
<1>5. ASSUME NEW b \in Batches, Exists(t, b), y.items = x.items PROVE Exists(t, b)'
  BY <1>1, <1>5, OwnExists DEF Exists
<1>6. \A b \in Batches : committed[b].st # "none" => db'[b].item = db[b].item
  <2>1. Batches \subseteq Rows
    BY DEF Rows
  <2> QED BY <1>1, <2>1 DEF KeptItems, OneWrite, Write
<1>7. \A b \in Batches : lock'[b] = t => committed[b].st = "none" \/ lock'[db'[b].item] = t
  <2>1. \A b \in Batches : db[b].item \in Rows
    BY Typed DEF Rows
  <2> QED BY <1>3, <1>4, <1>6, <2>1
<1>8. y.code \in AfterCache => y.items = x.items /\ lock'[y.items[1]] = t
  <2>1. x.items[1] \in Rows
    BY <1>2 DEF Rows
  <2> QED BY <1>3, <1>4, <2>1, BeforeOrAfter DEF Advances
<1>9. y.code \in Disposing => Exists(t, y.row)'
  <2>1. y.code \in Disposing => y.items = x.items /\ x.row \in Batches /\ Exists(t, x.row) /\ y.row = x.row
    BY <1>2, <1>3, DisposedRow DEF Advances
  <2> QED BY <1>5, <2>1
<1>10. \A s \in y.list : Exists(t, s.id)'
  BY <1>5 DEF Advances
<1>11. /\ Len(x.items) \in Nat /\ Len(x.request) \in Nat
       /\ DOMAIN x.items = 1 .. Len(x.items)
       /\ \A m \in 1 .. Len(x.items) : x.items[m] = x.request[Reached(x) + m]
       /\ Reached(x) \in Nat
  <2>1. x.request \in Seq(Items)
    BY <1>2 DEF TxRecords
  <2>2. Len(x.items) \in Nat /\ Len(x.request) \in Nat /\ DOMAIN x.items = 1 .. Len(x.items)
    BY <1>2, <2>1
  <2>3. Reached(x) \in Nat
    BY <1>3, <2>2 DEF Follows, Reached
  <2> QED BY <1>3, <2>2, <2>3 DEF Follows
<1>12. ASSUME Len(x.items) > 1, y.items = Tail(x.items)
       PROVE  /\ Reached(y) = Reached(x) + 1 /\ Follows(y)
              /\ \A i : Passed(x, i) \/ i = x.items[1] => Passed(y, i)
  <2>1. /\ DOMAIN y.items = 1 .. Len(x.items) - 1 /\ Len(y.items) = Len(x.items) - 1
        /\ \A m \in 1 .. Len(x.items) - 1 : y.items[m] = x.items[m + 1]
    BY <1>2, <1>12, TailItems
  <2>2. Reached(y) = Reached(x) + 1
    BY <1>11, <2>1 DEF Reached
  <2>3. ASSUME NEW m \in DOMAIN y.items PROVE y.items[m] = y.request[Reached(y) + m]
    <3>1. m \in 1 .. Len(x.items) - 1 /\ m + 1 \in 1 .. Len(x.items)
      BY <1>11, <2>1
    <3>2. y.items[m] = x.request[Reached(x) + (m + 1)]
      BY <1>11, <2>1, <3>1
    <3>3. Reached(x) + (m + 1) = Reached(y) + m
      BY <1>11, <2>2, <3>1
    <3> QED BY <3>2, <3>3
  <2>4. ASSUME NEW i, Passed(x, i) PROVE Passed(y, i)
    <3>1. PICK m \in 1 .. Reached(x) : x.request[m] = i
      BY <2>4 DEF Passed
    <3>2. m \in 1 .. Reached(y)
      BY <1>11, <2>2
    <3> QED BY <3>1, <3>2 DEF Passed
  <2>5. Passed(y, x.items[1])
    <3>1. x.items[1] = y.request[Reached(y)] /\ Reached(y) \in 1 .. Reached(y)
      BY <1>11, <1>12, <2>2
    <3> QED BY <3>1 DEF Passed
  <2>6. Reached(y) >= 0
    BY <1>11, <2>2
  <2> QED BY <2>2, <2>3, <2>4, <2>5, <2>6 DEF Follows
<1>13. ASSUME y.items = x.items
       PROVE  Follows(y) /\ \A i : Passed(x, i) => Passed(y, i)
  <2>1. Reached(y) = Reached(x)
    BY <1>13 DEF Reached
  <2> QED BY <1>3, <1>13, <2>1 DEF Follows, Passed
<1>14. Follows(y)
  BY <1>12, <1>13 DEF Advances
<1>15. ASSUME NEW i \in Items, lock'[i] = t
       PROVE  Passed(y, i) \/ (y.code \in AfterCache /\ i = y.items[1])
  <2>1. CASE y.code \in AfterCache
    <3>1. y.items = x.items /\ (lock[i] = t \/ i = x.items[1])
      BY <1>8, <1>15, <2>1
    <3>2. Passed(x, i) \/ i = x.items[1]
      BY <1>3, <3>1
    <3> QED BY <1>13, <2>1, <3>1, <3>2
  <2>2. CASE Len(x.items) > 1 /\ y.items = Tail(x.items)
    <3>1. Passed(x, i) \/ i = x.items[1]
      BY <1>3, <1>15
    <3> QED BY <1>12, <2>2, <3>1
  <2>3. CASE y.code \notin AfterCache /\ ~(Len(x.items) > 1 /\ y.items = Tail(x.items))
    <3>1. y.items = x.items /\ x.code \notin AfterCache
      BY <2>3 DEF Advances
    <3>2. y.items # Tail(x.items)
      <4>1. CASE Len(x.items) > 1
        BY <2>3, <4>1
      <4>2. CASE ~(Len(x.items) > 1)
        <5>1. Len(x.items) = 1
          BY <1>2, <4>2, OneItem
        <5>2. PICK z : z = Tail(x.items)
          OBVIOUS
        <5>3. Len(z) = 0
          BY <1>2, <5>1, <5>2
        <5>4. z # x.items
          <6>1. 0 # 1
            OBVIOUS
          <6> QED BY <5>1, <5>3, <6>1, Zenon
        <5> QED BY <3>1, <5>2, <5>4, Zenon
      <4> QED BY <4>1, <4>2
    <3>3. Passed(x, i)
      BY <1>3, <1>15, <2>3, <3>1, <3>2
    <3> QED BY <1>13, <3>1, <3>3
  <2> QED BY <2>1, <2>2, <2>3
<1>16. y.code \in BeforeCache => y.list = {}
  BY <1>3, BeforeOrAfter DEF Advances
<1> QED BY <1>1, <1>7, <1>8, <1>9, <1>10, <1>14, <1>15, <1>16 DEF InLine, Advances

LEMMA ThrowInLine ==
  ASSUME StockInv, NEW t \in Txns, Throw(t)
  PROVE  InLine(t)' /\ HoldsNothing(t)'
<1>1. /\ lock' = [r \in Rows |-> IF lock[r] = t THEN NoTxn ELSE lock[r]]
      /\ tx'[t] = Idle /\ t # NoTxn
  BY NoTxnAssumption DEF Throw, UndoWrites, Release, End, StockInv, TxInv
<1>2. Idle.op = "none" /\ Idle.code = <<>> /\ "none" \notin Orderly
  BY DEF Idle, Orderly
<1> QED BY <1>1, <1>2 DEF InLine, HoldsNothing

\* A statement that only reads.
LEMMA ReadInLine ==
  ASSUME StockInv, KeptItems, NEW t \in Txns, InLine(t),
         tx[t].op \in Orderly, tx[t].code # <<>>, UNCHANGED <<db, lock, committed>>,
         NEW y, tx' = [tx EXCEPT ![t] = y], y.code = <<>> \/ Advances(t, tx[t], y),
         tx'[t].request = tx[t].request
  PROVE  InLine(t)'
<1>1. CASE y.code = <<>>
  <2>1. tx'[t] = y
    BY DEF StockInv, TxInv
  <2> QED BY <1>1, <2>1 DEF InLine
<1>2. CASE Advances(t, tx[t], y)
  <2>1. y.request = tx[t].request
    BY DEF StockInv, TxInv
  <2> QED BY <1>2, <2>1, Advanced DEF OneWrite
<1> QED BY <1>1, <1>2

\* A statement that writes a batch of the current item, or one nobody knows of.
LEMMA BatchInLine ==
  ASSUME StockInv, KeptItems, NEW t \in Txns, InLine(t),
         tx[t].op \in Orderly, tx[t].code # <<>>, OneWrite(t), UNCHANGED committed,
         NEW b \in Batches, MayWrite(t, b), NEW v, Write(t, b, v),
         committed[b].st = "none" \/ (tx[t].code \in AfterCache /\ Exists(t, b)),
         NEW y, tx' = [tx EXCEPT ![t] = y], y.code = <<>> \/ Advances(t, tx[t], y),
         tx'[t].request = tx[t].request
  PROVE  InLine(t)'
<1>1. CASE y.code = <<>>
  <2>1. tx'[t] = y
    BY DEF StockInv, TxInv
  <2> QED BY <1>1, <2>1 DEF InLine
<1>2. CASE Advances(t, tx[t], y)
  <2>1. /\ DOMAIN lock = Rows /\ DOMAIN db = Rows /\ b \in Rows /\ b \notin Items
        /\ tx[t].items[1] \in Items
    BY RowsAssumption, Running DEF StockInv, RowsInv, Sound, FreeRowsCommitted, Rows, Runs
  <2>2. \A i \in Items : lock'[i] = t => lock[i] = t
    BY <2>1 DEF Write
  <2>3. ASSUME NEW c \in Batches, lock'[c] = t
        PROVE  lock[c] = t \/ committed[c].st = "none" \/ lock'[db'[c].item] = t
    <3>1. CASE c # b
      BY <2>1, <2>3, <3>1 DEF Write
    <3>2. CASE c = b /\ committed[b].st # "none"
      <4>1. Exists(t, b) /\ lock[tx[t].items[1]] = t
        BY <3>2 DEF InLine
      <4>2. db[b].item = tx[t].items[1] /\ db[b].st # "none"
        BY <3>2, <4>1 DEF Exists, Seen, KeptItems
      <4>3. Seen(t, b)'.item = tx[t].items[1]
        BY <4>1, OwnExists DEF Exists
      <4>4. Seen(t, b)' = db'[b]
        BY <2>1 DEF Seen, Write
      <4>5. lock'[tx[t].items[1]] = t
        BY <2>1, <4>1 DEF Write, Rows
      <4> QED BY <3>2, <4>3, <4>4, <4>5
    <3> QED BY <3>1, <3>2
  <2>4. y.request = tx[t].request
    BY DEF StockInv, TxInv
  <2> QED BY <1>2, <2>2, <2>3, <2>4, Advanced
<1> QED BY <1>1, <1>2

\* A statement that writes the cache of the current item.
LEMMA CacheInLine ==
  ASSUME StockInv, KeptItems, NEW t \in Txns, InLine(t),
         tx[t].op \in Orderly, tx[t].code # <<>>, OneWrite(t), UNCHANGED committed,
         NEW v, Write(t, tx[t].items[1], v),
         NEW y, tx' = [tx EXCEPT ![t] = y],
         \/ y.code = <<>>
         \/ Advances(t, tx[t], y) /\ (y.code \in AfterCache \/ y.items = Tail(tx[t].items)),
         tx'[t].request = tx[t].request
  PROVE  InLine(t)'
<1>1. CASE y.code = <<>>
  <2>1. tx'[t] = y
    BY DEF StockInv, TxInv
  <2> QED BY <1>1, <2>1 DEF InLine
<1>2. CASE (y.code \in AfterCache \/ y.items = Tail(tx[t].items)) /\ Advances(t, tx[t], y)
  <2>1. /\ DOMAIN lock = Rows /\ tx[t].items[1] \in Items /\ Items \intersect Batches = {}
        /\ Items \subseteq Rows /\ Batches \subseteq Rows
    BY RowsAssumption, Running DEF StockInv, RowsInv, FreeRowsCommitted, Rows, Runs
  <2>2. \A i \in Items : lock'[i] = t => lock[i] = t \/ i = tx[t].items[1]
    BY <2>1 DEF Write
  <2>3. \A b \in Batches : lock'[b] = t => lock[b] = t
    BY <2>1 DEF Write
  <2>4. y.request = tx[t].request
    BY DEF StockInv, TxInv
  <2> QED BY <1>2, <2>2, <2>3, <2>4, Advanced
<1> QED BY <1>1, <1>2

\* What a statement of an orderly operation leaves of its request.
LEMMA StatementInLine ==
  ASSUME StockInv, KeptItems, NEW t \in Txns, InLine(t),
         tx[t].op \in Orderly, tx[t].code # <<>>, Statement(t), ~Throw(t)
  PROVE  InLine(t)'
<1> DEFINE x == tx[t]
<1>1. OneWrite(t) /\ UNCHANGED committed
  BY StatementWrites
<1>21. tx'[t].request = x.request
  BY OpKept
<1>2. /\ x \in TxRecords /\ RowsNamed(x) /\ x.items \in Seq(Items) /\ x.items # <<>>
      /\ x.code \in BeforeCache \union AfterCache
      /\ x.code \in BeforeCache => x.list = {}
      /\ \A s \in x.list : s.id \in Batches /\ Exists(t, s.id)
  <2>1. x \in TxRecords /\ RowsNamed(x) /\ x.items \in Seq(Items) /\ x.items # <<>>
    BY Running DEF Runs, TxRecords
  <2> QED BY <2>1 DEF InLine, TxRecords, Snapshots
<1>3. x.op # "transfer"
  BY DEF Orderly
<1>4. ASSUME NEW s, Runs(t, s) PROVE Head(x.code) = s
  BY <1>4 DEF Runs
<1>5. \A code : [x EXCEPT !.code = code].code = code
  BY <1>2 DEF TxRecords
<1>6. ASSUME NEW z \in TxRecords, z.code = x.code, z.op = x.op, z.items = x.items, z.row = x.row,
             Continue(t, z)
      PROVE  \E y : /\ tx' = [tx EXCEPT ![t] = y] /\ y.code = Tail(x.code)
                    /\ y.items = x.items /\ y.row = x.row /\ y.list = z.list
  <2> DEFINE y == [z EXCEPT !.code = Tail(@)]
  <2>1. y.code = Tail(x.code) /\ y.items = x.items /\ y.row = x.row /\ y.list = z.list
    BY <1>6 DEF TxRecords
  <2>2. tx' = [tx EXCEPT ![t] = y]
    BY <1>6 DEF Continue
  <2> QED BY <2>1, <2>2
<1>7. ASSUME NEW y, y.items = x.items, y.row = x.row, y.code = Tail(x.code),
             \A s \in y.list : s.id \in Batches /\ Exists(t, s.id),
             y.list = x.list \/ y.code \in AfterCache,
             y.code \in AfterCache => x.code \in AfterCache \/ lock'[x.items[1]] = t
      PROVE  y.code = <<>> \/ Advances(t, x, y)
  <2>1. \/ Tail(x.code) = <<>>
        \/ /\ Tail(x.code) \in BeforeCache \union AfterCache
           /\ Tail(x.code) \in Disposing => x.code \in Disposing
           /\ x.code \in AfterCache => Tail(x.code) \in AfterCache
    BY <1>2, RestOfLine
  <2> QED BY <1>2, <1>7, <2>1 DEF Advances
<1>20. DOMAIN lock = Rows /\ x.items[1] \in Rows
  <2>1. x.items[1] \in Items
    BY <1>2
  <2> QED BY <2>1 DEF StockInv, RowsInv, FreeRowsCommitted, Rows
<1>8. CASE CacheDown(t)
  <2>1. x.code \in {<<"CacheDown", "List", "Take">>, <<"CacheDown", "Expire">>}
    BY <1>2, <1>4, <1>8, LinePlaces DEF CacheDown
  <2>2. [x EXCEPT !.items = IF x.op = "transfer" THEN Tail(@) ELSE @] = x
    BY <1>2, <1>3 DEF TxRecords
  <2>3. Continue(t, x) /\ \E v : Write(t, x.items[1], v)
    BY <1>8, <2>2 DEF CacheDown
  <2>4. PICK y : /\ tx' = [tx EXCEPT ![t] = y] /\ y.code = Tail(x.code)
                 /\ y.items = x.items /\ y.row = x.row /\ y.list = x.list
    BY <1>2, <1>6, <2>3
  <2>5. lock'[x.items[1]] = t /\ y.code \in AfterCache
    <3>1. lock'[x.items[1]] = t
      BY <1>20, <2>3 DEF Write
    <3>2. y.code \in {<<"List", "Take">>, <<"Expire">>}
      BY <2>1, <2>4, Codes, LineCodes
    <3> QED BY <3>1, <3>2 DEF AfterCache
  <2>6. y.code = <<>> \/ Advances(t, x, y)
    BY <1>2, <1>7, <2>4, <2>5
  <2> QED BY <1>21, <1>1, <2>3, <2>4, <2>5, <2>6, CacheInLine
<1>9. CASE CacheUp(t)
  <2>1. x.code \in {<<"CacheUp", "Pick", "PutBack">>, <<"CacheUp">>} /\ x.list = {}
    <3>1. x.code \in {<<"CacheUp", "Pick", "PutBack">>, <<"CacheUp">>}
      BY <1>2, <1>4, <1>9, LinePlaces DEF CacheUp
    <3> QED BY <1>2, <3>1 DEF BeforeCache
  <2>2. \E v : Write(t, x.items[1], v)
    BY <1>9 DEF CacheUp
  <2>3. lock'[x.items[1]] = t
    BY <1>20, <2>2 DEF Write
  <2>4. CASE x.op = "receive" /\ Len(x.items) > 1
    <3> DEFINE y == [x EXCEPT !.items = Tail(@), !.code = Program["receive"]]
    <3>1. tx' = [tx EXCEPT ![t] = y]
      BY <1>9, <2>4 DEF CacheUp, StockInv, TxInv
    <3>2. y.items = Tail(x.items) /\ y.list = {} /\ y.row = x.row
          /\ y.code = <<"Create", "CacheUp">>
      BY <1>2, <2>1 DEF TxRecords, Program
    <3> HIDE DEF y
    <3>3. y.code \in BeforeCache \ Disposing /\ y.code \notin AfterCache
      BY <3>2, BeforeOrAfter DEF BeforeCache
    <3>4. Advances(t, x, y)
      BY <2>4, <3>2, <3>3 DEF Advances
    <3> QED BY <1>1, <1>21, <2>2, <3>1, <3>2, <3>4, CacheInLine
  <2>5. CASE ~(x.op = "receive" /\ Len(x.items) > 1)
    <3>1. Continue(t, x)
      BY <1>9, <2>5 DEF CacheUp
    <3>2. PICK y : /\ tx' = [tx EXCEPT ![t] = y] /\ y.code = Tail(x.code)
                   /\ y.items = x.items /\ y.row = x.row /\ y.list = x.list
      BY <1>2, <1>6, <3>1
    <3>3. y.code = <<>> \/ y.code \in AfterCache
      <4>1. y.code \in {<<"Pick", "PutBack">>, <<>>}
        BY <2>1, <3>2, Codes
      <4> QED BY <4>1 DEF AfterCache
    <3>4. y.code = <<>> \/ Advances(t, x, y)
      BY <1>2, <1>7, <2>3, <3>2
    <3> QED BY <1>1, <1>21, <2>2, <3>2, <3>3, <3>4, CacheInLine
  <2> QED BY <2>4, <2>5
<1>10. CASE List(t)
  <2> DEFINE l == {s \in BatchesOf(t, "ACTIVE") : x.op = "deduct" => s.exp >= today}
             z == [x EXCEPT !.list = l]
  <2>1. x.code = <<"List", "Take">>
    BY <1>2, <1>4, <1>10, LinePlaces DEF List
  <2>2. \A s \in l : s.id \in Batches /\ Exists(t, s.id)
    BY DEF BatchesOf, Snapshot, Exists
  <2>3. l \subseteq Snapshots
    BY BatchesSound DEF StockInv
  <2>4. z \in TxRecords /\ z.code = x.code /\ z.op = x.op /\ z.items = x.items /\ z.row = x.row /\ z.list = l
    BY <1>2, <2>3 DEF TxRecords
  <2>5. Continue(t, z) /\ UNCHANGED <<db, lock, committed>>
    BY <1>10 DEF List
  <2> HIDE DEF l, z
  <2>6. PICK y : /\ tx' = [tx EXCEPT ![t] = y] /\ y.code = Tail(x.code)
                 /\ y.items = x.items /\ y.row = x.row /\ y.list = z.list
    BY <1>6, <2>4, <2>5
  <2>7. y.code \in AfterCache /\ x.code \in AfterCache
    BY <2>1, <2>6, Codes DEF AfterCache
  <2>8. y.code = <<>> \/ Advances(t, x, y)
    BY <1>7, <2>2, <2>4, <2>6, <2>7
  <2> QED BY <1>21, <2>5, <2>6, <2>8, ReadInLine
<1>11. CASE Take(t)
  <2>1. x.code = <<"Take">>
    BY <1>2, <1>4, <1>11, LinePlaces DEF Take
  <2>2. PICK s \in x.list :
          /\ MayWrite(t, s.id)
          /\ Write(t, s.id, IF s.qty <= x.left THEN [db[s.id] EXCEPT !.qty = 0, !.st = "DEPLETED"]
                                              ELSE [db[s.id] EXCEPT !.qty = @ - x.left])
          /\ tx' = [tx EXCEPT ![t].left = IF s.qty <= x.left THEN @ - s.qty ELSE 0,
                              ![t].list = @ \ {s}, ![t].exp = IF s.exp < @ THEN s.exp ELSE @]
    BY <1>11 DEF Take
  <2> DEFINE v == IF s.qty <= x.left THEN [db[s.id] EXCEPT !.qty = 0, !.st = "DEPLETED"]
                                     ELSE [db[s.id] EXCEPT !.qty = @ - x.left]
             y == [x EXCEPT !.left = IF s.qty <= x.left THEN @ - s.qty ELSE 0,
                            !.list = @ \ {s}, !.exp = IF s.exp < @ THEN s.exp ELSE @]
  <2>3. tx' = [tx EXCEPT ![t] = y] /\ Write(t, s.id, v)
    BY <2>2 DEF StockInv, TxInv
  <2>4. y.code = x.code /\ y.items = x.items /\ y.row = x.row /\ y.list = x.list \ {s}
    BY <1>2 DEF TxRecords
  <2> HIDE DEF v, y
  <2>5. x.code \in AfterCache
    BY <2>1 DEF AfterCache
  <2>6. Advances(t, x, y)
    BY <1>2, <2>4, <2>5 DEF Advances
  <2> QED BY <1>21, <1>1, <1>2, <2>2, <2>3, <2>5, <2>6, BatchInLine
<1>12. CASE TakeDone(t)
  <2>1. x.code = <<"Take">>
    BY <1>2, <1>4, <1>12, LinePlaces DEF TakeDone
  <2>2. UNCHANGED <<db, lock, committed>>
    BY <1>12 DEF TakeDone
  <2>3. CASE x.op = "deduct" /\ Len(x.items) > 1
    <3> DEFINE y == [x EXCEPT !.items = Tail(@), !.left = x.qty, !.list = {}, !.code = Program["deduct"]]
    <3>1. tx' = [tx EXCEPT ![t] = y]
      BY <1>12, <2>3 DEF TakeDone, StockInv, TxInv
    <3>2. y.items = Tail(x.items) /\ y.list = {} /\ y.row = x.row
          /\ y.code = <<"CacheDown", "List", "Take">>
      BY <1>2 DEF TxRecords, Program
    <3> HIDE DEF y
    <3>3. y.code \in BeforeCache \ Disposing /\ y.code \notin AfterCache
      BY <3>2, BeforeOrAfter DEF BeforeCache
    <3>4. Advances(t, x, y)
      BY <2>3, <3>2, <3>3 DEF Advances
    <3> QED BY <1>21, <2>2, <3>1, <3>4, ReadInLine
  <2>4. CASE ~(x.op = "deduct" /\ Len(x.items) > 1)
    <3> DEFINE z == [x EXCEPT !.list = {}]
    <3>1. Continue(t, z)
      BY <1>12, <2>4 DEF TakeDone
    <3>2. z \in TxRecords /\ z.code = x.code /\ z.op = x.op /\ z.items = x.items /\ z.row = x.row
      BY <1>2 DEF TxRecords
    <3> HIDE DEF z
    <3>3. PICK y : tx' = [tx EXCEPT ![t] = y] /\ y.code = Tail(x.code)
      BY <1>6, <3>1, <3>2
    <3>4. y.code = <<>>
      BY <2>1, <3>3, Codes
    <3> QED BY <1>21, <2>2, <3>3, <3>4, ReadInLine
  <2> QED BY <2>3, <2>4
<1>13. CASE Pick(t)
  <2>1. x.code = <<"Pick", "PutBack">> /\ x.code \in AfterCache
    BY <1>2, <1>4, <1>13, LinePlaces DEF Pick, AfterCache
  <2>2. UNCHANGED <<db, lock, committed>>
    BY <1>13 DEF Pick
  <2>3. ASSUME NEW s \in BatchesOf(t, "ACTIVE") \union BatchesOf(t, "DEPLETED"),
               Continue(t, [x EXCEPT !.list = {s}])
        PROVE  InLine(t)'
    <3> DEFINE z == [x EXCEPT !.list = {s}]
    <3>1. s.id \in Batches /\ Exists(t, s.id)
      BY DEF BatchesOf, Snapshot, Exists
    <3>2. s \in Snapshots
      BY BatchesSound DEF StockInv
    <3>3. z \in TxRecords /\ z.code = x.code /\ z.op = x.op /\ z.items = x.items /\ z.row = x.row
          /\ z.list = {s}
      BY <1>2, <3>2 DEF TxRecords
    <3>4. Continue(t, z)
      BY <2>3
    <3> HIDE DEF z
    <3>5. PICK y : /\ tx' = [tx EXCEPT ![t] = y] /\ y.code = Tail(x.code)
                   /\ y.items = x.items /\ y.row = x.row /\ y.list = z.list
      BY <1>6, <3>3, <3>4
    <3>6. y.code \in AfterCache
      BY <2>1, <3>5, Codes DEF AfterCache
    <3>7. y.code = <<>> \/ Advances(t, x, y)
      BY <1>7, <2>1, <3>1, <3>3, <3>5, <3>6
    <3> QED BY <1>21, <2>2, <3>5, <3>7, ReadInLine
  <2>4. ASSUME tx' = [tx EXCEPT ![t].code = <<"Create", "PutBack">>]
        PROVE  InLine(t)'
    <3> DEFINE y == [x EXCEPT !.code = <<"Create", "PutBack">>]
    <3>1. tx' = [tx EXCEPT ![t] = y]
      BY <2>4 DEF StockInv, TxInv
    <3>2. y.code = <<"Create", "PutBack">> /\ y.items = x.items /\ y.row = x.row /\ y.list = x.list
      BY <1>2 DEF TxRecords
    <3> HIDE DEF y
    <3>3. y.code \in AfterCache /\ y.code \notin Disposing
      BY <3>2, Codes, LineCodes DEF AfterCache, Disposing
    <3>4. Advances(t, x, y)
      BY <1>2, <2>1, <3>2, <3>3 DEF Advances
    <3> QED BY <1>21, <2>2, <3>1, <3>4, ReadInLine
  <2> QED BY <1>13, <2>3, <2>4 DEF Pick
<1>14. CASE PutBack(t)
  <2>1. x.code = <<"PutBack">> /\ x.code \in AfterCache
    BY <1>2, <1>4, <1>14, LinePlaces DEF PutBack, AfterCache
  <2>2. PICK s \in x.list : MayWrite(t, s.id) /\ \E v : Write(t, s.id, v)
    BY <1>14 DEF PutBack
  <2> DEFINE y == [x EXCEPT !.list = {}]
  <2>3. tx' = [tx EXCEPT ![t] = y]
    BY <1>14 DEF PutBack, StockInv, TxInv
  <2>4. y.code = x.code /\ y.items = x.items /\ y.row = x.row /\ y.list = {}
    BY <1>2 DEF TxRecords
  <2> HIDE DEF y
  <2>5. Advances(t, x, y)
    BY <1>2, <2>1, <2>4 DEF Advances
  <2> QED BY <1>21, <1>1, <1>2, <2>1, <2>2, <2>3, <2>5, BatchInLine
<1>15. CASE PutBackDone(t)
  <2>1. x.code = <<"PutBack">> /\ x.list = {} /\ UNCHANGED <<db, lock, committed>>
    BY <1>2, <1>4, <1>15, LinePlaces DEF PutBackDone
  <2>2. CASE Len(x.items) > 1
    <3> DEFINE y == [x EXCEPT !.items = Tail(@), !.code = Program["restore"]]
    <3>1. tx' = [tx EXCEPT ![t] = y]
      BY <1>15, <2>2 DEF PutBackDone, StockInv, TxInv
    <3>2. y.items = Tail(x.items) /\ y.list = {} /\ y.row = x.row
          /\ y.code = <<"CacheUp", "Pick", "PutBack">>
      BY <1>2, <2>1 DEF TxRecords, Program
    <3> HIDE DEF y
    <3>3. y.code \in BeforeCache \ Disposing /\ y.code \notin AfterCache
      BY <3>2, BeforeOrAfter DEF BeforeCache
    <3>4. Advances(t, x, y)
      BY <2>2, <3>2, <3>3 DEF Advances
    <3> QED BY <1>21, <2>1, <3>1, <3>4, ReadInLine
  <2>3. CASE ~(Len(x.items) > 1)
    <3>1. Continue(t, x)
      BY <1>15, <2>3 DEF PutBackDone
    <3>2. PICK y : tx' = [tx EXCEPT ![t] = y] /\ y.code = Tail(x.code)
      BY <1>2, <1>6, <3>1
    <3>3. y.code = <<>>
      BY <2>1, <3>2, Codes
    <3> QED BY <1>21, <2>1, <3>2, <3>3, ReadInLine
  <2> QED BY <2>2, <2>3
<1>16. CASE Create(t)
  <2>1. x.code \in {<<"Create", "CacheUp">>, <<"Create", "PutBack">>}
    BY <1>2, <1>4, <1>16, LinePlaces DEF Create
  <2>2. PICK b \in Batches : db[b].st = "none" /\ lock[b] = NoTxn /\ \E v : Write(t, b, v)
    BY <1>16 DEF Create
  <2>3. committed[b].st = "none" /\ MayWrite(t, b)
    BY <2>2 DEF KeptItems, MayWrite
  <2>4. PICK y : /\ tx' = [tx EXCEPT ![t] = y] /\ y.code = Tail(x.code)
                 /\ y.items = x.items /\ y.row = x.row /\ y.list = x.list
    BY <1>2, <1>6, <1>16 DEF Create
  <2>5. y.code \in AfterCache => x.code \in AfterCache
    <3>1. CASE x.code = <<"Create", "CacheUp">>
      <4>1. y.code = <<"CacheUp">>
        BY <2>4, <3>1, Codes
      <4> QED BY <4>1, BeforeOrAfter DEF BeforeCache
    <3>2. CASE x.code = <<"Create", "PutBack">>
      BY <3>2 DEF AfterCache
    <3> QED BY <2>1, <3>1, <3>2
  <2>6. y.code = <<>> \/ Advances(t, x, y)
    BY <1>2, <1>7, <2>4, <2>5
  <2> QED BY <1>21, <1>1, <2>2, <2>3, <2>4, <2>6, BatchInLine
<1>17. CASE ReadExpired(t)
  <2>1. x.code = <<"ReadExpired", "CacheDown", "Expire">> /\ UNCHANGED <<db, lock, committed>>
    BY <1>2, <1>4, <1>17, LinePlaces DEF ReadExpired
  <2>2. ASSUME NEW q, NEW a, Continue(t, [x EXCEPT !.qty = q, !.ask = a]) PROVE InLine(t)'
    <3> DEFINE z == [x EXCEPT !.qty = q, !.ask = a]
               y == [z EXCEPT !.code = Tail(@)]
    <3>1. tx' = [tx EXCEPT ![t] = y]
      BY <2>2 DEF Continue
    <3>2. y.code = Tail(x.code) /\ y.items = x.items /\ y.row = x.row /\ y.list = x.list
      BY <1>2 DEF TxRecords
    <3> HIDE DEF y
    <3>3. y.code \notin AfterCache
      BY <2>1, <3>2, LineCodes, BeforeOrAfter DEF BeforeCache
    <3>4. y.code = <<>> \/ Advances(t, x, y)
      BY <1>2, <1>7, <3>2, <3>3
    <3> QED BY <1>21, <2>1, <3>1, <3>4, ReadInLine
  <2>3. ASSUME tx' = [tx EXCEPT ![t].code = <<>>] PROVE InLine(t)'
    <3> DEFINE y == [x EXCEPT !.code = <<>>]
    <3>1. tx' = [tx EXCEPT ![t] = y] /\ y.code = <<>>
      BY <1>5, <2>3 DEF StockInv, TxInv
    <3> HIDE DEF y
    <3> QED BY <1>21, <2>1, <3>1, ReadInLine
  <2> QED BY <1>17, <2>2, <2>3 DEF ReadExpired
<1>18. CASE Expire(t)
  <2>1. x.code = <<"Expire">> /\ x.code \in AfterCache /\ x.code \in Disposing
    BY <1>2, <1>4, <1>18, LinePlaces DEF Expire, AfterCache, Disposing
  <2>2. x.row \in Batches /\ Exists(t, x.row) /\ MayWrite(t, x.row) /\ \E v : Write(t, x.row, v)
    BY <1>2, <1>18, <2>1, DisposedRow DEF Expire, InLine
  <2>3. PICK y : tx' = [tx EXCEPT ![t] = y] /\ y.code = Tail(x.code)
    BY <1>2, <1>6, <1>18 DEF Expire
  <2>4. y.code = <<>>
    BY <2>1, <2>3, LineCodes
  <2> QED BY <1>21, <1>1, <2>1, <2>2, <2>3, <2>4, BatchInLine
<1>19. ~Claim(t) /\ ~ReadNamed(t) /\ ~Overwrite(t) /\ ~OverwriteDone(t)
  BY <1>2, <1>4, LinePlaces DEF Claim, ReadNamed, Overwrite, OverwriteDone
<1> QED BY <1>8, <1>9, <1>10, <1>11, <1>12, <1>13, <1>14, <1>15, <1>16, <1>17, <1>18, <1>19 DEF Statement

\* An operation that begins holds nothing.
LEMMA BeginInLine ==
  ASSUME StockInv, NEW t \in Txns, HoldsNothing(t), NEW y, Begin(t, y),
         y.op # "none",
         y.op \in Orderly => /\ y.code \in BeforeCache /\ y.list = {}
                             /\ y.request = y.items /\ y.items \in Seq(Items)
                             /\ y.items[1] \in Items
                             /\ y.code \in Disposing =>
                                  /\ y.row \in Batches /\ committed[y.row].st # "none"
                                  /\ committed[y.row].item = y.items[1]
  PROVE  InLine(t)' /\ HoldsNothing(t)'
<1>1. tx'[t] = y /\ UNCHANGED <<db, committed, lock>> /\ tx[t].op = "none"
  BY DEF Begin, StockInv, TxInv
<1>2. \A r \in Rows : lock[r] # t
  BY <1>1 DEF HoldsNothing
<1>3. HoldsNothing(t)'
  BY <1>1 DEF HoldsNothing
<1>4. y.op \in Orderly => Follows(y)
  <2> SUFFICES ASSUME y.op \in Orderly PROVE Follows(y)
    OBVIOUS
  <2>1. Len(y.items) \in Nat /\ DOMAIN y.items = 1 .. Len(y.items) /\ y.request = y.items
    OBVIOUS
  <2>2. Reached(y) = 0
    BY <2>1 DEF Reached
  <2> QED BY <2>1, <2>2 DEF Follows
<1>5. InLine(t)'
  BY <1>1, <1>2, <1>4, BeforeOrAfter DEF InLine, Exists, Seen, Rows
<1> QED BY <1>3, <1>5

LEMMA StartsInLine ==
  ASSUME StockInv, NEW t \in Txns, HoldsNothing(t), Starts(t)
  PROVE  InLine(t)' /\ HoldsNothing(t)'
<1> USE NumbersAssumption
<1>1. ASSUME NEW op \in {"deduct", "restore"}, NEW plan \in Plans, NEW q \in Quantities, NEW ask,
             Begin(t, [Operation(op, plan, q) EXCEPT !.ask = ask])
      PROVE  InLine(t)' /\ HoldsNothing(t)'
  <2> DEFINE y == [Operation(op, plan, q) EXCEPT !.ask = ask]
  <2>1. plan \in Seq(Items) /\ plan # <<>> /\ q \in Nat /\ op \in OpNames
    BY PlansAssumption DEF OpNames
  <2>2. Fresh(y, op, plan, q, ask)
    BY <2>1, FreshOperation, FreshAsk
  <2>3. Begin(t, y)
    BY <1>1
  <2> HIDE DEF y
  <2>4. y.op = op /\ y.items = plan /\ y.request = plan /\ y.list = {} /\ y.code = Program[op] /\ plan[1] \in Items
    BY <2>1, <2>2 DEF Fresh
  <2>5. y.code \in BeforeCache /\ y.code \notin Disposing
    <3>1. y.code \in {<<"CacheDown", "List", "Take">>, <<"CacheUp", "Pick", "PutBack">>}
      BY <2>4 DEF Program
    <3> QED BY <3>1, BeforeOrAfter DEF BeforeCache
  <2> QED BY <2>1, <2>3, <2>4, <2>5, BeginInLine
<1>3. CASE BeginSale(t) \/ BeginReversal(t)
  BY <1>1, <1>3 DEF BeginSale, BeginReversal
<1>4. CASE BeginReceipt(t)
  <2>1. PICK items \in Deliveries, q \in Quantities, d \in ExpiryDays :
          Begin(t, [Operation("receive", items, q) EXCEPT !.exp = d, !.ask = Asking(items, q)])
    BY <1>4 DEF BeginReceipt
  <2> DEFINE ask == Asking(items, q)
             x == Operation("receive", items, q)
             z == [x EXCEPT !.exp = d]
             y == [z EXCEPT !.ask = ask]
  <2>2. "receive" \in OpNames /\ items \in Seq(Items) /\ q \in Nat /\ d \in Nat
    BY DeliveriesAssumption DEF OpNames
  <2>3. items[1] \in Items
    <3>1. items \in Seq(Items) /\ items # <<>>
      BY DeliveriesAssumption
    <3> QED BY <3>1
  <2>4. Begin(t, y)
    BY <2>1
  <2> HIDE DEF ask
  <2>5. x \in TxRecords /\ Fresh(x, "receive", items, q, NoAsk)
    BY <2>2, FreshOperation
  <2> HIDE DEF x
  <2>6. z \in TxRecords /\ Fresh(z, "receive", items, q, NoAsk)
    BY <2>2, <2>5, FreshExpiry
  <2> HIDE DEF z
  <2>7. Fresh(y, "receive", items, q, ask)
    BY <2>6, FreshAsk
  <2> HIDE DEF y
  <2>8. y.op = "receive" /\ y.items = items /\ y.request = items /\ y.list = {} /\ y.code = <<"Create", "CacheUp">>
    BY <2>7 DEF Fresh, Program
  <2>9. y.code \in BeforeCache /\ y.code \notin Disposing
    BY <2>8, BeforeOrAfter DEF BeforeCache
  <2> QED BY <2>2, <2>3, <2>4, <2>8, <2>9, BeginInLine
<1>5. CASE BeginWaste(t)
  <2>1. PICK i \in Items, q \in Quantities, b \in Batches :
          Begin(t, [Operation("waste", <<i>>, q) EXCEPT !.row = b, !.ask = Asking(<<i>>, -q)])
    BY <1>5 DEF BeginWaste
  <2>2. PICK y : y = [Operation("waste", <<i>>, q) EXCEPT !.row = b, !.ask = Asking(<<i>>, -q)]
    OBVIOUS
  <2>3. y.op = "waste" /\ Begin(t, y)
    BY <2>1, <2>2 DEF Operation, Idle
  <2>4. "waste" \notin Orderly
    BY DEF Orderly
  <2> QED BY <2>3, <2>4, BeginInLine
<1>6. CASE BeginDisposal(t)
  <2>1. PICK b \in Batches :
          /\ IsExpired(committed[b])
          /\ Begin(t, [Operation("dispose", <<committed[b].item>>, 0) EXCEPT !.row = b])
    BY <1>6 DEF BeginDisposal
  <2> DEFINE items == <<committed[b].item>>
             x == Operation("dispose", items, 0)
             y == [x EXCEPT !.row = b]
  <2>2. committed[b].item \in Items /\ committed[b].st # "none"
    BY <2>1, Typed DEF IsExpired
  <2>3. items \in Seq(Items) /\ items[1] = committed[b].item
    BY <2>2
  <2>4. Begin(t, y)
    BY <2>1
  <2> HIDE DEF items
  <2>5. x \in TxRecords /\ Fresh(x, "dispose", items, 0, NoAsk)
    BY <2>3, FreshOperation DEF OpNames
  <2> HIDE DEF x
  <2>6. y.op = "dispose" /\ y.items = items /\ y.request = items /\ y.list = {} /\ y.row = b
        /\ y.code = <<"ReadExpired", "CacheDown", "Expire">>
    BY <2>5 DEF Fresh, TxRecords, Program
  <2> HIDE DEF y
  <2>7. y.code \in BeforeCache
    BY <2>6 DEF BeforeCache
  <2> QED BY <2>2, <2>3, <2>4, <2>6, <2>7, BeginInLine
<1>7. CASE BeginTransfer(t)
  <2>1. PICK r \in Transfers :
          Begin(t, [Operation("transfer", <<TransferOf[r].from, TransferOf[r].to>>,
                              TransferOf[r].qty) EXCEPT !.row = r])
    BY <1>7 DEF BeginTransfer
  <2>2. PICK y : y = [Operation("transfer", <<TransferOf[r].from, TransferOf[r].to>>,
                              TransferOf[r].qty) EXCEPT !.row = r]
    OBVIOUS
  <2>3. y.op = "transfer" /\ Begin(t, y)
    BY <2>1, <2>2 DEF Operation, Idle
  <2>4. "transfer" \notin Orderly
    BY DEF Orderly
  <2> QED BY <2>3, <2>4, BeginInLine
<1> QED BY <1>3, <1>4, <1>5, <1>6, <1>7 DEF Starts

LEMMA NextInLine ==
  ASSUME StockInv, LineInv, [Next]_vars
  PROVE  LineInv'
<1>1. /\ KeptItems /\ KeptItems'
      /\ \A b \in Batches : committed[b].st # "none" =>
           committed'[b].st # "none" /\ committed'[b].item = committed[b].item
  BY NextItems DEF LineInv
<1> SUFFICES ASSUME NEW u \in Txns PROVE InLine(u)' /\ HoldsNothing(u)'
  BY <1>1 DEF LineInv
<1>2. InLine(u) /\ HoldsNothing(u)
  BY DEF LineInv
<1>3. CASE NextDay \/ UNCHANGED vars
  <2>1. Apart(u) /\ UNCHANGED committed
    BY <1>3 DEF NextDay, vars, Apart
  <2> QED BY <1>1, <1>2, <2>1, OthersInLine
<1>4. ASSUME NEW t \in Txns, t # u, Starts(t) \/ Statement(t) \/ Throw(t)
      PROVE  InLine(u)' /\ HoldsNothing(u)'
  <2>1. Apart(u) /\ UNCHANGED committed
    BY <1>4, StartsApart, StatementApart, ThrowApart
  <2> QED BY <1>1, <1>2, <2>1, OthersInLine
<1>5. ASSUME NEW t \in Txns, t # u, Commit(t) PROVE InLine(u)' /\ HoldsNothing(u)'
  <2>1. Apart(u)
    BY <1>5, CommitApart
  <2>2. \A r \in Rows : lock[r] = u => committed'[r] = committed[r]
    BY <1>5 DEF Commit, KeepWrites
  <2> QED BY <1>1, <1>2, <2>1, <2>2, OthersInLine
<1>6. CASE Starts(u)
  BY <1>2, <1>6, StartsInLine
<1>7. CASE Throw(u)
  BY <1>7, ThrowInLine
<1>8. CASE Commit(u)
  <2>1. /\ lock' = [r \in Rows |-> IF lock[r] = u THEN NoTxn ELSE lock[r]]
        /\ tx'[u] = Idle /\ u # NoTxn
    BY <1>8, NoTxnAssumption DEF Commit, KeepWrites, Release, End, StockInv, TxInv
  <2>2. Idle.op = "none" /\ Idle.code = <<>> /\ "none" \notin Orderly
    BY DEF Idle, Orderly
  <2> QED BY <2>1, <2>2 DEF InLine, HoldsNothing
<1>9. CASE Statement(u) /\ ~Throw(u)
  <2>1. tx[u].code # <<>> /\ tx'[u].op = tx[u].op
    BY <1>9, OpKept DEF Statement, CacheDown, CacheUp, List, Take, TakeDone, Pick, PutBack,
       PutBackDone, Create, Claim, ReadNamed, ReadExpired, Overwrite, OverwriteDone, Expire, Runs
  <2>2. HoldsNothing(u)'
    BY <1>2, <2>1 DEF HoldsNothing
  <2>3. CASE tx[u].op \in Orderly
    BY <1>1, <1>2, <1>9, <2>1, <2>2, <2>3, StatementInLine
  <2>4. CASE tx[u].op \notin Orderly
    BY <2>1, <2>2, <2>4 DEF InLine
  <2> QED BY <2>3, <2>4
<1> QED BY <1>3, <1>4, <1>5, <1>6, <1>7, <1>8, <1>9 DEF Next, Abort

LEMMA InitInLine == Init => LineInv
<1> SUFFICES ASSUME Init PROVE LineInv
  OBVIOUS
<1>1. "none" \notin Orderly /\ Idle.op = "none" /\ Idle.code = <<>>
  BY DEF Orderly, Idle
<1>2. KeptItems
  BY DEF Init, KeptItems
<1> QED BY <1>1, <1>2, NoTxnAssumption DEF Init, LineInv, InLine, HoldsNothing

\* Where in its request an orderly operation is.
LEMMA Current ==
  ASSUME StockInv, LineInv, NEW t \in Txns, tx[t].op \in Orderly, tx[t].code # <<>>
  PROVE  LET x == tx[t]
         IN /\ Reached(x) + 1 \in DOMAIN x.request
            /\ x.request[Reached(x) + 1] = x.items[1]
            /\ \A i : Passed(x, i) =>
                 \E k \in DOMAIN x.request : k < Reached(x) + 1 /\ x.request[k] = i
<1> DEFINE x == tx[t]
<1>1. x \in TxRecords /\ x.items \in Seq(Items) /\ x.items # <<>>
  BY Running DEF Runs, TxRecords
<1>2. Follows(x)
  BY DEF LineInv, InLine
<1>3. /\ Len(x.items) \in Nat /\ Len(x.items) >= 1 /\ Len(x.request) \in Nat
      /\ DOMAIN x.items = 1 .. Len(x.items) /\ DOMAIN x.request = 1 .. Len(x.request)
  BY <1>1 DEF TxRecords
<1>4. /\ Reached(x) \in Nat /\ Reached(x) + 1 \in 1 .. Len(x.request)
      /\ x.items[1] = x.request[Reached(x) + 1]
  <2>1. Reached(x) = Len(x.request) - Len(x.items) /\ Reached(x) >= 0
    BY <1>2 DEF Follows, Reached
  <2>2. Reached(x) \in Nat /\ Reached(x) + 1 \in 1 .. Len(x.request)
    <3>1. PICK m, n, k : m = Len(x.items) /\ n = Len(x.request) /\ k = Reached(x)
      OBVIOUS
    <3>2. m \in Nat /\ n \in Nat /\ m >= 1 /\ k = n - m /\ k >= 0
      BY <1>3, <2>1, <3>1
    <3>3. k \in Nat /\ k + 1 \in 1 .. n
      BY <3>2
    <3> QED BY <3>1, <3>3
  <2>3. 1 \in DOMAIN x.items
    BY <1>3
  <2> QED BY <1>2, <2>2, <2>3 DEF Follows
<1>5. ASSUME NEW i, Passed(x, i)
      PROVE  \E k \in DOMAIN x.request : k < Reached(x) + 1 /\ x.request[k] = i
  <2>1. PICK k \in 1 .. Reached(x) : x.request[k] = i
    BY <1>5 DEF Passed
  <2>2. k \in 1 .. Len(x.request) /\ k < Reached(x) + 1
    BY <1>4
  <2> QED BY <1>3, <2>1, <2>2
<1> QED BY <1>3, <1>4, <1>5

\* Orderly operations wait for each other at caches only.
LEMMA WaitsAtCache ==
  ASSUME StockInv, LineInv, NEW t \in Txns, NEW u \in Txns, t # u,
         {tx[t].op, tx[u].op} \subseteq Orderly, Waits(t, u), tx[u].code # <<>>
  PROVE  tx[t].code \in BeforeCache /\ tx[t].items[1] \in Items /\ lock[tx[t].items[1]] = u
<1>1. tx[t].code # <<>> /\ KeptItems /\ InLine(t) /\ InLine(u)
  BY DEF Waits, NextWrites, LineInv
<1>2. tx[t].code \in BeforeCache \union AfterCache /\ tx[t].items[1] \in Items
      /\ tx[t] \in TxRecords /\ RowsNamed(tx[t])
  BY <1>1, Running DEF InLine, Runs
<1>3. ASSUME NEW b \in Batches, Exists(t, b), lock[b] = u, tx[t].code \in AfterCache PROVE FALSE
  <2>1. Seen(t, b) = committed[b]
    BY <1>3 DEF Seen
  <2>2. committed[b].st # "none" /\ db[b].item = tx[t].items[1]
    BY <1>1, <1>3, <2>1 DEF Exists, KeptItems
  <2>3. lock[tx[t].items[1]] = u
    BY <1>1, <1>3, <2>2 DEF InLine
  <2> QED BY <1>1, <1>3, <2>3 DEF InLine
<1>4. PICK r \in NextWrites(t) : lock[r] = u
  BY DEF Waits
<1>5. CASE Head(tx[t].code) \in {"CacheDown", "CacheUp"}
  <2>1. r = tx[t].items[1]
    BY <1>1, <1>4, <1>5 DEF NextWrites
  <2>2. tx[t].code \in BeforeCache
    BY <1>2, <1>5, LinePlaces DEF BeforeCache
  <2> QED BY <1>2, <1>4, <2>1, <2>2
<1>6. CASE Head(tx[t].code) \in {"Take", "PutBack"}
  <2>1. PICK s \in tx[t].list : r = s.id
    BY <1>1, <1>4, <1>6 DEF NextWrites
  <2>2. s.id \in Batches /\ Exists(t, s.id) /\ tx[t].code \in AfterCache
    BY <1>1, <1>2, <1>6, LinePlaces DEF InLine, TxRecords, Snapshots, AfterCache
  <2> QED BY <1>3, <1>4, <2>1, <2>2
<1>7. CASE Head(tx[t].code) = "Expire"
  <2>1. r = tx[t].row
    BY <1>1, <1>4, <1>7 DEF NextWrites
  <2>2. tx[t].code = <<"Expire">>
    BY <1>2, <1>7, LinePlaces
  <2>3. tx[t].row \in Batches /\ Exists(t, tx[t].row) /\ tx[t].code \in AfterCache
    BY <1>1, <1>2, <2>2, DisposedRow DEF InLine, Disposing, AfterCache
  <2> QED BY <1>3, <1>4, <2>1, <2>3
<1>8. Head(tx[t].code) \notin {"Claim", "Overwrite"}
  BY <1>2, LinePlaces
<1> QED BY <1>1, <1>4, <1>5, <1>6, <1>7, <1>8 DEF NextWrites

\* Sales, reversals, receipts and disposals wait for each other in a circle of two only
\* if their requests name two items in opposite orders, whatever transfers and waste
\* reports do at the same time.
THEOREM OnlyCrossingsDeadlockHolds == Spec => []OnlyCrossingsDeadlock
<1>1. Init => StockInv /\ LineInv
  BY InitKeeps, InitInLine
<1>2. StockInv /\ LineInv /\ [Next]_vars => (StockInv /\ LineInv)'
  BY NextKeeps, NextInLine
<1>3. StockInv /\ LineInv => OnlyCrossingsDeadlock
  <2> SUFFICES ASSUME StockInv, LineInv, NEW t \in Txns, NEW u \in Txns, t # u,
                      {tx[t].op, tx[u].op} \subseteq Orderly, Waits(t, u), Waits(u, t)
               PROVE  Cross(tx[t].request, tx[u].request)
    BY DEF OnlyCrossingsDeadlock
  <2>1. tx[t].code # <<>> /\ tx[u].code # <<>>
    BY DEF Waits, NextWrites
  <2> DEFINE i == tx[t].items[1]
             j == tx[u].items[1]
  <2>2. /\ tx[t].code \in BeforeCache /\ i \in Items /\ lock[i] = u
        /\ tx[u].code \in BeforeCache /\ j \in Items /\ lock[j] = t
    BY <2>1, WaitsAtCache
  <2>3. Passed(tx[t], j) /\ Passed(tx[u], i)
    BY <2>1, <2>2, BeforeOrAfter DEF LineInv, InLine
  <2>4. /\ Reached(tx[t]) + 1 \in DOMAIN tx[t].request
        /\ tx[t].request[Reached(tx[t]) + 1] = i
    BY <2>1, Current
  <2>5. /\ Reached(tx[u]) + 1 \in DOMAIN tx[u].request
        /\ tx[u].request[Reached(tx[u]) + 1] = j
    BY <2>1, Current
  <2>6. PICK k \in DOMAIN tx[t].request : k < Reached(tx[t]) + 1 /\ tx[t].request[k] = j
    BY <2>1, <2>3, Current
  <2>7. PICK m \in DOMAIN tx[u].request : m < Reached(tx[u]) + 1 /\ tx[u].request[m] = i
    BY <2>1, <2>3, Current
  <2>8. i # j
    BY <2>2
  <2> QED BY <2>4, <2>5, <2>6, <2>7, <2>8 DEF Cross
<1> QED BY <1>1, <1>2, <1>3, PTL DEF Spec
===============================================================================
