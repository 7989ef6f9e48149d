---------------------------- MODULE BackOfficeProofs ----------------------------
(***************************************************************************)
(* Theorems about the back-office services for every set of members,       *)
(* settlements, supplies, orders and employees, any number of requests     *)
(* side by side and any number of them in a row.                           *)
(***************************************************************************)
EXTENDS BackOffice, SumProofs

-------------------------------------------------------------------------------
(* What a statement does to the rows and to the requests.                  *)

IsRequest(x) == x = [op |-> x.op, pc |-> x.pc, row |-> x.row, read |-> x.read, out |-> x.out]

\* Rows, locks and requests are functions, whatever they hold.
RowShape == /\ db = [r \in Rows |-> db[r]]
            /\ committed = [r \in Rows |-> committed[r]]
            /\ lock \in [Rows -> Txns \union {NoTxn}]
RequestShape == /\ tx = [t \in Txns |-> tx[t]]
                /\ \A t \in Txns : IsRequest(tx[t])

OthersWait(t) == \A u \in Txns \ {t} : tx'[u] = tx[u]

LEMMA BeginDoes ==
  ASSUME RequestShape, NEW t \in Txns, NEW op, NEW pc, NEW row, NEW read, NEW stale,
         BeginBeside(t, op, pc, row, read, stale)
  PROVE  /\ tx[t].op = "none"
         /\ tx'[t].op = op /\ tx'[t].pc = pc /\ tx'[t].row = row /\ tx'[t].read = read
         /\ tx'[t].out = {}
         /\ OthersWait(t) /\ RequestShape'
<1>1. PICK y : y = [op |-> op, pc |-> pc, row |-> row, read |-> read, out |-> {}]
  OBVIOUS
<1>2. y.op = op /\ y.pc = pc /\ y.row = row /\ y.read = read /\ y.out = {} /\ IsRequest(y)
  BY <1>1 DEF IsRequest
<1>3. tx' = [tx EXCEPT ![t] = y] /\ tx[t].op = "none"
  BY <1>1 DEF BeginBeside
<1>4. tx'[t] = y /\ OthersWait(t) /\ RequestShape'
  BY <1>2, <1>3 DEF RequestShape, OthersWait, IsRequest
<1> QED BY <1>2, <1>3, <1>4

LEMMA ContinueDoes ==
  ASSUME RequestShape, NEW t \in Txns, NEW pc, NEW read, NEW out, Continue(t, pc, read, out)
  PROVE  /\ tx'[t].op = tx[t].op /\ tx'[t].pc = pc /\ tx'[t].row = tx[t].row
         /\ tx'[t].read = read /\ tx'[t].out = out
         /\ OthersWait(t) /\ RequestShape'
<1>1. IsRequest(tx[t]) /\ tx = [u \in Txns |-> tx[u]]
  BY DEF RequestShape
<1>2. PICK x : x = tx[t]
  OBVIOUS
<1>3. PICK y : y = [x EXCEPT !.pc = pc, !.read = read, !.out = out]
  OBVIOUS
<1>4. y = [op |-> x.op, pc |-> pc, row |-> x.row, read |-> read, out |-> out]
  BY <1>1, <1>2, <1>3 DEF IsRequest
<1>5. tx' = [tx EXCEPT ![t] = y]
  BY <1>1, <1>2, <1>3 DEF Continue
<1>6. tx'[t] = y /\ OthersWait(t) /\ tx' = [u \in Txns |-> tx'[u]]
  BY <1>1, <1>5 DEF OthersWait
<1>7. RequestShape'
  BY <1>4, <1>6 DEF RequestShape, OthersWait, IsRequest
<1>8. y.op = x.op /\ y.pc = pc /\ y.row = x.row /\ y.read = read /\ y.out = out
  BY <1>4
<1> QED BY <1>2, <1>6, <1>7, <1>8

LEMMA FinishDoes ==
  ASSUME RequestShape, NEW t \in Txns, tx' = [tx EXCEPT ![t] = Idle]
  PROVE  /\ tx'[t] = Idle /\ tx'[t].op = "none" /\ tx'[t].pc = "none" /\ tx'[t].out = {}
         /\ OthersWait(t) /\ RequestShape'
BY DEF RequestShape, OthersWait, IsRequest, Idle

LEMMA PutDoes ==
  ASSUME RowShape, NEW row \in Rows, NEW value, Put(row, value)
  PROVE  /\ lock[row] = NoTxn /\ lock' = lock
         /\ db'[row] = value /\ committed'[row] = value
         /\ \A r \in Rows \ {row} : db'[r] = db[r] /\ committed'[r] = committed[r]
         /\ RowShape'
BY DEF RowShape, Put

LEMMA WriteDoes ==
  ASSUME RowShape, NEW t \in Txns, NEW row \in Rows, NEW value, Write(t, row, value),
         UNCHANGED committed
  PROVE  /\ lock'[row] = t /\ db'[row] = value
         /\ \A r \in Rows \ {row} : db'[r] = db[r] /\ lock'[r] = lock[r]
         /\ RowShape'
BY DEF RowShape, Write

LEMMA UndoDoes ==
  ASSUME RowShape, NEW t \in Txns, UndoWrites(t)
  PROVE  /\ committed' = committed /\ RowShape'
         /\ \A r \in Rows : lock[r] = t => db'[r] = committed[r] /\ lock'[r] = NoTxn
         /\ \A r \in Rows : lock[r] # t => db'[r] = db[r] /\ lock'[r] = lock[r]
BY DEF RowShape, UndoWrites, Release

LEMMA KeepDoes ==
  ASSUME RowShape, NEW t \in Txns, KeepWrites(t)
  PROVE  /\ db' = db /\ RowShape'
         /\ \A r \in Rows : lock[r] = t => committed'[r] = db[r] /\ lock'[r] = NoTxn
         /\ \A r \in Rows : lock[r] # t => committed'[r] = committed[r] /\ lock'[r] = lock[r]
BY DEF RowShape, KeepWrites, Release

LEMMA SameRows ==
  ASSUME RowShape, UNCHANGED <<db, committed, lock>> PROVE RowShape'
BY DEF RowShape

LEMMA SameRequests ==
  ASSUME RequestShape, UNCHANGED tx PROVE RequestShape' /\ \A t \in Txns : tx'[t] = tx[t]
BY DEF RequestShape, IsRequest

LEMMA StartShape == ASSUME Init PROVE RowShape /\ RequestShape
<1>1. Initial = [r \in Rows |-> Initial[r]]
  BY DEF Initial
<1>2. db = Initial /\ committed = Initial
  BY DEF Init, ServiceInit
<1> QED BY <1>1, <1>2 DEF Init, ServiceInit, RowShape, RequestShape, IsRequest, Idle

\* The departments share no row.
LEMMA RowKinds ==
  /\ \A r \in StockCountRows : r[1] \in {"shelf", "count", "line"}
  /\ \A r \in ProductionRows : r[1] \in {"job"}
  /\ \A r \in ReorderRows : r[1] \in {"supply", "po", "item"}
  /\ \A r \in SettlementRows : r[1] \in {"settlement", "till"}
  /\ \A r \in StaffRows : r[1] \in {"employee", "record", "run", "leave"}
  /\ \A r \in LoyaltyRows : r[1] \in {"spend", "member"}
  /\ \A r \in JournalRows : r[1] \in {"paper", "rate"}
<1>1. \A r \in StockCountRows : r[1] \in {"shelf", "count", "line"}
  BY DEF StockCountRows, Shelf, Count, Line
<1>2. \A r \in ProductionRows : r[1] \in {"job"}
  BY DEF ProductionRows, Job
<1>3. \A r \in ReorderRows : r[1] \in {"supply", "po", "item"}
  BY DEF ReorderRows, Supply, PO, Item
<1>4. \A r \in SettlementRows : r[1] \in {"settlement", "till"}
  BY DEF SettlementRows, Settlement, Till
<1>5. \A r \in StaffRows : r[1] \in {"employee", "record", "run", "leave"}
  BY DEF StaffRows, Employee, Record, Run, Leave
<1>6. \A r \in LoyaltyRows : r[1] \in {"spend", "member"}
  BY DEF LoyaltyRows, Spend, Member
<1>7. \A r \in JournalRows : r[1] \in {"paper", "rate"}
  BY DEF JournalRows, Paper, Rate
<1> QED BY <1>1, <1>2, <1>3, <1>4, <1>5, <1>6, <1>7

LEMMA InitialRows ==
  /\ \A r \in StockCountRows : InitialOf(r) = StockCountInitial(r)
  /\ \A r \in ProductionRows : InitialOf(r) = "none"
  /\ \A r \in ReorderRows : InitialOf(r) = ReorderInitial(r)
  /\ \A r \in SettlementRows : InitialOf(r) = SettlementInitial(r)
  /\ \A r \in StaffRows : InitialOf(r) = StaffInitial(r)
  /\ \A r \in LoyaltyRows : InitialOf(r) = LoyaltyInitial(r)
<1>1. \A r \in StockCountRows : r \notin ProductionRows /\ r \notin ReorderRows /\ r \notin SettlementRows
        /\ r \notin StaffRows /\ r \notin LoyaltyRows /\ r \notin JournalRows
  BY RowKinds
<1>2. \A r \in ProductionRows : r \notin ReorderRows /\ r \notin SettlementRows
        /\ r \notin StaffRows /\ r \notin LoyaltyRows /\ r \notin JournalRows
  BY RowKinds
<1>3. \A r \in ReorderRows : r \notin SettlementRows /\ r \notin StaffRows /\ r \notin LoyaltyRows
        /\ r \notin JournalRows
  BY RowKinds
<1>4. \A r \in SettlementRows : r \notin StaffRows /\ r \notin LoyaltyRows /\ r \notin JournalRows
  BY RowKinds
<1>5. \A r \in StaffRows : r \notin LoyaltyRows /\ r \notin JournalRows
  BY RowKinds
<1>6. \A r \in LoyaltyRows : r \notin JournalRows
  BY RowKinds
<1> QED BY <1>1, <1>2, <1>3, <1>4, <1>5, <1>6 DEF InitialOf

\* What is logged stays, and only the entries given are added.
LEMMA LoggedDoes ==
  ASSUME NEW entries, Logged(entries)
  PROVE  /\ DOMAIN log' = DOMAIN log \union entries
         /\ \A e \in DOMAIN log' : log'[e] = Times(e) + (IF e \in entries THEN 1 ELSE 0)
BY DEF Logged

\* Entries of other kinds leave those of one kind alone.
LEMMA OtherEntries ==
  ASSUME NEW kind, NEW entries, \A e \in entries : e.kind # kind, Logged(entries)
  PROVE  /\ DOMAIN log' = DOMAIN log \union entries
         /\ \A key : Entries(kind, key)' = Entries(kind, key)
         /\ \A key : \A e \in Entries(kind, key) : log[e] = 1 => log'[e] = 1
<1>1. DOMAIN log' = DOMAIN log \union entries
  BY DEF Logged
<1>2. \A e \in DOMAIN log' : log'[e] = Times(e) + (IF e \in entries THEN 1 ELSE 0)
  BY LoggedDoes
<1>3. ASSUME NEW e \in DOMAIN log, log[e] = 1, e.kind = kind PROVE log'[e] = 1
  BY <1>1, <1>2, <1>3 DEF Times
<1> QED BY <1>1, <1>3 DEF Entries

\* What a function takes on a finite set is finite.
LEMMA FiniteImage ==
  ASSUME NEW S, IsFiniteSet(S), NEW g PROVE IsFiniteSet({g[x] : x \in S})
<1> DEFINE T == {g[x] : x \in S}
           h == [x \in S |-> g[x]]
<1>1. h \in Surjection(S, T)
  BY DEF Surjection
<1> QED BY <1>1, FS_Surjection

-------------------------------------------------------------------------------
(* Loyalty.                                                                *)

\* A listener whose sum is still that of the member's orders, or not read yet.
Fresh(t, m) == /\ tx[t].op = "tier" /\ tx[t].row = Member(m)
               /\ tx[t].pc # "spend" => tx[t].read.spend = committed[Spend(m)]

TierTypes ==
  /\ RowShape /\ RequestShape
  /\ db = committed /\ \A r \in Rows : lock[r] = NoTxn
  /\ \A m \in Members : committed[Member(m)] = [tier |-> committed[Member(m)].tier,
                                               hidden |-> committed[Member(m)].hidden]
  /\ \A t \in Txns : \/ tx[t].op = "none" /\ tx[t].pc = "none"
                     \/ /\ tx[t].op = "tier" /\ tx[t].pc \in {"spend", "member", "write"}
                        /\ \E m \in Members : tx[t].row = Member(m)

TierRight(m) == committed[Member(m)].tier = TierOf(committed[Spend(m)])

\* A tier that is not that of the spend has a listener that knows the spend.
TierSettled(m) ==
  Spend(m) \in raced \/ Entries("reversal", m) # {} \/ TierRight(m) \/ \E t \in Txns : Fresh(t, m)

TierInv == desk = "loyalty" => TierTypes /\ \A m \in Members : TierSettled(m)

LEMMA LoyaltyRowsApart ==
  ASSUME NEW m \in Members, NEW n \in Members
  PROVE  /\ Spend(m) \in Rows /\ Member(m) \in Rows /\ Spend(m) # Member(n)
         /\ Spend(m) = Spend(n) => m = n
         /\ Member(m) = Member(n) => m = n
         /\ Member(m)[2] = m
<1>1. Spend(m) \in Rows /\ Member(m) \in Rows
  BY RowsAssumption DEF AllRows, LoyaltyRows
<1>2. <<"spend", m>> # <<"member", n>>
  OBVIOUS
<1>3. (<<"spend", m>> = <<"spend", n>> => m = n) /\ (<<"member", m>> = <<"member", n>> => m = n)
  OBVIOUS
<1>4. <<"member", m>>[2] = m
  OBVIOUS
<1> QED BY <1>1, <1>2, <1>3, <1>4 DEF Spend, Member

LEMMA TierInitInv == ASSUME Init PROVE TierInv
<1>1. RowShape /\ RequestShape
  BY StartShape
<1>2. ASSUME NEW m \in Members
      PROVE  committed[Spend(m)] = 0 /\ committed[Member(m)] = NewMember
  <2>1. Spend(m) \in LoyaltyRows /\ Member(m) \in LoyaltyRows
    BY DEF LoyaltyRows
  <2>2. LoyaltyInitial(Spend(m)) = 0 /\ LoyaltyInitial(Member(m)) = NewMember
    BY DEF LoyaltyInitial, Spend, Member
  <2>3. committed[Spend(m)] = InitialOf(Spend(m)) /\ committed[Member(m)] = InitialOf(Member(m))
    BY LoyaltyRowsApart DEF Init, ServiceInit, Initial
  <2> QED BY <2>1, <2>2, <2>3, InitialRows
<1>3. TierTypes
  <2>1. \A m \in Members : committed[Member(m)] = [tier |-> committed[Member(m)].tier,
                                                  hidden |-> committed[Member(m)].hidden]
    BY <1>2 DEF NewMember
  <2> QED BY <1>1, <2>1 DEF TierTypes, Init, ServiceInit, Idle
<1>4. ASSUME desk = "loyalty", NEW m \in Members PROVE TierSettled(m)
  <2>1. TierOf(0) = "REGULAR"
    <3>1. \A tier \in DOMAIN TierFrom : TierFrom[tier] <= 0 => tier = "REGULAR"
      BY LoyaltyAssumption
    <3>2. "REGULAR" \in DOMAIN TierFrom /\ TierFrom["REGULAR"] <= 0
      BY LoyaltyAssumption
    <3>3. \A other \in DOMAIN TierFrom : TierFrom[other] <= 0 => TierFrom[other] <= TierFrom["REGULAR"]
      BY <3>1, LoyaltyAssumption
    <3> QED BY <3>1, <3>2, <3>3 DEF TierOf
  <2> QED BY <1>2, <2>1 DEF TierSettled, TierRight, NewMember
<1> QED BY <1>3, <1>4 DEF TierInv

\* A step of a listener leaves what the member's other listeners know.
LEMMA StillSettled ==
  ASSUME NEW m \in Members, TierSettled(m), raced \subseteq raced', DOMAIN log \subseteq DOMAIN log',
         committed'[Spend(m)] = committed[Spend(m)],
         committed'[Member(m)].tier = committed[Member(m)].tier,
         \A t \in Txns : Fresh(t, m) =>
           \/ tx'[t] = tx[t]
           \/ Fresh(t, m)'
           \/ TierRight(m)
           \/ Spend(m) \in raced'
  PROVE  TierSettled(m)'
<1>1. CASE Spend(m) \in raced
  BY <1>1 DEF TierSettled
<1>2. CASE Entries("reversal", m) # {}
  BY <1>2 DEF TierSettled, Entries
<1>3. CASE TierRight(m)
  BY <1>3 DEF TierSettled, TierRight
<1>4. CASE \E t \in Txns : Fresh(t, m)
  <2>1. PICK t \in Txns : Fresh(t, m)
    BY <1>4
  <2>2. CASE tx'[t] = tx[t]
    BY <2>1, <2>2 DEF TierSettled, Fresh
  <2>3. CASE TierRight(m)
    BY <2>3 DEF TierSettled, TierRight
  <2> QED BY <2>1, <2>2, <2>3 DEF TierSettled
<1> QED BY <1>1, <1>2, <1>3, <1>4 DEF TierSettled

LEMMA ListenerKeeps ==
  ASSUME TierInv, desk = "loyalty", NEW t \in Txns, ReadSpend(t) \/ ReadMember(t)
  PROVE  TierInv'
<1>1. TierTypes /\ desk' = desk /\ UNCHANGED <<db, committed, lock, log, raced>>
  BY DEF TierInv, ReadSpend, ReadMember, Continue, GoTo, Finish
<1>2. PICK m \in Members : tx[t].row = Member(m)
  BY <1>1 DEF TierTypes, ReadSpend, ReadMember, Doing
<1>3. tx[t].op = "tier" /\ m = tx[t].row[2]
  BY <1>2, LoyaltyRowsApart DEF ReadSpend, ReadMember, Doing
<1>4. CASE ReadSpend(t)
  <2>0. PICK read : read = [spend |-> committed[Spend(m)]]
    OBVIOUS
  <2>1. /\ tx'[t].op = tx[t].op /\ tx'[t].pc = "member" /\ tx'[t].row = tx[t].row
        /\ tx'[t].read = read
        /\ OthersWait(t) /\ RequestShape'
    BY <1>1, <1>3, <1>4, <2>0, ContinueDoes DEF ReadSpend, TierTypes
  <2>2. TierTypes'
    BY <1>1, <1>2, <1>3, <2>1, SameRows DEF TierTypes, OthersWait
  <2>3. Fresh(t, m)'
    <3>1. tx'[t].op = "tier" /\ tx'[t].row = Member(m) /\ tx'[t].read = read
      BY <1>2, <1>3, <2>1
    <3>2. tx'[t].read.spend = committed[Spend(m)] /\ committed' = committed
      BY <1>1, <2>0, <3>1
    <3> QED BY <3>1, <3>2 DEF Fresh
  <2>4. \A n \in Members : n # m => ~Fresh(t, n)
    BY <1>2, LoyaltyRowsApart DEF Fresh
  <2>5. \A n \in Members : TierSettled(n)'
    BY <1>1, <2>1, <2>3, <2>4, StillSettled DEF TierInv, OthersWait
  <2> QED BY <2>2, <2>5 DEF TierInv
<1>5. CASE ReadMember(t) /\ GoTo(t, "write")
  <2>1. /\ tx'[t].op = tx[t].op /\ tx'[t].pc = "write" /\ tx'[t].row = tx[t].row
        /\ tx'[t].read = tx[t].read
        /\ OthersWait(t) /\ RequestShape'
    BY <1>1, <1>5, ContinueDoes DEF GoTo, TierTypes
  <2>2. TierTypes'
    BY <1>1, <1>2, <1>3, <2>1, SameRows DEF TierTypes, OthersWait
  <2>3. tx[t].pc = "member"
    BY <1>5 DEF ReadMember, Doing
  <2>4. \A n \in Members : Fresh(t, n) => Fresh(t, n)'
    BY <1>1, <1>2, <1>3, <2>1, <2>3 DEF Fresh
  <2>5. \A n \in Members : TierSettled(n)'
    BY <1>1, <2>1, <2>4, StillSettled DEF TierInv, OthersWait
  <2> QED BY <2>2, <2>5 DEF TierInv
<1>6. CASE /\ ReadMember(t) /\ Finish(t)
           /\ committed[tx[t].row].tier = TierOf(tx[t].read.spend)
  <2>1. tx'[t] = Idle /\ OthersWait(t) /\ RequestShape'
    BY <1>1, <1>6, FinishDoes DEF Finish, TierTypes
  <2>2. TierTypes'
    BY <1>1, <2>1, SameRows DEF TierTypes, OthersWait, Idle
  <2>3. tx[t].pc = "member"
    BY <1>6 DEF ReadMember, Doing
  <2>4. \A n \in Members : Fresh(t, n) => TierRight(n)
    BY <1>2, <1>6, <2>3 DEF Fresh, TierRight
  <2>5. \A n \in Members : TierSettled(n)'
    BY <1>1, <2>1, <2>4, StillSettled DEF TierInv, OthersWait
  <2> QED BY <2>2, <2>5 DEF TierInv
<1> QED BY <1>4, <1>5, <1>6 DEF ReadMember

\* An order changes the spend; the listener it starts knows nothing yet.
LEMMA BuyKeeps ==
  ASSUME TierInv, desk = "loyalty", NEW t \in Txns, Buy(t)
  PROVE  TierInv'
<1>1. TierTypes /\ desk' = desk /\ UNCHANGED <<log, raced>>
  BY DEF TierInv, Buy
<1>2. PICK m \in Members, amount \in Prices :
        /\ tx[t].op = "none" /\ Put(Spend(m), committed[Spend(m)] + amount)
        /\ tx' = [tx EXCEPT ![t] = [op |-> "tier", pc |-> "spend", row |-> Member(m),
                                    read |-> NotRead, out |-> {}]]
  BY DEF Buy
<1>3. /\ db'[Spend(m)] = committed'[Spend(m)] /\ lock' = lock
      /\ \A r \in Rows \ {Spend(m)} : db'[r] = db[r] /\ committed'[r] = committed[r]
      /\ RowShape'
  BY <1>1, <1>2, LoyaltyRowsApart, PutDoes DEF TierTypes
<1>4. PICK y : y = [op |-> "tier", pc |-> "spend", row |-> Member(m), read |-> NotRead, out |-> {}]
  OBVIOUS
<1>5. y.op = "tier" /\ y.pc = "spend" /\ y.row = Member(m) /\ IsRequest(y)
  BY <1>4 DEF IsRequest
<1>6. tx'[t] = y /\ OthersWait(t) /\ RequestShape'
  BY <1>1, <1>2, <1>4, <1>5 DEF TierTypes, RequestShape, OthersWait, IsRequest
<1>7. TierTypes'
  <2>1. db' = committed'
    BY <1>1, <1>3 DEF TierTypes, RowShape
  <2>2. \A n \in Members : committed'[Member(n)] = committed[Member(n)]
    BY <1>3, LoyaltyRowsApart
  <2> QED BY <1>1, <1>3, <1>5, <1>6, <2>1, <2>2 DEF TierTypes, OthersWait
<1>8. \A n \in Members : TierSettled(n)'
  <2> SUFFICES ASSUME NEW n \in Members PROVE TierSettled(n)'
    OBVIOUS
  <2>1. CASE n = m
    <3>1. Fresh(t, m)'
      BY <1>5, <1>6 DEF Fresh
    <3> QED BY <2>1, <3>1 DEF TierSettled
  <2>2. CASE n # m
    <3>1. committed'[Spend(n)] = committed[Spend(n)] /\ committed'[Member(n)] = committed[Member(n)]
      BY <1>3, <2>2, LoyaltyRowsApart
    <3>2. ~Fresh(t, n)
      BY <1>2 DEF Fresh
    <3> QED BY <1>1, <1>6, <3>1, <3>2, StillSettled DEF TierInv, OthersWait
  <2> QED BY <2>1, <2>2
<1> QED BY <1>7, <1>8 DEF TierInv

\* The tier is that of the sum read; if the sum is another by now, the row raced.
LEMMA WriteTierKeeps ==
  ASSUME TierInv, desk = "loyalty", NEW t \in Txns, WriteTier(t)
  PROVE  TierInv'
<1>1. TierTypes /\ desk' = desk /\ UNCHANGED log
  BY DEF TierInv, WriteTier, Finish
<1>2. PICK m \in Members : tx[t].row = Member(m)
  BY <1>1 DEF TierTypes, WriteTier, Doing
<1>3. tx[t].op = "tier" /\ tx[t].pc = "write" /\ m = tx[t].row[2]
  BY <1>2, LoyaltyRowsApart DEF WriteTier, Doing
<1>4. PICK value : value = [db[Member(m)] EXCEPT !.tier = TierOf(tx[t].read.spend)]
  OBVIOUS
<1>5. /\ Put(Member(m), value) /\ Races(Spend(m), tx[t].read.spend) /\ Finish(t)
  BY <1>3, <1>4 DEF WriteTier
<1>6. value.tier = TierOf(tx[t].read.spend) /\ value = [tier |-> value.tier, hidden |-> value.hidden]
  <2>1. PICK was : was = db[Member(m)]
    OBVIOUS
  <2>2. was = [tier |-> was.tier, hidden |-> was.hidden]
    BY <1>1, <2>1 DEF TierTypes
  <2>3. PICK tier : tier = TierOf(tx[t].read.spend)
    OBVIOUS
  <2>4. value = [was EXCEPT !.tier = tier]
    BY <1>4, <2>1, <2>3
  <2>5. value = [tier |-> tier, hidden |-> was.hidden]
    BY <2>2, <2>4
  <2> QED BY <2>3, <2>5
<1>7. /\ db'[Member(m)] = value /\ committed'[Member(m)] = value /\ lock' = lock
      /\ \A r \in Rows \ {Member(m)} : db'[r] = db[r] /\ committed'[r] = committed[r]
      /\ RowShape'
  BY <1>1, <1>5, LoyaltyRowsApart, PutDoes DEF TierTypes
<1>8. tx'[t].op = "none" /\ tx'[t].pc = "none" /\ OthersWait(t) /\ RequestShape'
  BY <1>1, <1>5, FinishDoes DEF Finish, TierTypes
<1>9. TierTypes'
  <2>1. db' = committed'
    BY <1>1, <1>7 DEF TierTypes, RowShape
  <2>2. \A n \in Members : committed'[Member(n)] = [tier |-> committed'[Member(n)].tier,
                                                   hidden |-> committed'[Member(n)].hidden]
    <3> SUFFICES ASSUME NEW n \in Members
                 PROVE  committed'[Member(n)] = [tier |-> committed'[Member(n)].tier,
                                                hidden |-> committed'[Member(n)].hidden]
      OBVIOUS
    <3>1. CASE n = m
      BY <1>6, <1>7, <3>1
    <3>2. CASE n # m
      BY <1>1, <1>7, <3>2, LoyaltyRowsApart DEF TierTypes
    <3> QED BY <3>1, <3>2
  <2> QED BY <1>1, <1>7, <1>8, <2>1, <2>2 DEF TierTypes, OthersWait
<1>10. raced \subseteq raced' /\ (db[Spend(m)] # tx[t].read.spend => Spend(m) \in raced')
  BY <1>5 DEF Races
<1>11. \A n \in Members : committed'[Spend(n)] = committed[Spend(n)]
  BY <1>7, LoyaltyRowsApart
<1>12. \A n \in Members : TierSettled(n)'
  <2> SUFFICES ASSUME NEW n \in Members PROVE TierSettled(n)'
    OBVIOUS
  <2>1. CASE n = m
    <3>1. CASE db[Spend(m)] # tx[t].read.spend
      BY <1>10, <2>1, <3>1 DEF TierSettled
    <3>2. CASE db[Spend(m)] = tx[t].read.spend
      <4>1. committed'[Member(m)].tier = TierOf(committed'[Spend(m)])
        BY <1>1, <1>6, <1>7, <1>11, <3>2 DEF TierTypes
      <4> QED BY <2>1, <4>1 DEF TierSettled, TierRight
    <3> QED BY <3>1, <3>2
  <2>2. CASE n # m
    <3>1. committed'[Member(n)] = committed[Member(n)]
      BY <1>7, <2>2, LoyaltyRowsApart
    <3>2. ~Fresh(t, n)
      BY <1>2, <2>2, LoyaltyRowsApart DEF Fresh
    <3> QED BY <1>1, <1>8, <1>10, <1>11, <3>1, <3>2, StillSettled DEF TierInv, OthersWait
  <2> QED BY <2>1, <2>2
<1> QED BY <1>9, <1>12 DEF TierInv

\* A reversal is remembered: the tier of its member need not follow any more.
LEMMA ReverseKeeps ==
  ASSUME TierInv, desk = "loyalty", Reverse
  PROVE  TierInv'
<1>1. TierTypes /\ desk' = desk /\ UNCHANGED <<tx, raced>>
  BY DEF TierInv, Reverse, Single
<1>2. PICK m \in Members, amount \in Prices :
        /\ Put(Spend(m), committed[Spend(m)] - amount)
        /\ Logged({[kind |-> "reversal", key |-> m, amount |-> amount]})
  BY DEF Reverse
<1>3. /\ db'[Spend(m)] = committed'[Spend(m)] /\ lock' = lock
      /\ \A r \in Rows \ {Spend(m)} : db'[r] = db[r] /\ committed'[r] = committed[r]
      /\ RowShape'
  BY <1>1, <1>2, LoyaltyRowsApart, PutDoes DEF TierTypes
<1>4. TierTypes'
  <2>1. db' = committed'
    BY <1>1, <1>3 DEF TierTypes, RowShape
  <2>2. \A n \in Members : committed'[Member(n)] = committed[Member(n)]
    BY <1>3, LoyaltyRowsApart
  <2>3. RequestShape' /\ \A t \in Txns : tx'[t] = tx[t]
    BY <1>1, SameRequests DEF TierTypes
  <2> QED BY <1>1, <1>3, <2>1, <2>2, <2>3 DEF TierTypes
<1>5. PICK entry : entry = [kind |-> "reversal", key |-> m, amount |-> amount]
  OBVIOUS
<1>6. entry.kind = "reversal" /\ entry.key = m
  BY <1>5
<1>7. entry \in DOMAIN log' /\ DOMAIN log \subseteq DOMAIN log'
  <2>1. PICK entries : entries = {entry}
    OBVIOUS
  <2>2. Logged(entries)
    BY <1>2, <1>5, <2>1
  <2>3. DOMAIN log' = DOMAIN log \union entries
    BY <2>2 DEF Logged
  <2> QED BY <2>1, <2>3
<1>8. \A n \in Members : TierSettled(n)'
  <2> SUFFICES ASSUME NEW n \in Members PROVE TierSettled(n)'
    OBVIOUS
  <2>1. CASE n = m
    BY <1>6, <1>7, <2>1 DEF TierSettled, Entries
  <2>2. CASE n # m
    <3>1. committed'[Spend(n)] = committed[Spend(n)] /\ committed'[Member(n)] = committed[Member(n)]
      BY <1>3, <2>2, LoyaltyRowsApart
    <3> QED BY <1>1, <1>7, <3>1, StillSettled DEF TierInv
  <2> QED BY <2>1, <2>2
<1> QED BY <1>4, <1>8 DEF TierInv

LEMMA AnonymizeKeeps ==
  ASSUME TierInv, desk = "loyalty", Anonymize
  PROVE  TierInv'
<1>1. TierTypes /\ desk' = desk /\ UNCHANGED <<tx, raced, log>>
  BY DEF TierInv, Anonymize, Single
<1>2. PICK m \in Members : Put(Member(m), [committed[Member(m)] EXCEPT !.hidden = TRUE])
  BY DEF Anonymize
<1>3. PICK was : was = committed[Member(m)]
  OBVIOUS
<1>4. was = [tier |-> was.tier, hidden |-> was.hidden]
  BY <1>1, <1>3 DEF TierTypes
<1>5. PICK value : value = [was EXCEPT !.hidden = TRUE]
  OBVIOUS
<1>6. value = [tier |-> was.tier, hidden |-> TRUE]
  BY <1>4, <1>5
<1>7. value.tier = was.tier /\ value = [tier |-> value.tier, hidden |-> value.hidden]
  BY <1>6
<1>8. /\ db'[Member(m)] = value /\ committed'[Member(m)] = value /\ lock' = lock
      /\ \A r \in Rows \ {Member(m)} : db'[r] = db[r] /\ committed'[r] = committed[r]
      /\ RowShape'
  BY <1>1, <1>2, <1>3, <1>5, LoyaltyRowsApart, PutDoes DEF TierTypes
<1>9. \A n \in Members : /\ committed'[Spend(n)] = committed[Spend(n)]
                         /\ committed'[Member(n)].tier = committed[Member(n)].tier
                         /\ committed'[Member(n)] = [tier |-> committed'[Member(n)].tier,
                                                    hidden |-> committed'[Member(n)].hidden]
  <2> SUFFICES ASSUME NEW n \in Members
               PROVE  /\ committed'[Spend(n)] = committed[Spend(n)]
                      /\ committed'[Member(n)].tier = committed[Member(n)].tier
                      /\ committed'[Member(n)] = [tier |-> committed'[Member(n)].tier,
                                                 hidden |-> committed'[Member(n)].hidden]
    OBVIOUS
  <2>1. committed'[Spend(n)] = committed[Spend(n)]
    BY <1>8, LoyaltyRowsApart
  <2>2. CASE n = m
    BY <1>3, <1>7, <1>8, <2>1, <2>2
  <2>3. CASE n # m
    BY <1>1, <1>8, <2>1, <2>3, LoyaltyRowsApart DEF TierTypes
  <2> QED BY <2>2, <2>3
<1>10. TierTypes'
  <2>1. db' = committed'
    BY <1>1, <1>8 DEF TierTypes, RowShape
  <2>2. RequestShape' /\ \A t \in Txns : tx'[t] = tx[t]
    BY <1>1, SameRequests DEF TierTypes
  <2> QED BY <1>1, <1>8, <1>9, <2>1, <2>2 DEF TierTypes
<1>11. \A n \in Members : TierSettled(n)'
  BY <1>1, <1>9, StillSettled DEF TierInv
<1> QED BY <1>10, <1>11 DEF TierInv

\* A listener that dies gives its member up.
LEMMA DyingListenerKeeps ==
  ASSUME TierInv, desk = "loyalty", NEW t \in Txns, Abort(t, Lost(t))
  PROVE  TierInv'
<1>1. TierTypes /\ desk' = desk /\ UNCHANGED log /\ tx[t].op # "none"
  BY DEF TierInv, Abort, Finish
<1>2. PICK m \in Members : tx[t].op = "tier" /\ tx[t].row = Member(m)
  BY <1>1 DEF TierTypes
<1>3. Spend(m) \in raced' /\ raced \subseteq raced' /\ UndoWrites(t) /\ Finish(t)
  BY <1>2, LoyaltyRowsApart DEF Abort, Lost
<1>4. committed' = committed /\ RowShape' /\ \A r \in Rows : db'[r] = db[r] /\ lock'[r] = lock[r]
  BY <1>1, <1>3, UndoDoes, RequestsAssumption DEF TierTypes
<1>5. tx'[t].op = "none" /\ tx'[t].pc = "none" /\ OthersWait(t) /\ RequestShape'
  BY <1>1, <1>3, FinishDoes DEF Finish, TierTypes
<1>6. TierTypes'
  BY <1>1, <1>4, <1>5 DEF TierTypes, OthersWait, RowShape
<1>7. \A n \in Members : Fresh(t, n) => n = m
  BY <1>2, LoyaltyRowsApart DEF Fresh
<1>8. \A n \in Members : TierSettled(n)'
  BY <1>1, <1>3, <1>4, <1>5, <1>7, StillSettled DEF TierInv, OthersWait
<1> QED BY <1>6, <1>8 DEF TierInv

LEMMA TierSame == ASSUME TierInv, UNCHANGED serviceVars PROVE TierInv'
<1>1. ASSUME desk = "loyalty" PROVE TierTypes'
  <2>1. RowShape' /\ RequestShape' /\ \A t \in Txns : tx'[t] = tx[t]
    BY <1>1, SameRows, SameRequests DEF TierInv, TierTypes, serviceVars
  <2> QED BY <1>1, <2>1 DEF TierInv, TierTypes, serviceVars
<1>2. ASSUME desk = "loyalty", NEW m \in Members PROVE TierSettled(m)'
  BY <1>2, StillSettled DEF TierInv, serviceVars
<1> QED BY <1>1, <1>2 DEF TierInv, serviceVars

\* Nobody changes department.
LEMMA DeskStays == ASSUME [Next]_serviceVars PROVE desk' = desk
<1>1. CASE UNCHANGED serviceVars
  BY <1>1 DEF serviceVars
<1>2. CASE StockCountNext
  <2>1. ASSUME Sell \/ CreateStockCount \/ Cancel PROVE desk' = desk
    BY <2>1 DEF Sell, CreateStockCount, Cancel, Single
  <2>2. ASSUME NEW t \in Txns, UpdateLines(t) \/ WriteLine(t) \/ Submit(t) \/ ReadBalances(t)
                              \/ Expect(t) \/ ClaimDraft(t) PROVE desk' = desk
    BY <2>2 DEF UpdateLines, WriteLine, Submit, ReadBalances, Expect, ClaimDraft,
       Begin, BeginBeside, GoTo, Continue, Throw, Finish
  <2>3. ASSUME NEW t \in Txns, Approve(t) \/ ClaimSubmitted(t) \/ ApplyVariance(t)
                              \/ Adjust(t) \/ ApplyDelta(t) PROVE desk' = desk
    BY <2>3 DEF Approve, ClaimSubmitted, ApplyVariance, Adjust, ApplyDelta,
       Begin, BeginBeside, GoTo, Continue, Throw, Finish
  <2> QED BY <1>2, <2>1, <2>2, <2>3 DEF StockCountNext, StockCountStep
<1>3. CASE ProductionNext
  BY <1>3 DEF ProductionNext, ProductionStep, CreateProductionOrder, MoveJob, SetJob, Complete,
       TakeRaw, AddFinished, SetCompleted, Single, Begin, BeginBeside, GoTo, Continue, Throw, Finish
<1>4. CASE ReorderNext
  BY <1>4 DEF ReorderNext, ReorderStep, UseUp, LookAtStock, Snapshot, CreateAutoPO, AppendItem,
       Publish, ReadPO, SetPO, ReceivePO, Single, Begin, BeginBeside, GoTo, Continue, Throw, Finish
<1>5. CASE SettlementNext
  BY <1>5 DEF SettlementNext, SettlementStep, Collect, FindSettlement, ExpectCash, Resubmit,
       CreateSettlement, ReadSettlement, ClaimPending, Single, Begin, BeginBeside, GoTo, Continue,
       Throw, Finish
<1>6. CASE StaffNext
  BY <1>6 DEF StaffNext, StaffStep, Move, DecideLeave, ClockIn, CreateRecord, ClockOut, CloseRecord,
       Generate, ReadSalaried, CreateRun, ReadRun, ClaimRun, Single, Begin, BeginBeside, GoTo,
       Continue, Throw, Finish
<1>7. CASE LoyaltyNext
  BY <1>7 DEF LoyaltyNext, LoyaltyStep, Reverse, Anonymize, Buy, ReadSpend, ReadMember, WriteTier,
       Single, GoTo, Continue, Finish
<1>8. CASE JournalNext
  BY <1>8 DEF JournalNext, Proceed, ChangeRate, Deliver, Miss, Single
<1>9. CASE \E t \in Txns : Commit(t) \/ Abort(t, Lost(t))
  BY <1>9 DEF Commit, Abort, Finish
<1> QED BY <1>1, <1>2, <1>3, <1>4, <1>5, <1>6, <1>7, <1>8, <1>9 DEF Next

LEMMA TierNext == ASSUME TierInv, [Next]_serviceVars PROVE TierInv'
<1>1. CASE UNCHANGED serviceVars
  BY <1>1, TierSame
<1>2. CASE desk # "loyalty"
  BY <1>2, DeskStays DEF TierInv
<1>3. CASE desk = "loyalty" /\ Next
  <2>1. ASSUME NEW t \in Txns, Commit(t) PROVE FALSE
    BY <1>3, <2>1 DEF TierInv, TierTypes, Commit
  <2>2. \/ Reverse \/ Anonymize
        \/ \E t \in Txns : LoyaltyStep(t)
        \/ \E t \in Txns : Abort(t, Lost(t))
    BY <1>3, <2>1 DEF Next, LoyaltyNext
  <2> QED BY <1>3, <2>2, ReverseKeeps, AnonymizeKeeps, BuyKeeps, ListenerKeeps, WriteTierKeeps,
            DyingListenerKeeps DEF LoyaltyStep
<1> QED BY <1>1, <1>2, <1>3

LEMMA TierEnough == ASSUME TierInv PROVE TierFollowsSpend
BY DEF TierInv, TierSettled, TierRight, TierFollowsSpend, Evaluating, Fresh

\* However orders, reversals, anonymisations and the listeners of one member
\* interleave, for all members, prices and tiers: when no listener of the member
\* is at work, the tier is that of the lifetime spend, unless a listener wrote it
\* from a sum out of date, died, or an order was reversed.
THEOREM TierFollowsSpendHolds == Spec => []TierFollowsSpend
<1>1. Init => TierInv
  BY TierInitInv
<1>2. TierInv /\ [Next]_serviceVars => TierInv'
  BY TierNext
<1>3. TierInv => TierFollowsSpend
  BY TierEnough
<1> QED BY <1>1, <1>2, <1>3, PTL DEF Spec

-------------------------------------------------------------------------------
(* Settlements.                                                            *)

IsSettlement(x) == x = [st |-> x.st, expected |-> x.expected]
SettlementRow(r) == \E s \in SettlementIds : r = Settlement(s)
SignOff(row, amount) == [kind |-> "signoff", key |-> row[2], amount |-> amount]

Claiming(t) == tx[t].op = "signoff" /\ tx[t].pc = "commit"

\* An approval under way holds a row that is pending for everybody else.
Claimed(t) == /\ SettlementRow(tx[t].row)
              /\ lock[tx[t].row] = t
              /\ committed[tx[t].row].st = "PENDING"
              /\ db[tx[t].row].st = "APPROVED"
              /\ db[tx[t].row].expected = committed[tx[t].row].expected
              /\ tx[t].out = {SignOff(tx[t].row, committed[tx[t].row].expected)}

\* A submission that found a row found it open.
SettleRequest(t) ==
  \/ tx[t].op = "none" /\ tx[t].pc = "none"
  \/ /\ tx[t].op = "settle" /\ tx[t].pc \in {"expect", "save"}
     /\ \/ tx[t].row = Till
        \/ SettlementRow(tx[t].row) /\ tx[t].read.was.st \notin {"none", "APPROVED"}
  \/ tx[t].op = "signoff" /\ tx[t].pc \in {"claim", "commit"} /\ SettlementRow(tx[t].row)

SettleTypes ==
  /\ RowShape /\ RequestShape
  /\ \A s \in SettlementIds : IsSettlement(db[Settlement(s)]) /\ IsSettlement(committed[Settlement(s)])
  /\ \A r \in Rows : IF lock[r] = NoTxn THEN db[r] = committed[r]
                     ELSE Claiming(lock[r]) /\ tx[lock[r]].row = r
  /\ \A t \in Txns : SettleRequest(t) /\ (Claiming(t) => Claimed(t))

\* As long as nobody wrote from an old read, the branch has one row of the day,
\* and what is signed off of it is what it holds.
OneSettlement ==
  /\ \A s1, s2 \in Todays : s1 = s2
  /\ \A e \in SignOffs : /\ e.key \in SettlementIds
                         /\ committed[Settlement(e.key)].st = "APPROVED"
                         /\ committed[Settlement(e.key)].expected = e.amount
                         /\ log[e] = 1
  /\ \A e, f \in SignOffs : e = f

SettleInv == desk = "settlements" => SettleTypes /\ (raced = {} => OneSettlement)

LEMMA SettlementRowsApart ==
  ASSUME NEW s \in SettlementIds
  PROVE  /\ Settlement(s) \in Rows /\ Till \in Rows /\ Settlement(s) # Till /\ Settlement(s)[2] = s
         /\ \A n \in SettlementIds : Settlement(s) = Settlement(n) => s = n
<1>1. Settlement(s) \in Rows /\ Till \in Rows
  BY RowsAssumption DEF AllRows, SettlementRows
<1>2. <<"settlement", s>> # <<"till">> /\ <<"settlement", s>>[2] = s
  OBVIOUS
<1>3. \A n \in SettlementIds : <<"settlement", s>> = <<"settlement", n>> => s = n
  OBVIOUS
<1> QED BY <1>1, <1>2, <1>3 DEF Settlement, Till

LEMMA TillRow == Till \in Rows
BY RowsAssumption DEF AllRows, SettlementRows

LEMMA SettleInitInv == ASSUME Init PROVE SettleInv
<1>1. RowShape /\ RequestShape
  BY StartShape
<1>2. ASSUME NEW s \in SettlementIds
      PROVE  committed[Settlement(s)] = NoSettlement /\ db[Settlement(s)] = NoSettlement
  <2>1. Settlement(s) \in SettlementRows /\ Settlement(s) # Till /\ Settlement(s) \in Rows
    BY SettlementRowsApart DEF SettlementRows
  <2>2. db[Settlement(s)] = InitialOf(Settlement(s)) /\ committed[Settlement(s)] = InitialOf(Settlement(s))
    BY <2>1 DEF Init, ServiceInit, Initial
  <2> QED BY <2>1, <2>2, InitialRows DEF SettlementInitial
<1>3. \A t \in Txns : SettleRequest(t) /\ ~Claiming(t)
  BY DEF Init, ServiceInit, Idle, SettleRequest, Claiming
<1>4. \A r \in Rows : lock[r] = NoTxn /\ db[r] = committed[r]
  BY DEF Init, ServiceInit
<1>5. SettleTypes
  BY <1>1, <1>2, <1>3, <1>4 DEF SettleTypes, IsSettlement, NoSettlement
<1>6. OneSettlement
  BY <1>2 DEF OneSettlement, Todays, SignOffs, NoSettlement, Init, ServiceInit
<1> QED BY <1>5, <1>6 DEF SettleInv

\* What a step may do that neither starts nor ends a claim.
LEMMA SettleFrame ==
  ASSUME SettleTypes, RowShape', RequestShape',
         \A r \in Rows : \/ db'[r] = db[r] /\ committed'[r] = committed[r] /\ lock'[r] = lock[r]
                         \/ /\ lock[r] = NoTxn /\ lock'[r] = NoTxn /\ db'[r] = committed'[r]
                            /\ SettlementRow(r) => IsSettlement(db'[r]),
         \A t \in Txns : \/ tx'[t] = tx[t]
                         \/ ~Claiming(t) /\ ~Claiming(t)' /\ SettleRequest(t)'
  PROVE  SettleTypes'
<1>1. ASSUME NEW s \in SettlementIds
      PROVE  IsSettlement(db'[Settlement(s)]) /\ IsSettlement(committed'[Settlement(s)])
  BY SettlementRowsApart DEF SettleTypes, SettlementRow
<1>2. ASSUME NEW t \in Txns PROVE SettleRequest(t)'
  BY DEF SettleTypes, SettleRequest
<1>3. ASSUME NEW t \in Txns, Claiming(t)' PROVE Claimed(t)'
  <2>1. tx'[t] = tx[t] /\ Claimed(t) /\ t # NoTxn
    BY <1>3, RequestsAssumption DEF SettleTypes, Claiming
  <2>2. tx[t].row \in Rows
    BY <2>1, SettlementRowsApart DEF Claimed, SettlementRow
  <2>3. /\ db'[tx[t].row] = db[tx[t].row] /\ committed'[tx[t].row] = committed[tx[t].row]
        /\ lock'[tx[t].row] = lock[tx[t].row]
    BY <2>1, <2>2 DEF Claimed
  <2> QED BY <2>1, <2>3 DEF Claimed
<1>4. ASSUME NEW r \in Rows
      PROVE  IF lock'[r] = NoTxn THEN db'[r] = committed'[r]
             ELSE Claiming(lock[r])' /\ tx'[lock'[r]].row = r
  <2>1. CASE lock'[r] = NoTxn
    BY <2>1 DEF SettleTypes
  <2>2. CASE lock'[r] # NoTxn
    <3>1. lock'[r] = lock[r] /\ lock[r] \in Txns /\ Claiming(lock[r]) /\ tx[lock[r]].row = r
      BY <2>2 DEF SettleTypes, RowShape
    <3>2. tx'[lock[r]] = tx[lock[r]]
      BY <3>1
    <3> QED BY <2>2, <3>1, <3>2 DEF Claiming
  <2> QED BY <2>1, <2>2
<1> QED BY <1>1, <1>2, <1>3, <1>4 DEF SettleTypes

\* A step that only moves one request on, short of a claim.
LEMMA SettleMoves ==
  ASSUME SettleInv, desk = "settlements", NEW t \in Txns, UNCHANGED <<db, committed, lock, log>>,
         RequestShape', OthersWait(t), ~Claiming(t), ~Claiming(t)', SettleRequest(t)',
         raced \subseteq raced'
  PROVE  SettleInv'
<1>1. SettleTypes
  BY DEF SettleInv
<1>2. RowShape'
  BY <1>1, SameRows DEF SettleTypes
<1>3. SettleTypes'
  BY <1>1, <1>2, SettleFrame DEF OthersWait
<1>4. OneSettlement => OneSettlement'
  BY DEF OneSettlement, Todays, SignOffs
<1> QED BY <1>3, <1>4 DEF SettleInv

LEMMA SettleBegins ==
  ASSUME SettleInv, desk = "settlements", NEW t \in Txns,
         FindSettlement(t) \/ ReadSettlement(t)
  PROVE  SettleInv'
<1>1. RequestShape /\ \A s \in SettlementIds : Settlement(s) # Till
  BY SettlementRowsApart DEF SettleInv, SettleTypes
<1>2. CASE ReadSettlement(t)
  <2>1. PICK s \in Todays : Begin(t, "signoff", "claim", Settlement(s), NotRead)
    BY <1>2 DEF ReadSettlement
  <2>2. BeginBeside(t, "signoff", "claim", Settlement(s), NotRead, {}) /\ s \in SettlementIds
    BY <2>1 DEF Begin, Todays
  <2>3. /\ tx[t].op = "none" /\ tx'[t].op = "signoff" /\ tx'[t].pc = "claim"
        /\ tx'[t].row = Settlement(s) /\ OthersWait(t) /\ RequestShape'
    BY <1>1, <2>2, BeginDoes
  <2>4. UNCHANGED <<db, committed, lock, log>> /\ raced \subseteq raced'
    BY <2>2 DEF BeginBeside
  <2> QED BY <2>2, <2>3, <2>4, SettleMoves DEF Claiming, SettleRequest, SettlementRow
<1>3. CASE FindSettlement(t)
  <2>1. PICK row, was : /\ Begin(t, "settle", "expect", row, [was |-> was])
                        /\ \/ row = Till
                           \/ SettlementRow(row) /\ was.st \notin {"none", "APPROVED"}
    BY <1>3 DEF FindSettlement, Todays, SettlementRow
  <2>2. PICK read : read = [was |-> was]
    OBVIOUS
  <2>3. BeginBeside(t, "settle", "expect", row, read, {}) /\ read.was = was
    BY <2>1, <2>2 DEF Begin
  <2>4. /\ tx[t].op = "none" /\ tx'[t].op = "settle" /\ tx'[t].pc = "expect"
        /\ tx'[t].row = row /\ tx'[t].read = read /\ OthersWait(t) /\ RequestShape'
    BY <1>1, <2>3, BeginDoes
  <2>5. UNCHANGED <<db, committed, lock, log>> /\ raced \subseteq raced'
    BY <2>3 DEF BeginBeside
  <2>6. ~Claiming(t) /\ ~Claiming(t)' /\ SettleRequest(t)'
    BY <2>1, <2>3, <2>4 DEF Claiming, SettleRequest, SettlementRow
  <2> QED BY <2>4, <2>5, <2>6, SettleMoves
<1> QED BY <1>2, <1>3

LEMMA ExpectCashKeeps ==
  ASSUME SettleInv, desk = "settlements", NEW t \in Txns, ExpectCash(t)
  PROVE  SettleInv'
<1>1. RequestShape /\ SettleRequest(t) /\ tx[t].op = "settle" /\ tx[t].pc = "expect"
  BY DEF SettleInv, SettleTypes, ExpectCash, Doing
<1>2. PICK read : read = [was |-> tx[t].read.was, expected |-> committed[Till]]
  OBVIOUS
<1>3. read.was = tx[t].read.was
  BY <1>2
<1>4. Continue(t, "save", read, {})
  BY <1>2 DEF ExpectCash
<1>5. /\ tx'[t].op = "settle" /\ tx'[t].pc = "save" /\ tx'[t].row = tx[t].row /\ tx'[t].read = read
      /\ OthersWait(t) /\ RequestShape'
  BY <1>1, <1>4, ContinueDoes
<1>6. SettleRequest(t)' /\ ~Claiming(t) /\ ~Claiming(t)'
  BY <1>1, <1>3, <1>5 DEF SettleRequest, Claiming, SettlementRow
<1>7. UNCHANGED <<db, committed, lock, log>> /\ raced \subseteq raced'
  BY <1>4 DEF ExpectCash, Continue
<1> QED BY <1>5, <1>6, <1>7, SettleMoves

\* The till changes.
LEMMA CollectKeeps ==
  ASSUME SettleInv, desk = "settlements", Collect
  PROVE  SettleInv'
<1>1. SettleTypes /\ UNCHANGED <<tx, log, raced>>
  BY DEF SettleInv, Collect, Single
<1>2. PICK amount : Put(Till, committed[Till] + amount)
  BY DEF Collect
<1>3. /\ lock[Till] = NoTxn /\ lock' = lock /\ db'[Till] = committed'[Till]
      /\ \A r \in Rows \ {Till} : db'[r] = db[r] /\ committed'[r] = committed[r]
      /\ RowShape'
  BY <1>1, <1>2, TillRow, PutDoes DEF SettleTypes
<1>4. RequestShape' /\ \A t \in Txns : tx'[t] = tx[t]
  BY <1>1, SameRequests DEF SettleTypes
<1>5. SettleTypes'
  BY <1>1, <1>3, <1>4, SettlementRowsApart, SettleFrame DEF SettlementRow
<1>6. \A s \in SettlementIds : committed'[Settlement(s)] = committed[Settlement(s)]
  BY <1>3, SettlementRowsApart
<1>7. OneSettlement => OneSettlement'
  BY <1>1, <1>6 DEF OneSettlement, Todays, SignOffs
<1> QED BY <1>1, <1>5, <1>7 DEF SettleInv

\* What both ways of saving a settlement have in common.
LEMMA SettleSaves ==
  ASSUME SettleInv, desk = "settlements", NEW t \in Txns, NEW s \in SettlementIds,
         Doing(t, "settle", "save"), Put(Settlement(s), Saved(t)), Finish(t), UNCHANGED log,
         raced' = {} =>
           raced = {} /\ (Todays = {} \/ committed[Settlement(s)].st \notin {"none", "APPROVED"})
  PROVE  SettleInv'
<1>1. SettleTypes /\ ~Claiming(t)
  BY DEF SettleInv, Doing, Claiming
<1>2. PICK value : value = Saved(t)
  OBVIOUS
<1>3. value.st = "PENDING" /\ IsSettlement(value)
  BY <1>2 DEF Saved, IsSettlement
<1>4. /\ lock[Settlement(s)] = NoTxn /\ lock' = lock
      /\ db'[Settlement(s)] = value /\ committed'[Settlement(s)] = value
      /\ \A r \in Rows \ {Settlement(s)} : db'[r] = db[r] /\ committed'[r] = committed[r]
      /\ RowShape'
  BY <1>1, <1>2, SettlementRowsApart, PutDoes DEF SettleTypes
<1>5. tx'[t].op = "none" /\ tx'[t].pc = "none" /\ OthersWait(t) /\ RequestShape'
  BY <1>1, FinishDoes DEF Finish, SettleTypes
<1>6. ~Claiming(t)' /\ SettleRequest(t)'
  BY <1>5 DEF Claiming, SettleRequest
<1>7. SettleTypes'
  BY <1>1, <1>3, <1>4, <1>5, <1>6, SettleFrame DEF OthersWait
<1>8. ASSUME raced' = {} PROVE OneSettlement'
  <2>1. OneSettlement
    BY <1>8 DEF SettleInv
  <2>2. \A n \in SettlementIds \ {s} : committed'[Settlement(n)] = committed[Settlement(n)]
    BY <1>4, SettlementRowsApart
  <2>3. CASE Todays = {}
    <3>1. SignOffs = {}
      BY <2>1, <2>3 DEF OneSettlement, Todays
    <3>2. \A n \in Todays' : n = s
      BY <2>2, <2>3 DEF Todays
    <3>3. SignOffs' = {}
      BY <3>1 DEF SignOffs
    <3> QED BY <3>2, <3>3 DEF OneSettlement
  <2>4. CASE committed[Settlement(s)].st \notin {"none", "APPROVED"}
    <3>1. Todays' = Todays
      BY <1>3, <1>4, <2>2, <2>4 DEF Todays
    <3>2. \A e \in SignOffs : e.key # s
      BY <2>1, <2>4 DEF OneSettlement
    <3> QED BY <2>1, <2>2, <3>1, <3>2 DEF OneSettlement, SignOffs
  <2> QED BY <1>8, <2>3, <2>4
<1>9. desk' = desk
  BY DEF Finish
<1> QED BY <1>7, <1>8, <1>9 DEF SettleInv

LEMMA ResubmitKeeps ==
  ASSUME SettleInv, desk = "settlements", NEW t \in Txns, Resubmit(t)
  PROVE  SettleInv'
<1>1. PICK s \in SettlementIds : tx[t].row = Settlement(s)
  BY DEF SettleInv, SettleTypes, SettleRequest, Resubmit, Doing, SettlementRow
<1>2. tx[t].read.was.st \notin {"none", "APPROVED"}
  BY <1>1, SettlementRowsApart DEF SettleInv, SettleTypes, SettleRequest, Resubmit, Doing
<1>3. /\ Doing(t, "settle", "save") /\ Put(Settlement(s), Saved(t)) /\ Finish(t) /\ UNCHANGED log
      /\ Races(Settlement(s), tx[t].read.was)
  BY <1>1 DEF Resubmit
<1>4. lock[Settlement(s)] = NoTxn
  BY <1>3 DEF Put
<1>5. db[Settlement(s)] = committed[Settlement(s)]
  BY <1>4, SettlementRowsApart DEF SettleInv, SettleTypes
<1>6. raced' = {} => raced = {} /\ committed[Settlement(s)] = tx[t].read.was
  BY <1>3, <1>5 DEF Races
<1> QED BY <1>2, <1>3, <1>6, SettleSaves

LEMMA CreateSettlementKeeps ==
  ASSUME SettleInv, desk = "settlements", NEW t \in Txns, CreateSettlement(t)
  PROVE  SettleInv'
<1>1. PICK s \in SettlementIds :
        /\ Doing(t, "settle", "save") /\ Put(Settlement(s), Saved(t)) /\ Finish(t) /\ UNCHANGED log
        /\ raced' = IF Todays = {} THEN raced ELSE raced \union {Till}
  BY DEF CreateSettlement, FreshId
<1>2. raced' = {} => raced = {} /\ Todays = {}
  BY <1>1
<1> QED BY <1>1, <1>2, SettleSaves

\* A request that gives up leaves the committed rows as they are.
LEMMA SettleGivesUp ==
  ASSUME SettleInv, desk = "settlements", NEW t \in Txns, UndoWrites(t), Finish(t),
         UNCHANGED <<log, raced>>
  PROVE  SettleInv'
<1>1. SettleTypes /\ t # NoTxn /\ desk' = desk
  BY RequestsAssumption DEF SettleInv, Finish
<1>2. /\ committed' = committed /\ RowShape'
      /\ \A r \in Rows : lock[r] = t => db'[r] = committed[r] /\ lock'[r] = NoTxn
      /\ \A r \in Rows : lock[r] # t => db'[r] = db[r] /\ lock'[r] = lock[r]
  BY <1>1, UndoDoes DEF SettleTypes
<1>3. tx'[t].op = "none" /\ tx'[t].pc = "none" /\ OthersWait(t) /\ RequestShape'
  BY <1>1, FinishDoes DEF Finish, SettleTypes
<1>4. SettleTypes'
  <2>1. ASSUME NEW s \in SettlementIds
        PROVE  IsSettlement(db'[Settlement(s)]) /\ IsSettlement(committed'[Settlement(s)])
    BY <1>1, <1>2, SettlementRowsApart DEF SettleTypes
  <2>2. ASSUME NEW r \in Rows
        PROVE  IF lock'[r] = NoTxn THEN db'[r] = committed'[r]
               ELSE Claiming(lock[r])' /\ tx'[lock'[r]].row = r
    <3>1. CASE lock[r] = t
      BY <1>2, <3>1
    <3>2. CASE lock[r] # t
      <4>1. lock[r] \in Txns \union {NoTxn}
        BY <1>1 DEF SettleTypes, RowShape
      <4> QED BY <1>1, <1>2, <1>3, <3>2, <4>1 DEF SettleTypes, OthersWait, Claiming
    <3> QED BY <3>1, <3>2
  <2>3. ASSUME NEW u \in Txns PROVE SettleRequest(u)'
    BY <1>1, <1>3 DEF SettleTypes, SettleRequest, OthersWait
  <2>4. ASSUME NEW u \in Txns, Claiming(u)' PROVE Claimed(u)'
    <3>1. u # t /\ tx'[u] = tx[u] /\ Claimed(u)
      BY <1>1, <1>3, <2>4 DEF SettleTypes, Claiming, OthersWait
    <3>2. tx[u].row \in Rows
      BY <3>1, SettlementRowsApart DEF Claimed, SettlementRow
    <3> QED BY <1>2, <3>1, <3>2 DEF Claimed
  <2> QED BY <1>2, <1>3, <2>1, <2>2, <2>3, <2>4 DEF SettleTypes
<1>5. OneSettlement => OneSettlement'
  BY <1>2 DEF OneSettlement, Todays, SignOffs
<1> QED BY <1>1, <1>4, <1>5 DEF SettleInv

LEMMA ClaimPendingKeeps ==
  ASSUME SettleInv, desk = "settlements", NEW t \in Txns, ClaimPending(t)
  PROVE  SettleInv'
<1>1. SettleTypes /\ t # NoTxn /\ tx[t].op = "signoff" /\ tx[t].pc = "claim"
  BY RequestsAssumption DEF SettleInv, ClaimPending, Doing
<1>2. PICK s \in SettlementIds : tx[t].row = Settlement(s)
  BY <1>1 DEF SettleTypes, SettleRequest, SettlementRow
<1>3. lock[Settlement(s)] = NoTxn /\ db[Settlement(s)] = committed[Settlement(s)]
  <2>1. lock[Settlement(s)] # t
    BY <1>1, SettlementRowsApart DEF SettleTypes, Claiming
  <2> QED BY <1>1, <1>2, <2>1, SettlementRowsApart DEF ClaimPending, MayWrite, SettleTypes
<1>4. CASE Throw(t)
  BY <1>4, SettleGivesUp DEF Throw
<1>5. CASE ~Throw(t)
  <2>1. PICK value : value = [db[Settlement(s)] EXCEPT !.st = "APPROVED"]
    OBVIOUS
  <2>2. PICK out : out = {[kind |-> "signoff", key |-> Settlement(s)[2],
                           amount |-> db[Settlement(s)].expected]}
    OBVIOUS
  <2>3. /\ committed[Settlement(s)].st = "PENDING"
        /\ Write(t, Settlement(s), value) /\ Continue(t, "commit", NotRead, out)
        /\ UNCHANGED raced
    BY <1>2, <1>3, <1>5, <2>1, <2>2 DEF ClaimPending
  <2>4. /\ value.st = "APPROVED" /\ value.expected = committed[Settlement(s)].expected
        /\ IsSettlement(value)
    <3>1. PICK was : was = committed[Settlement(s)]
      OBVIOUS
    <3>2. was = [st |-> was.st, expected |-> was.expected]
      BY <1>1, <3>1 DEF SettleTypes, IsSettlement
    <3>3. value = [was EXCEPT !.st = "APPROVED"]
      BY <1>3, <2>1, <3>1
    <3>4. value = [st |-> "APPROVED", expected |-> was.expected]
      BY <3>2, <3>3
    <3> QED BY <3>1, <3>4 DEF IsSettlement
  <2>5. UNCHANGED <<committed, log, desk>>
    BY <2>3 DEF Continue
  <2>6. /\ lock'[Settlement(s)] = t /\ db'[Settlement(s)] = value
        /\ \A r \in Rows \ {Settlement(s)} : db'[r] = db[r] /\ lock'[r] = lock[r]
        /\ RowShape'
    BY <1>1, <2>3, <2>5, SettlementRowsApart, WriteDoes DEF SettleTypes
  <2>7. /\ tx'[t].op = "signoff" /\ tx'[t].pc = "commit" /\ tx'[t].row = Settlement(s)
        /\ tx'[t].out = out /\ OthersWait(t) /\ RequestShape'
    BY <1>1, <1>2, <2>3, ContinueDoes DEF SettleTypes
  <2>8. Claimed(t)'
    <3>1. out = {SignOff(Settlement(s), committed[Settlement(s)].expected)}
      BY <1>3, <2>2 DEF SignOff
    <3> QED BY <2>3, <2>4, <2>5, <2>6, <2>7, <3>1 DEF Claimed, SettlementRow
  <2>9. SettleTypes'
    <3>1. ASSUME NEW n \in SettlementIds
          PROVE  IsSettlement(db'[Settlement(n)]) /\ IsSettlement(committed'[Settlement(n)])
      BY <1>1, <2>4, <2>5, <2>6, SettlementRowsApart DEF SettleTypes
    <3>2. ASSUME NEW r \in Rows
          PROVE  IF lock'[r] = NoTxn THEN db'[r] = committed'[r]
                 ELSE Claiming(lock[r])' /\ tx'[lock'[r]].row = r
      <4>1. CASE r = Settlement(s)
        BY <1>1, <2>6, <2>7, <4>1 DEF Claiming
      <4>2. CASE r # Settlement(s)
        <5>1. lock[r] \in Txns \union {NoTxn} /\ lock[r] # t
          BY <1>1 DEF SettleTypes, RowShape, Claiming
        <5> QED BY <1>1, <2>5, <2>6, <2>7, <4>2, <5>1 DEF SettleTypes, OthersWait, Claiming
      <4> QED BY <4>1, <4>2
    <3>3. ASSUME NEW u \in Txns PROVE SettleRequest(u)' /\ (Claiming(u)' => Claimed(u)')
      <4>1. CASE u = t
        BY <2>7, <2>8, <4>1 DEF SettleRequest, SettlementRow
      <4>2. CASE u # t
        <5>1. tx'[u] = tx[u] /\ SettleRequest(u)'
          BY <1>1, <2>7, <4>2 DEF SettleTypes, OthersWait, SettleRequest
        <5>2. ASSUME Claiming(u)' PROVE Claimed(u)'
          <6>1. Claimed(u)
            BY <1>1, <5>1, <5>2 DEF SettleTypes, Claiming
          <6>2. tx[u].row \in Rows /\ tx[u].row # Settlement(s)
            BY <1>3, <6>1, SettlementRowsApart, RequestsAssumption DEF Claimed, SettlementRow
          <6> QED BY <2>5, <2>6, <5>1, <6>1, <6>2 DEF Claimed
        <5> QED BY <5>1, <5>2
      <4> QED BY <4>1, <4>2
    <3> QED BY <2>6, <2>7, <3>1, <3>2, <3>3 DEF SettleTypes
  <2>10. OneSettlement => OneSettlement'
    BY <2>5 DEF OneSettlement, Todays, SignOffs
  <2> QED BY <2>3, <2>5, <2>9, <2>10 DEF SettleInv
<1> QED BY <1>4, <1>5

\* The row signed off was pending, and the only one: nothing was signed off before.
LEMMA SignOffCommits ==
  ASSUME SettleInv, desk = "settlements", NEW t \in Txns, Commit(t)
  PROVE  SettleInv'
<1>1. SettleTypes /\ t # NoTxn /\ tx[t].pc = "commit" /\ desk' = desk /\ raced' = raced
  BY RequestsAssumption DEF SettleInv, Commit, Finish
<1>2. Claiming(t) /\ Claimed(t)
  BY <1>1 DEF SettleTypes, SettleRequest, Claiming
<1>3. PICK s \in SettlementIds : tx[t].row = Settlement(s)
  BY <1>2 DEF Claimed, SettlementRow
<1>4. \A r \in Rows : lock[r] = t <=> r = Settlement(s)
  BY <1>1, <1>2, <1>3 DEF SettleTypes, Claimed
<1>5. /\ db' = db /\ RowShape'
      /\ committed'[Settlement(s)] = db[Settlement(s)] /\ lock'[Settlement(s)] = NoTxn
      /\ \A r \in Rows \ {Settlement(s)} : committed'[r] = committed[r] /\ lock'[r] = lock[r]
  BY <1>1, <1>4, SettlementRowsApart, KeepDoes DEF SettleTypes, Commit
<1>6. tx'[t].op = "none" /\ tx'[t].pc = "none" /\ OthersWait(t) /\ RequestShape'
  BY <1>1, FinishDoes DEF Commit, Finish, SettleTypes
<1>7. SettleTypes'
  <2>1. ASSUME NEW n \in SettlementIds
        PROVE  IsSettlement(db'[Settlement(n)]) /\ IsSettlement(committed'[Settlement(n)])
    BY <1>1, <1>5, SettlementRowsApart DEF SettleTypes
  <2>2. ASSUME NEW r \in Rows
        PROVE  IF lock'[r] = NoTxn THEN db'[r] = committed'[r]
               ELSE Claiming(lock[r])' /\ tx'[lock'[r]].row = r
    <3>1. CASE r = Settlement(s)
      BY <1>5, <3>1
    <3>2. CASE r # Settlement(s)
      <4>1. lock[r] \in Txns \union {NoTxn} /\ lock[r] # t
        BY <1>1, <1>4, <3>2 DEF SettleTypes, RowShape
      <4> QED BY <1>1, <1>5, <1>6, <3>2, <4>1 DEF SettleTypes, OthersWait, Claiming
    <3> QED BY <3>1, <3>2
  <2>3. ASSUME NEW u \in Txns PROVE SettleRequest(u)' /\ (Claiming(u)' => Claimed(u)')
    <3>1. CASE u = t
      BY <1>6, <3>1 DEF SettleRequest, Claiming
    <3>2. CASE u # t
      <4>1. tx'[u] = tx[u] /\ SettleRequest(u)'
        BY <1>1, <1>6, <3>2 DEF SettleTypes, OthersWait, SettleRequest
      <4>2. ASSUME Claiming(u)' PROVE Claimed(u)'
        <5>1. Claimed(u)
          BY <1>1, <4>1, <4>2 DEF SettleTypes, Claiming
        <5>2. tx[u].row \in Rows /\ tx[u].row # Settlement(s)
          BY <1>2, <1>3, <3>2, <5>1, SettlementRowsApart DEF Claimed, SettlementRow
        <5> QED BY <1>5, <4>1, <5>1, <5>2 DEF Claimed
      <4> QED BY <4>1, <4>2
    <3> QED BY <3>1, <3>2
  <2> QED BY <1>5, <1>6, <2>1, <2>2, <2>3 DEF SettleTypes
<1>8. ASSUME raced = {} PROVE OneSettlement'
  <2>1. OneSettlement /\ s \in Todays
    BY <1>2, <1>3, <1>8 DEF SettleInv, Claimed, Todays
  <2>2. SignOffs = {}
    <3> SUFFICES ASSUME NEW e \in SignOffs PROVE FALSE
      OBVIOUS
    <3>1. e.key \in SettlementIds /\ committed[Settlement(e.key)].st = "APPROVED"
      BY <2>1 DEF OneSettlement
    <3>2. e.key = s
      BY <2>1, <3>1 DEF OneSettlement, Todays
    <3> QED BY <1>2, <1>3, <3>1, <3>2 DEF Claimed
  <2>3. PICK entry : entry = SignOff(Settlement(s), committed[Settlement(s)].expected)
    OBVIOUS
  <2>4. /\ entry.kind = "signoff" /\ entry.key = s
        /\ entry.amount = committed[Settlement(s)].expected
    BY <2>3, SettlementRowsApart DEF SignOff
  <2>5. tx[t].out = {entry}
    BY <1>2, <1>3, <2>3 DEF Claimed
  <2>6. entry \notin DOMAIN log
    BY <2>2, <2>4 DEF SignOffs
  <2>7. /\ DOMAIN log' = DOMAIN log \union {entry} /\ log'[entry] = 1
    BY <2>5, <2>6 DEF Commit, Logged, Times
  <2>8. SignOffs' = {entry}
    BY <2>2, <2>4, <2>7 DEF SignOffs
  <2>9. Todays' = Todays
    BY <1>2, <1>3, <1>5, SettlementRowsApart DEF Todays, Claimed
  <2>10. committed'[Settlement(s)].st = "APPROVED" /\ committed'[Settlement(s)].expected = entry.amount
    BY <1>2, <1>3, <1>5, <2>4 DEF Claimed
  <2> QED BY <2>1, <2>4, <2>7, <2>8, <2>9, <2>10 DEF OneSettlement
<1> QED BY <1>1, <1>7, <1>8 DEF SettleInv

LEMMA SettleSame == ASSUME SettleInv, UNCHANGED serviceVars PROVE SettleInv'
<1>1. ASSUME desk = "settlements" PROVE SettleTypes'
  <2>1. SettleTypes /\ RowShape' /\ RequestShape' /\ \A t \in Txns : tx'[t] = tx[t]
    BY <1>1, SameRows, SameRequests DEF SettleInv, SettleTypes, serviceVars
  <2> QED BY <2>1, SettleFrame DEF serviceVars
<1>2. OneSettlement => OneSettlement'
  BY DEF OneSettlement, Todays, SignOffs, serviceVars
<1> QED BY <1>1, <1>2 DEF SettleInv, serviceVars

LEMMA SettleNext == ASSUME SettleInv, [Next]_serviceVars PROVE SettleInv'
<1>1. CASE UNCHANGED serviceVars
  BY <1>1, SettleSame
<1>2. CASE desk # "settlements"
  BY <1>2, DeskStays DEF SettleInv
<1>3. CASE desk = "settlements" /\ Next
  <2>1. ASSUME NEW t \in Txns, Abort(t, Lost(t)) PROVE SettleInv'
    <3>1. Lost(t) = {}
      BY <1>3, <2>1 DEF SettleInv, SettleTypes, SettleRequest, Abort, Lost
    <3> QED BY <1>3, <2>1, <3>1, SettleGivesUp DEF Abort
  <2>2. \/ Collect
        \/ \E t \in Txns : SettlementStep(t)
        \/ \E t \in Txns : Commit(t) \/ Abort(t, Lost(t))
    BY <1>3 DEF Next, SettlementNext
  <2> QED BY <1>3, <2>1, <2>2, CollectKeeps, SettleBegins, ExpectCashKeeps, ResubmitKeeps,
            CreateSettlementKeeps, ClaimPendingKeeps, SignOffCommits DEF SettlementStep
<1> QED BY <1>1, <1>2, <1>3

LEMMA SettleEnough == ASSUME SettleInv PROVE SettledOnce
<1> SUFFICES ASSUME desk = "settlements", raced = {}
             PROVE  /\ SumFunctionOnSet(log, SignOffs) <= 1
                    /\ \A e \in SignOffs :
                         committed[Settlement(e.key)] = [st |-> "APPROVED", expected |-> e.amount]
  BY DEF SettledOnce
<1>1. OneSettlement
  BY DEF SettleInv
<1>2. SumFunctionOnSet(log, SignOffs) <= 1
  <2>1. CASE SignOffs = {}
    BY <2>1, SumEmpty
  <2>2. CASE SignOffs # {}
    <3>1. PICK e : SignOffs = {e}
      BY <1>1, <2>2 DEF OneSettlement
    <3>2. log[e] = 1 /\ IsFiniteSet({e}) /\ {e} \ {e} = {}
      BY <1>1, <3>1, FS_Singleton DEF OneSettlement
    <3>3. SumFunctionOnSet(log, {e}) = log[e] + SumFunctionOnSet(log, {e} \ {e})
      BY <3>2, SumRemove
    <3> QED BY <3>1, <3>2, <3>3, SumEmpty
  <2> QED BY <2>1, <2>2
<1>3. ASSUME NEW e \in SignOffs
      PROVE  committed[Settlement(e.key)] = [st |-> "APPROVED", expected |-> e.amount]
  <2>1. PICK x : x = committed[Settlement(e.key)]
    OBVIOUS
  <2>2. x = [st |-> x.st, expected |-> x.expected] /\ x.st = "APPROVED" /\ x.expected = e.amount
    BY <1>1, <2>1 DEF OneSettlement, SettleInv, SettleTypes, IsSettlement
  <2> QED BY <2>1, <2>2
<1> QED BY <1>2, <1>3

\* However collections, submissions and approvals interleave, abort or crash, for all
\* settlement ids and any number of requests: a day is signed off once, and the row
\* holds what was signed off, as long as no submission was written from an old read.
THEOREM SettledOnceHolds == Spec => []SettledOnce
<1>1. Init => SettleInv
  BY SettleInitInv
<1>2. SettleInv /\ [Next]_serviceVars => SettleInv'
  BY SettleNext
<1>3. SettleInv => SettledOnce
  BY SettleEnough
<1> QED BY <1>1, <1>2, <1>3, PTL DEF Spec

-------------------------------------------------------------------------------
(* Automatic purchase orders.                                              *)

Undecided == {"DRAFT", "PENDING"}

\* What a listener's transaction holds: the order it creates, the item it appends.
Holds(t, r) ==
  /\ tx[t].op = "reorder"
  /\ \/ /\ tx[t].pc \in {"append", "publish"}
        /\ \E p \in POs : r = PO(p)
        /\ committed[r] = "none" /\ db[r] = "DRAFT"
     \/ /\ tx[t].pc = "publish"
        /\ \E p \in tx[t].read.onto : r = Item(p, tx[t].row[2])

IsView(read) == read = [by |-> read.by, onto |-> read.onto, seen |-> read.seen]

\* A listener past its snapshot appends to an order that exists or is its own,
\* and inserts under its own ticket.
Ordering(t) ==
  /\ IsView(tx[t].read)
  /\ tx[t].read.seen \subseteq DOMAIN log
  /\ \A e \in tx[t].out : e.kind = "reorder" => e.key = tx[t].row[2] /\ e.amount = tx[t].read.by
  /\ tx[t].pc # "create" =>
       /\ tx[t].read.onto \subseteq POs
       /\ \A p \in tx[t].read.onto : committed[PO(p)] # "none" \/ lock[PO(p)] = t
  /\ tx[t].pc = "publish" => \E e \in tx[t].out : e.kind = "reorder"

Deciding(t) == tx[t].op = "reorder" /\ tx[t].pc \in {"create", "append", "publish"}

ReorderRequest(t) ==
  \/ tx[t].op = "none" /\ tx[t].pc = "none"
  \/ /\ tx[t].op = "reorder" /\ tx[t].pc \in {"stock", "snapshot", "create", "append", "publish"}
     /\ \E i \in Supplies : tx[t].row = Supply(i)
     /\ tx[t].read.by \in Nat /\ tx[t].read.by < begun
     /\ Deciding(t) => Ordering(t)
  \/ /\ tx[t].op \in {"submit", "approvepo", "reject"} /\ tx[t].pc = "setpo"
     /\ \E p \in POs : tx[t].row = PO(p)
     /\ tx[t].read.st \in Undecided

\* A transaction appends to one order.
OneAppended == \A p, q \in POs, i, j \in Supplies :
  lock[Item(p, i)] # NoTxn /\ lock[Item(p, i)] = lock[Item(q, j)] => p = q

ReorderTypes ==
  /\ RowShape /\ RequestShape /\ begun \in Nat
  /\ OneAppended
  /\ \A r \in Rows : IF lock[r] = NoTxn THEN db[r] = committed[r] ELSE Holds(lock[r], r)
  /\ \A t \in Txns : ReorderRequest(t)
  /\ \A p \in POs : committed[PO(p)] = "none" => \A i \in Supplies : ~committed[Item(p, i)]

\* No two listeners, past or present, have the same ticket.
Tickets ==
  /\ \A e \in DOMAIN log : e.kind = "reorder" =>
       e.amount \in Nat /\ e.amount < begun /\ \A t \in Txns :
         tx[t].op = "reorder" => tx[t].read.by # e.amount
  /\ \A t, u \in Txns : t # u /\ tx[t].op = "reorder" /\ tx[u].op = "reorder" =>
       tx[t].read.by # tx[u].read.by

\* If an order lists the ingredient that a listener did not see on any, the entry
\* of the listener that put it there is one it did not see either.
Noticed(t) == OrdersListing(tx[t].row[2]) # {} =>
  \E e \in DOMAIN log \ tx[t].read.seen : e.kind = "reorder" /\ e.key = tx[t].row[2]

ListedOnce == \A i \in Supplies : \A p, q \in OrdersListing(i) : p = q

ReorderInv == desk = "reordering" =>
  /\ ReorderTypes /\ Tickets /\ ListedOnce
  /\ \A t \in Txns : Deciding(t) => Noticed(t)

LEMMA ReorderRowsApart ==
  ASSUME NEW p \in POs, NEW i \in Supplies
  PROVE  /\ Item(p, i) \in Rows
         /\ Item(p, i) # Supply(i)
         /\ \A q \in POs : Item(p, i) # PO(q)
         /\ \A j \in Supplies : Item(p, i) # Supply(j)
         /\ \A q, j : Item(p, i) = Item(q, j) => p = q /\ i = j
<1>1. Item(p, i) \in Rows
  BY RowsAssumption DEF AllRows, ReorderRows
<1>2. <<"item", p, i>>[1] = "item"
  OBVIOUS
<1>3. \A j : <<"supply", j>>[1] = "supply" /\ <<"po", j>>[1] = "po"
  OBVIOUS
<1>4. \A q, j : <<"item", p, i>> = <<"item", q, j>> => p = q /\ i = j
  OBVIOUS
<1> QED BY <1>1, <1>2, <1>3, <1>4 DEF Item, Supply, PO

LEMMA SupplyRow ==
  ASSUME NEW i \in Supplies
  PROVE  /\ Supply(i) \in Rows /\ Supply(i)[2] = i
         /\ \A j : Supply(i) = Supply(j) => i = j
         /\ \A p : Supply(i) # PO(p)
<1>1. Supply(i) \in Rows
  BY RowsAssumption DEF AllRows, ReorderRows
<1>2. <<"supply", i>>[2] = i /\ <<"supply", i>>[1] = "supply" /\ \A p : <<"po", p>>[1] = "po"
  OBVIOUS
<1>3. \A j : <<"supply", i>> = <<"supply", j>> => i = j
  OBVIOUS
<1> QED BY <1>1, <1>2, <1>3 DEF Supply, PO

LEMMA PORow ==
  ASSUME NEW p \in POs
  PROVE  PO(p) \in Rows /\ \A q : PO(p) = PO(q) => p = q
<1>1. PO(p) \in Rows
  BY RowsAssumption DEF AllRows, ReorderRows
<1>2. \A q : <<"po", p>> = <<"po", q>> => p = q
  OBVIOUS
<1> QED BY <1>1, <1>2 DEF PO

LEMMA ReorderInitInv == ASSUME Init PROVE ReorderInv
<1>1. RowShape /\ RequestShape /\ begun = 0
  BY StartShape DEF Init, ServiceInit
<1>2. \A t \in Txns : ReorderRequest(t) /\ tx[t].op = "none"
  BY DEF Init, ServiceInit, Idle, ReorderRequest
<1>3. ASSUME NEW p \in POs PROVE committed[PO(p)] = "none"
  <2>1. PO(p) \in ReorderRows /\ PO(p) \in Rows
    BY PORow DEF ReorderRows
  <2>2. ReorderInitial(PO(p)) = "none"
    BY DEF ReorderInitial, PO
  <2> QED BY <2>1, <2>2, InitialRows DEF Init, ServiceInit, Initial
<1>4. ASSUME NEW p \in POs, NEW i \in Supplies PROVE ~committed[Item(p, i)]
  <2>1. Item(p, i) \in ReorderRows /\ Item(p, i) \in Rows
    BY ReorderRowsApart DEF ReorderRows
  <2>2. ReorderInitial(Item(p, i)) = FALSE
    BY DEF ReorderInitial, Item
  <2> QED BY <2>1, <2>2, InitialRows DEF Init, ServiceInit, Initial
<1>5. ReorderTypes
  <2>1. OneAppended /\ \A r \in Rows : lock[r] = NoTxn /\ db[r] = committed[r]
    BY ReorderRowsApart DEF Init, ServiceInit, OneAppended
  <2> QED BY <1>1, <1>2, <1>3, <1>4, <2>1 DEF ReorderTypes
<1>6. Tickets /\ ListedOnce /\ \A t \in Txns : ~Deciding(t)
  BY <1>2, <1>3 DEF Tickets, ListedOnce, OrdersListing, Deciding, Init, ServiceInit
<1> QED BY <1>5, <1>6 DEF ReorderInv

\* Rows that nobody holds and that list nothing new.
LEMMA ListingShrinks ==
  ASSUME raced \subseteq raced',
         \A p \in POs : /\ \A i \in Supplies : committed'[Item(p, i)] = committed[Item(p, i)]
                        /\ committed'[PO(p)] \in Undecided =>
                             committed[PO(p)] \in Undecided \/ PO(p) \in raced'
  PROVE  \A i \in Supplies : OrdersListing(i)' \subseteq OrdersListing(i)
BY DEF OrdersListing, Undecided

\* A step of one request that writes no row of an order but a status from which
\* the order was undecided already, and of which others hold nothing.
LEMMA ReorderFrame ==
  ASSUME ReorderInv, desk = "reordering", desk' = desk, NEW t, \A u \in Txns : u # t => tx'[u] = tx[u],
         RowShape', RequestShape', log' = log, raced \subseteq raced',
         begun' = begun \/ begun' = begun + 1,
         \A r \in Rows :
           \/ db'[r] = db[r] /\ committed'[r] = committed[r] /\ lock'[r] = lock[r]
           \/ /\ lock[r] = NoTxn /\ lock'[r] = NoTxn /\ db'[r] = committed'[r]
              /\ \/ \E i \in Supplies : r = Supply(i)
                 \/ /\ \E p \in POs : r = PO(p)
                    /\ committed'[r] # "none"
                    /\ committed'[r] \in Undecided => committed[r] \in Undecided \/ r \in raced',
         t \in Txns =>
           /\ \A r \in Rows : lock[r] # t
           /\ ReorderRequest(t)'
           /\ tx'[t].op = "reorder" =>
                IF tx[t].op = "reorder" THEN tx'[t].read.by = tx[t].read.by
                                        ELSE begun' = begun + 1 /\ tx'[t].read.by = begun
           /\ Deciding(t)' => Noticed(t)'
  PROVE  ReorderInv'
<1>1. ReorderTypes /\ Tickets /\ ListedOnce /\ \A u \in Txns : Deciding(u) => Noticed(u)
  BY DEF ReorderInv
<1>2. begun \in Nat /\ begun' \in Nat /\ begun <= begun'
  BY <1>1 DEF ReorderTypes
<1>3. ASSUME NEW p \in POs, NEW i \in Supplies
      PROVE  committed'[Item(p, i)] = committed[Item(p, i)]
  BY ReorderRowsApart
<1>4. ASSUME NEW p \in POs
      PROVE  /\ committed'[PO(p)] = "none" => committed[PO(p)] = "none"
             /\ committed[PO(p)] # "none" => committed'[PO(p)] # "none"
             /\ committed'[PO(p)] \in Undecided => committed[PO(p)] \in Undecided \/ PO(p) \in raced'
  <2>1. PO(p) \in Rows /\ \A i \in Supplies : PO(p) # Supply(i)
    BY PORow, SupplyRow
  <2>2. \/ committed'[PO(p)] = committed[PO(p)]
        \/ /\ lock[PO(p)] = NoTxn
           /\ committed'[PO(p)] # "none"
           /\ committed'[PO(p)] \in Undecided => committed[PO(p)] \in Undecided \/ PO(p) \in raced'
    BY <2>1
  <2>3. committed'[PO(p)] = "none" => committed[PO(p)] = "none"
    BY <2>2
  <2>4. committed'[PO(p)] \in Undecided => committed[PO(p)] \in Undecided \/ PO(p) \in raced'
    BY <2>2
  <2>5. committed[PO(p)] # "none" => committed'[PO(p)] # "none"
    BY <2>2
  <2> QED BY <2>3, <2>4, <2>5
<1>5. \A i \in Supplies : OrdersListing(i)' \subseteq OrdersListing(i)
  BY <1>3, <1>4, ListingShrinks
<1>6. ASSUME NEW u \in Txns, u # t PROVE ReorderRequest(u)' /\ (Deciding(u)' => Noticed(u)')
  <2>1. tx'[u] = tx[u] /\ ReorderRequest(u)
    BY <1>1, <1>6 DEF ReorderTypes
  <2>2. ASSUME Deciding(u) PROVE Ordering(u)'
    <3>1. Ordering(u)
      BY <2>1, <2>2 DEF ReorderRequest, Deciding
    <3>2. ASSUME NEW p \in tx[u].read.onto, tx[u].pc # "create"
          PROVE  committed'[PO(p)] # "none" \/ lock'[PO(p)] = u
      <4>1. p \in POs /\ (committed[PO(p)] # "none" \/ lock[PO(p)] = u)
        BY <3>1, <3>2 DEF Ordering
      <4>2. lock[PO(p)] = u => lock'[PO(p)] = u
        BY <4>1, PORow, RequestsAssumption
      <4> QED BY <1>4, <4>1, <4>2
    <3> QED BY <2>1, <3>1, <3>2 DEF Ordering
  <2>3. ReorderRequest(u)'
    BY <1>2, <2>1, <2>2 DEF ReorderRequest, Deciding
  <2>4. ASSUME Deciding(u)' PROVE Noticed(u)'
    <3>1. Noticed(u) /\ \E i \in Supplies : tx[u].row = Supply(i)
      BY <1>1, <2>1, <2>4 DEF Deciding, ReorderRequest
    <3>2. tx[u].row[2] \in Supplies
      BY <3>1, SupplyRow
    <3> QED BY <1>5, <2>1, <3>1, <3>2 DEF Noticed
  <2> QED BY <2>3, <2>4
<1>7. ReorderTypes'
  <2>1. ASSUME NEW r \in Rows
        PROVE  IF lock'[r] = NoTxn THEN db'[r] = committed'[r] ELSE Holds(lock[r], r)'
    <3>1. CASE lock'[r] = NoTxn
      BY <1>1, <3>1 DEF ReorderTypes
    <3>2. CASE lock'[r] # NoTxn
      <4>1. /\ lock'[r] = lock[r] /\ lock[r] \in Txns /\ Holds(lock[r], r)
            /\ db'[r] = db[r] /\ committed'[r] = committed[r]
        BY <1>1, <3>2 DEF ReorderTypes, RowShape
      <4>2. tx'[lock[r]] = tx[lock[r]]
        BY <4>1
      <4> QED BY <3>2, <4>1, <4>2 DEF Holds
    <3> QED BY <3>1, <3>2
  <2>2. \A u \in Txns : ReorderRequest(u)'
    BY <1>6
  <2>3. \A p \in POs : committed'[PO(p)] = "none" => \A i \in Supplies : ~committed'[Item(p, i)]
    BY <1>1, <1>3, <1>4 DEF ReorderTypes
  <2>4. OneAppended'
    <3>1. \A p \in POs, i \in Supplies : lock'[Item(p, i)] = lock[Item(p, i)]
      BY ReorderRowsApart
    <3> QED BY <1>1, <3>1 DEF ReorderTypes, OneAppended
  <2> QED BY <1>2, <2>1, <2>2, <2>3, <2>4 DEF ReorderTypes
<1>8. Tickets'
  <2>1. ASSUME NEW e \in DOMAIN log, e.kind = "reorder"
        PROVE  /\ e.amount \in Nat /\ e.amount < begun'
               /\ \A u \in Txns : tx'[u].op = "reorder" => tx'[u].read.by # e.amount
    <3>1. /\ e.amount \in Nat /\ e.amount < begun
          /\ \A u \in Txns : tx[u].op = "reorder" => tx[u].read.by # e.amount
      BY <1>1, <2>1 DEF Tickets
    <3> QED BY <1>2, <3>1
  <2>2. ASSUME NEW u \in Txns, NEW v \in Txns, u # v, tx'[u].op = "reorder", tx'[v].op = "reorder"
        PROVE  tx'[u].read.by # tx'[v].read.by
    <3>1. \A w \in Txns : tx[w].op = "reorder" => tx[w].read.by \in Nat /\ tx[w].read.by < begun
      BY <1>1 DEF ReorderTypes, ReorderRequest
    <3>2. tx[u].op = "reorder" /\ tx[v].op = "reorder" => tx[u].read.by # tx[v].read.by
      BY <1>1, <2>2 DEF Tickets
    <3> QED BY <1>2, <2>2, <3>1, <3>2
  <2> QED BY <2>1, <2>2 DEF Tickets
<1>9. ListedOnce'
  BY <1>1, <1>5 DEF ListedOnce
<1> QED BY <1>6, <1>7, <1>8, <1>9 DEF ReorderInv

\* Only the order and the items of a listener past its snapshot are held.
LEMMA NotHolding ==
  ASSUME ReorderInv, desk = "reordering", NEW t \in Txns,
         ~(tx[t].op = "reorder" /\ tx[t].pc \in {"append", "publish"})
  PROVE  \A r \in Rows : lock[r] # t
BY RequestsAssumption DEF ReorderInv, ReorderTypes, Holds

LEMMA UseUpKeeps ==
  ASSUME ReorderInv, desk = "reordering", NEW t \in Txns, UseUp(t)
  PROVE  ReorderInv'
<1>1. RowShape /\ RequestShape /\ begun \in Nat
  BY DEF ReorderInv, ReorderTypes
<1>2. PICK i \in Supplies :
        /\ tx[t].op = "none" /\ Put(Supply(i), committed[Supply(i)] - 1)
        /\ tx' = [tx EXCEPT ![t] = [op |-> "reorder", pc |-> "stock", row |-> Supply(i),
                                    read |-> [by |-> begun], out |-> {}]]
  BY DEF UseUp
<1>3. begun' = begun + 1 /\ UNCHANGED <<log, raced, desk>>
  BY DEF UseUp, OneMore
<1>4. /\ lock[Supply(i)] = NoTxn /\ lock' = lock /\ db'[Supply(i)] = committed'[Supply(i)]
      /\ \A r \in Rows \ {Supply(i)} : db'[r] = db[r] /\ committed'[r] = committed[r]
      /\ RowShape'
  BY <1>1, <1>2, SupplyRow, PutDoes
<1>5. PICK read : read = [by |-> begun]
  OBVIOUS
<1>6. PICK y : y = [op |-> "reorder", pc |-> "stock", row |-> Supply(i), read |-> read, out |-> {}]
  OBVIOUS
<1>7. y.op = "reorder" /\ y.pc = "stock" /\ y.row = Supply(i) /\ y.read.by = begun /\ IsRequest(y)
  BY <1>5, <1>6 DEF IsRequest
<1>8. tx'[t] = y /\ OthersWait(t) /\ RequestShape'
  BY <1>1, <1>2, <1>5, <1>6, <1>7 DEF RequestShape, OthersWait, IsRequest
<1>9. ReorderRequest(t)' /\ ~Deciding(t)'
  BY <1>1, <1>3, <1>7, <1>8 DEF ReorderRequest, Deciding
<1>10. \A r \in Rows : lock[r] # t
  BY <1>2, NotHolding
<1> QED BY <1>2, <1>3, <1>4, <1>7, <1>8, <1>9, <1>10, ReorderFrame DEF OthersWait

\* The steps of a listener that read.
LEMMA LookKeeps ==
  ASSUME ReorderInv, desk = "reordering", NEW t \in Txns, LookAtStock(t) \/ Snapshot(t)
  PROVE  ReorderInv'
<1>1. /\ RowShape /\ RequestShape /\ begun \in Nat /\ ReorderRequest(t)
      /\ tx[t].op = "reorder" /\ tx[t].pc \in {"stock", "snapshot"}
  BY DEF ReorderInv, ReorderTypes, LookAtStock, Snapshot, Doing
<1>2. /\ \A r \in Rows : lock[r] # t
      /\ tx[t].read.by \in Nat /\ tx[t].read.by < begun
      /\ \E i \in Supplies : tx[t].row = Supply(i)
  BY <1>1, NotHolding DEF ReorderRequest
<1>3. UNCHANGED <<db, committed, lock, log, begun, raced, desk>>
  BY DEF LookAtStock, Snapshot, Continue, GoTo, Finish
<1>4. RowShape'
  BY <1>1, <1>3, SameRows
<1>5. CASE Finish(t)
  <2>1. tx'[t].op = "none" /\ tx'[t].pc = "none" /\ OthersWait(t) /\ RequestShape'
    BY <1>1, <1>5, FinishDoes DEF Finish
  <2>2. ReorderRequest(t)' /\ ~Deciding(t)'
    BY <2>1 DEF ReorderRequest, Deciding
  <2> QED BY <1>2, <1>3, <1>4, <2>1, <2>2, ReorderFrame DEF OthersWait
<1>6. CASE LookAtStock(t) /\ ~Finish(t)
  <2>1. Continue(t, "snapshot", tx[t].read, tx[t].out)
    BY <1>6 DEF LookAtStock, GoTo
  <2>2. /\ tx'[t].op = "reorder" /\ tx'[t].pc = "snapshot" /\ tx'[t].row = tx[t].row
        /\ tx'[t].read = tx[t].read /\ OthersWait(t) /\ RequestShape'
    BY <1>1, <2>1, ContinueDoes
  <2>3. ReorderRequest(t)' /\ ~Deciding(t)'
    BY <1>2, <1>3, <2>2 DEF ReorderRequest, Deciding
  <2> QED BY <1>1, <1>2, <1>3, <1>4, <2>2, <2>3, ReorderFrame DEF OthersWait
<1>7. CASE Snapshot(t) /\ ~Finish(t)
  <2>1. PICK i \in Supplies : tx[t].row = Supply(i) /\ tx[t].row[2] = i
    BY <1>2, SupplyRow
  <2>2. PICK drafts : drafts = {p \in POs : Seeing.st[p] = "DRAFT"}
    OBVIOUS
  <2>3. PICK read : read = [by |-> tx[t].read.by, onto |-> drafts, seen |-> DOMAIN log]
    OBVIOUS
  <2>4. read.by = tx[t].read.by /\ read.onto = drafts /\ read.seen = DOMAIN log /\ IsView(read)
    BY <2>3 DEF IsView
  <2>5. PICK pc \in {"create", "append"} : ~Listed(Seeing, i) /\ Continue(t, pc, read, {})
    <3>1. PICK pc : pc = IF drafts = {} THEN "create" ELSE "append"
      OBVIOUS
    <3>2. pc \in {"create", "append"}
      BY <3>1
    <3> QED BY <1>7, <2>1, <2>2, <2>3, <3>1, <3>2 DEF Snapshot
  <2>6. /\ tx'[t].op = "reorder" /\ tx'[t].pc = pc /\ tx'[t].row = tx[t].row
        /\ tx'[t].read = read /\ tx'[t].out = {} /\ OthersWait(t) /\ RequestShape'
    BY <1>1, <2>5, ContinueDoes
  <2>7. OrdersListing(i) = {}
    <3>1. \A p \in POs : Seeing.st[p] = committed[PO(p)]
                         /\ Seeing.items[p] = {j \in Supplies : committed[Item(p, j)]}
      BY DEF Seeing
    <3> QED BY <2>5, <3>1 DEF Listed, OrdersListing
  <2>8. \A p \in drafts : p \in POs /\ committed[PO(p)] = "DRAFT"
    BY <2>2 DEF Seeing
  <2>9. Ordering(t)'
    BY <1>3, <2>4, <2>5, <2>6, <2>8 DEF Ordering
  <2>10. ReorderRequest(t)'
    BY <1>2, <1>3, <2>4, <2>5, <2>6, <2>9 DEF ReorderRequest, Deciding
  <2>11. Noticed(t)'
    BY <1>3, <2>1, <2>6, <2>7 DEF Noticed, OrdersListing
  <2> QED BY <1>1, <1>2, <1>3, <1>4, <2>4, <2>6, <2>10, <2>11, ReorderFrame DEF OthersWait
<1> QED BY <1>5, <1>6, <1>7

LEMMA ReadPOKeeps ==
  ASSUME ReorderInv, desk = "reordering", NEW t \in Txns, ReadPO(t)
  PROVE  ReorderInv'
<1>1. RowShape /\ RequestShape /\ begun \in Nat
  BY DEF ReorderInv, ReorderTypes
<1>2. PICK p \in POs, op \in DOMAIN Moves : Begin(t, op, "setpo", PO(p), [st |-> Moves[op][1]])
  BY DEF ReadPO
<1>3. op \in {"submit", "approvepo", "reject"} /\ Moves[op][1] \in Undecided
  <2>1. /\ Moves.submit[1] = "DRAFT" /\ Moves.approvepo[1] = "PENDING" /\ Moves.reject[1] = "PENDING"
    BY DEF Moves
  <2>2. DOMAIN Moves = {"submit", "approvepo", "reject"}
    BY DEF Moves
  <2> QED BY <2>1, <2>2 DEF Undecided
<1>4. PICK read : read = [st |-> Moves[op][1]]
  OBVIOUS
<1>5. read.st \in Undecided /\ BeginBeside(t, op, "setpo", PO(p), read, {})
  BY <1>2, <1>3, <1>4 DEF Begin
<1>6. /\ tx[t].op = "none" /\ tx'[t].op = op /\ tx'[t].pc = "setpo" /\ tx'[t].row = PO(p)
      /\ tx'[t].read = read /\ OthersWait(t) /\ RequestShape'
  BY <1>1, <1>5, BeginDoes
<1>7. UNCHANGED <<db, committed, lock, log, desk>> /\ raced \subseteq raced' /\ begun' = begun + 1
  BY <1>5 DEF BeginBeside, OneMore
<1>8. RowShape'
  BY <1>1, <1>7, SameRows
<1>9. ReorderRequest(t)' /\ ~Deciding(t)' /\ tx'[t].op # "reorder"
  BY <1>3, <1>5, <1>6 DEF ReorderRequest, Deciding
<1>10. \A r \in Rows : lock[r] # t
  BY <1>6, NotHolding
<1> QED BY <1>6, <1>7, <1>8, <1>9, <1>10, ReorderFrame DEF OthersWait

\* A decision: from the status it was made on, or from another one and raced.
LEMMA SetPOKeeps ==
  ASSUME ReorderInv, desk = "reordering", NEW t \in Txns, SetPO(t)
  PROVE  ReorderInv'
<1>1. /\ RowShape /\ RequestShape /\ begun \in Nat /\ tx[t].pc = "setpo" /\ ReorderRequest(t)
  BY DEF ReorderInv, ReorderTypes, SetPO
<1>2. tx[t].op \in {"submit", "approvepo", "reject"} /\ tx[t].read.st \in Undecided
  BY <1>1 DEF ReorderRequest
<1>3. PICK p \in POs : tx[t].row = PO(p)
  BY <1>1 DEF ReorderRequest
<1>4. PICK st : st = Moves[tx[t].op][2]
  OBVIOUS
<1>5. st # "none"
  <2>1. Moves.submit[2] = "PENDING" /\ Moves.approvepo[2] = "APPROVED" /\ Moves.reject[2] = "DRAFT"
    BY DEF Moves
  <2> QED BY <1>2, <1>4, <2>1
<1>6. Put(PO(p), st) /\ Races(PO(p), tx[t].read.st) /\ Finish(t) /\ UNCHANGED log
  BY <1>3, <1>4 DEF SetPO
<1>7. /\ lock[PO(p)] = NoTxn /\ lock' = lock /\ db'[PO(p)] = st /\ committed'[PO(p)] = st
      /\ \A r \in Rows \ {PO(p)} : db'[r] = db[r] /\ committed'[r] = committed[r]
      /\ RowShape'
  BY <1>1, <1>6, PORow, PutDoes
<1>8. tx'[t].op = "none" /\ tx'[t].pc = "none" /\ OthersWait(t) /\ RequestShape'
  BY <1>1, <1>6, FinishDoes DEF Finish
<1>9. ReorderRequest(t)' /\ ~Deciding(t)'
  BY <1>8 DEF ReorderRequest, Deciding
<1>10. \A r \in Rows : lock[r] # t
  BY <1>2, NotHolding
<1>11. raced \subseteq raced' /\ (committed[PO(p)] \in Undecided \/ PO(p) \in raced')
  <2>1. db[PO(p)] = committed[PO(p)]
    BY <1>7, PORow DEF ReorderInv, ReorderTypes
  <2> QED BY <1>2, <1>6, <2>1 DEF Races
<1>12. begun' = begun /\ desk' = desk
  BY <1>6 DEF Finish
<1> QED BY <1>5, <1>6, <1>7, <1>8, <1>9, <1>10, <1>11, <1>12, ReorderFrame DEF OthersWait

\* A receipt: nobody decides about the order any more; the goods come in.
LEMMA ReceivePOKeeps ==
  ASSUME ReorderInv, desk = "reordering", ReceivePO
  PROVE  ReorderInv'
<1>1. ReorderTypes /\ UNCHANGED <<tx, lock, log, raced, desk>> /\ begun' = begun + 1
  BY DEF ReorderInv, ReceivePO, Single, OneMore
<1>2. PICK p \in POs :
        LET arrives(r) == \E i \in Supplies : r = Supply(i) /\ committed[Item(p, i)]
            after == [r \in Rows |-> IF r = PO(p) THEN "RECEIVED"
                                     ELSE IF arrives(r) THEN db[r] + OrderQuantity(r[2])
                                     ELSE db[r]]
        IN /\ lock[PO(p)] = NoTxn
           /\ db' = after
           /\ committed' = [r \in Rows |-> IF db[r] = after[r] THEN committed[r] ELSE after[r]]
  BY DEF ReceivePO
<1>3. PICK after : /\ lock[PO(p)] = NoTxn /\ db' = after
                   /\ committed' = [r \in Rows |-> IF db[r] = after[r] THEN committed[r] ELSE after[r]]
                   /\ after = [r \in Rows |-> after[r]]
                   /\ after[PO(p)] = "RECEIVED"
                   /\ \A r \in Rows : r = PO(p) \/ after[r] = db[r] \/ \E i \in Supplies : r = Supply(i)
  BY <1>2, PORow
<1>4. RowShape' /\ RequestShape' /\ \A u \in Txns : tx'[u] = tx[u]
  BY <1>1, <1>3, SameRequests DEF ReorderTypes, RowShape
<1>5. \A i \in Supplies : lock[Supply(i)] = NoTxn
  <2>1. ASSUME NEW i \in Supplies, lock[Supply(i)] # NoTxn PROVE FALSE
    <3>1. lock[Supply(i)] \in Txns /\ Holds(lock[Supply(i)], Supply(i))
      BY <1>1, <2>1, SupplyRow DEF ReorderTypes, RowShape
    <3>2. PICK t \in Txns : t = lock[Supply(i)]
      BY <3>1
    <3>3. PICK q \in tx[t].read.onto : Supply(i) = Item(q, tx[t].row[2]) /\ tx[t].pc = "publish"
      BY <3>1, <3>2, SupplyRow DEF Holds
    <3>4. ReorderRequest(t) /\ tx[t].op = "reorder" /\ Deciding(t)
      BY <1>1, <3>1, <3>2, <3>3 DEF ReorderTypes, Holds, Deciding
    <3>5. Ordering(t) /\ \E j \in Supplies : tx[t].row = Supply(j)
      BY <3>4 DEF ReorderRequest
    <3>6. q \in POs
      BY <3>3, <3>5 DEF Ordering
    <3>7. tx[t].row[2] \in Supplies
      BY <3>5, SupplyRow
    <3> QED BY <3>3, <3>6, <3>7, ReorderRowsApart
  <2> QED BY <2>1
<1>6. ASSUME NEW r \in Rows
      PROVE  \/ db'[r] = db[r] /\ committed'[r] = committed[r] /\ lock'[r] = lock[r]
             \/ /\ lock[r] = NoTxn /\ lock'[r] = NoTxn /\ db'[r] = committed'[r]
                /\ \/ \E i \in Supplies : r = Supply(i)
                   \/ (\E q \in POs : r = PO(q)) /\ committed'[r] = "RECEIVED"
  <2>1. CASE after[r] = db[r]
    BY <1>1, <1>3, <2>1
  <2>2. CASE after[r] # db[r]
    BY <1>1, <1>3, <1>5, <2>2
  <2> QED BY <2>1, <2>2
<1>7. NoTxn \notin Txns /\ "RECEIVED" \notin Undecided
  BY RequestsAssumption DEF Undecided
<1>8. PICK t : t = NoTxn
  OBVIOUS
<1> QED BY <1>1, <1>4, <1>6, <1>7, <1>8, ReorderFrame

\* A listener writes a row that is free or its own; nothing is committed yet.
LEMMA ListenerWrites ==
  ASSUME ReorderInv, desk = "reordering", NEW t \in Txns, Deciding(t), NEW r \in Rows, NEW value,
         NEW pc, NEW read, NEW out,
         Write(t, r, value), Continue(t, pc, read, out), UNCHANGED raced,
         lock[r] \in {NoTxn, t},
         pc \in {"append", "publish"}, read.by = tx[t].read.by, read.seen = tx[t].read.seen,
         Holds(t, r)', \A x \in Rows : lock[x] = t => Holds(t, x)', Ordering(t)',
         \A p \in POs, i \in Supplies : lock[Item(p, i)] # t
  PROVE  ReorderInv'
<1>1. /\ ReorderTypes /\ Tickets /\ ListedOnce /\ \A u \in Txns : Deciding(u) => Noticed(u)
      /\ tx[t].op = "reorder"
  BY DEF ReorderInv, Deciding
<1>2. UNCHANGED <<committed, log, begun, desk>>
  BY DEF Continue
<1>3. /\ lock'[r] = t /\ db'[r] = value /\ RowShape'
      /\ \A x \in Rows \ {r} : db'[x] = db[x] /\ lock'[x] = lock[x]
  BY <1>1, <1>2, WriteDoes DEF ReorderTypes
<1>4. /\ tx'[t].op = "reorder" /\ tx'[t].pc = pc /\ tx'[t].row = tx[t].row
      /\ tx'[t].read = read /\ tx'[t].out = out
      /\ OthersWait(t) /\ RequestShape'
  BY <1>1, ContinueDoes DEF ReorderTypes
<1>5. ASSUME NEW u \in Txns PROVE ReorderRequest(u)'
  <2>1. CASE u = t
    <3>1. ReorderRequest(t)
      BY <1>1 DEF ReorderTypes
    <3>2. /\ \E i \in Supplies : tx[t].row = Supply(i)
          /\ tx[t].read.by \in Nat /\ tx[t].read.by < begun
      BY <1>1, <3>1 DEF ReorderRequest
    <3>3. tx'[t].read.by \in Nat /\ tx'[t].read.by < begun'
      BY <1>2, <1>4, <3>2
    <3>4. \E i \in Supplies : tx'[t].row = Supply(i)
      BY <1>4, <3>2
    <3> QED BY <1>4, <2>1, <3>3, <3>4 DEF ReorderRequest
  <2>2. CASE u # t
    <3>1. tx'[u] = tx[u] /\ ReorderRequest(u)
      BY <1>1, <1>4, <2>2 DEF ReorderTypes, OthersWait
    <3>2. ASSUME Deciding(u) PROVE Ordering(u)'
      <4>1. Ordering(u)
        BY <3>1, <3>2 DEF ReorderRequest, Deciding
      <4>2. ASSUME NEW p \in tx[u].read.onto, tx[u].pc # "create"
            PROVE  committed'[PO(p)] # "none" \/ lock'[PO(p)] = u
        <5>1. p \in POs /\ (committed[PO(p)] # "none" \/ lock[PO(p)] = u)
          BY <4>1, <4>2 DEF Ordering
        <5>2. lock[PO(p)] = u => PO(p) # r
          BY <2>2, RequestsAssumption
        <5> QED BY <1>2, <1>3, <5>1, <5>2, PORow
      <4> QED BY <1>2, <3>1, <4>1, <4>2 DEF Ordering
    <3> QED BY <1>2, <3>1, <3>2 DEF ReorderRequest, Deciding
  <2> QED BY <2>1, <2>2
<1>6. ASSUME NEW x \in Rows
      PROVE  IF lock'[x] = NoTxn THEN db'[x] = committed'[x] ELSE Holds(lock[x], x)'
  <2>1. CASE x = r
    BY <1>3, <2>1, RequestsAssumption
  <2>2. CASE x # r
    <3>1. lock'[x] = lock[x] /\ db'[x] = db[x] /\ lock[x] \in Txns \union {NoTxn}
      BY <1>1, <1>3, <2>2 DEF ReorderTypes, RowShape
    <3>2. CASE lock[x] = NoTxn
      BY <1>1, <1>2, <3>1, <3>2 DEF ReorderTypes
    <3>3. CASE lock[x] = t
      BY <3>1, <3>3, RequestsAssumption
    <3>4. CASE lock[x] \in Txns \ {t}
      <4>1. Holds(lock[x], x) /\ tx'[lock[x]] = tx[lock[x]]
        BY <1>1, <1>4, <3>4, RequestsAssumption DEF ReorderTypes, OthersWait
      <4> QED BY <1>2, <3>1, <3>4, <4>1, RequestsAssumption DEF Holds
    <3> QED BY <3>1, <3>2, <3>3, <3>4
  <2> QED BY <2>1, <2>2
<1>7. ReorderTypes'
  <2>1. OneAppended'
    <3> SUFFICES ASSUME NEW p \in POs, NEW q \in POs, NEW i \in Supplies, NEW j \in Supplies,
                        lock'[Item(p, i)] # NoTxn, lock'[Item(p, i)] = lock'[Item(q, j)]
                 PROVE  p = q
      BY DEF OneAppended
    <3>1. Item(p, i) \in Rows /\ Item(q, j) \in Rows
      BY ReorderRowsApart
    <3>2. CASE Item(p, i) = r
      <4>1. Item(q, j) = r
        BY <1>3, <3>1, <3>2
      <4> QED BY <3>2, <4>1, ReorderRowsApart
    <3>3. CASE Item(p, i) # r
      <4>1. Item(q, j) # r
        BY <1>3, <3>1, <3>3
      <4> QED BY <1>1, <1>3, <3>1, <3>3, <4>1 DEF ReorderTypes, OneAppended
    <3> QED BY <3>2, <3>3
  <2> QED BY <1>1, <1>2, <1>3, <1>4, <1>5, <1>6, <2>1 DEF ReorderTypes
<1>8. Tickets'
  <2>1. \A u \in Txns : tx'[u].op = tx[u].op /\ (tx[u].op = "reorder" => tx'[u].read.by = tx[u].read.by)
    BY <1>1, <1>4 DEF OthersWait
  <2> QED BY <1>1, <1>2, <2>1 DEF Tickets
<1>9. ListedOnce'
  BY <1>1, <1>2 DEF ListedOnce, OrdersListing
<1>10. ASSUME NEW u \in Txns, Deciding(u)' PROVE Noticed(u)'
  <2>1. Deciding(u) /\ tx'[u].row = tx[u].row /\ tx'[u].read.seen = tx[u].read.seen
    BY <1>4, <1>10 DEF Deciding, OthersWait
  <2> QED BY <1>1, <1>2, <2>1 DEF Noticed, OrdersListing
<1> QED BY <1>7, <1>8, <1>9, <1>10 DEF ReorderInv

LEMMA CreateAutoPOKeeps ==
  ASSUME ReorderInv, desk = "reordering", NEW t \in Txns, CreateAutoPO(t)
  PROVE  ReorderInv'
<1>1. /\ ReorderTypes /\ tx[t].op = "reorder" /\ tx[t].pc = "create" /\ Deciding(t)
      /\ \A x \in Rows : lock[x] # t
  BY NotHolding DEF ReorderInv, CreateAutoPO, Doing, Deciding
<1>2. Ordering(t)
  BY <1>1 DEF ReorderTypes, ReorderRequest
<1>3. PICK p \in POs :
        /\ db[PO(p)] = "none" /\ Write(t, PO(p), "DRAFT")
        /\ Continue(t, "append", [tx[t].read EXCEPT !.onto = {p}],
                    {[kind |-> "autopo", key |-> p, amount |-> 0]})
        /\ UNCHANGED raced
  BY DEF CreateAutoPO, FreshId, Numbered
<1>4. PICK was : was = tx[t].read
  OBVIOUS
<1>5. PICK read : read = [was EXCEPT !.onto = {p}]
  OBVIOUS
<1>6. PICK entry : entry = [kind |-> "autopo", key |-> p, amount |-> 0]
  OBVIOUS
<1>7. PICK out : out = {entry}
  OBVIOUS
<1>8. was = [by |-> was.by, onto |-> was.onto, seen |-> was.seen]
  BY <1>2, <1>4 DEF Ordering, IsView
<1>9. read = [by |-> was.by, onto |-> {p}, seen |-> was.seen]
  BY <1>5, <1>8
<1>10. read.by = was.by /\ read.onto = {p} /\ read.seen = was.seen /\ IsView(read)
  BY <1>9 DEF IsView
<1>11. Continue(t, "append", read, out) /\ \A e \in out : e.kind = "autopo"
  BY <1>3, <1>4, <1>5, <1>6, <1>7
<1>12. lock[PO(p)] = NoTxn /\ committed[PO(p)] = "none"
  <2>1. lock[PO(p)] = NoTxn
    <3> SUFFICES ASSUME lock[PO(p)] # NoTxn PROVE FALSE
      OBVIOUS
    <3>1. Holds(lock[PO(p)], PO(p)) /\ lock[PO(p)] \in Txns
      BY <1>1, PORow DEF ReorderTypes, RowShape
    <3>2. PICK u \in Txns : u = lock[PO(p)]
      BY <3>1
    <3>3. PICK q \in tx[u].read.onto : PO(p) = Item(q, tx[u].row[2]) /\ tx[u].pc = "publish"
                                       /\ tx[u].op = "reorder"
      BY <1>3, <3>1, <3>2 DEF Holds
    <3>4. Ordering(u) /\ \E j \in Supplies : tx[u].row = Supply(j)
      BY <1>1, <3>3 DEF ReorderTypes, ReorderRequest, Deciding
    <3>5. q \in POs /\ tx[u].row[2] \in Supplies
      BY <3>3, <3>4, SupplyRow DEF Ordering
    <3> QED BY <3>3, <3>5, ReorderRowsApart
  <2> QED BY <1>1, <1>3, <2>1, PORow DEF ReorderTypes
<1>13. /\ lock'[PO(p)] = t /\ db'[PO(p)] = "DRAFT" /\ committed' = committed /\ log' = log
  BY <1>1, <1>3, <1>11, PORow, WriteDoes DEF ReorderTypes, Continue
<1>14. /\ tx'[t].op = "reorder" /\ tx'[t].pc = "append" /\ tx'[t].read = read /\ tx'[t].out = out
  BY <1>1, <1>11, ContinueDoes DEF ReorderTypes
<1>15. Holds(t, PO(p))'
  BY <1>12, <1>13, <1>14 DEF Holds
<1>16. Ordering(t)'
  BY <1>2, <1>4, <1>10, <1>11, <1>13, <1>14 DEF Ordering
<1>17. \A q \in POs, i \in Supplies : lock[Item(q, i)] # t
  BY <1>1, ReorderRowsApart
<1> QED BY <1>1, <1>3, <1>4, <1>10, <1>11, <1>12, <1>15, <1>16, <1>17, PORow, ListenerWrites

LEMMA AppendItemKeeps ==
  ASSUME ReorderInv, desk = "reordering", NEW t \in Txns, AppendItem(t)
  PROVE  ReorderInv'
<1>1. /\ ReorderTypes /\ tx[t].op = "reorder" /\ tx[t].pc = "append" /\ Deciding(t)
  BY DEF ReorderInv, AppendItem, Doing, Deciding
<1>2. Ordering(t) /\ \E i \in Supplies : tx[t].row = Supply(i)
  BY <1>1 DEF ReorderTypes, ReorderRequest
<1>3. PICK i \in Supplies : tx[t].row[2] = i
  BY <1>2, SupplyRow
<1>4. PICK p \in tx[t].read.onto :
        /\ MayWrite(t, Item(p, i)) /\ Write(t, Item(p, i), TRUE)
        /\ Continue(t, "publish", tx[t].read,
                    tx[t].out \union {[kind |-> "reorder", key |-> i, amount |-> tx[t].read.by]})
        /\ UNCHANGED raced
  BY <1>3 DEF AppendItem
<1>5. p \in POs
  BY <1>1, <1>2, <1>4 DEF Ordering
<1>6. PICK entry : entry = [kind |-> "reorder", key |-> i, amount |-> tx[t].read.by]
  OBVIOUS
<1>7. entry.kind = "reorder" /\ entry.key = i /\ entry.amount = tx[t].read.by
  BY <1>6
<1>8. PICK out : out = tx[t].out \union {entry}
  OBVIOUS
<1>9. Continue(t, "publish", tx[t].read, out)
  BY <1>4, <1>6, <1>8
<1>10. /\ lock'[Item(p, i)] = t /\ committed' = committed /\ log' = log
       /\ \A x \in Rows : lock[x] = t => lock'[x] = t
       /\ \A x \in Rows \ {Item(p, i)} : db'[x] = db[x]
  <2>1. Item(p, i) \in Rows /\ UNCHANGED <<committed, log>>
    BY <1>5, <1>9, ReorderRowsApart DEF Continue
  <2>2. RowShape /\ MayWrite(t, Item(p, i)) /\ Write(t, Item(p, i), TRUE)
    BY <1>1, <1>4 DEF ReorderTypes
  <2>3. /\ lock'[Item(p, i)] = t
        /\ \A x \in Rows \ {Item(p, i)} : db'[x] = db[x] /\ lock'[x] = lock[x]
    BY <2>1, <2>2, WriteDoes
  <2> QED BY <2>1, <2>3
<1>11. /\ tx'[t].op = "reorder" /\ tx'[t].pc = "publish" /\ tx'[t].row = tx[t].row
       /\ tx'[t].read = tx[t].read /\ tx'[t].out = out
  BY <1>1, <1>9, ContinueDoes DEF ReorderTypes
<1>12. Holds(t, Item(p, i))'
  BY <1>3, <1>4, <1>11 DEF Holds
<1>13. ASSUME NEW x \in Rows, lock[x] = t
       PROVE  Holds(t, x)' /\ \A q \in POs, j \in Supplies : x # Item(q, j)
  <2>1. Holds(t, x)
    BY <1>1, <1>13, RequestsAssumption DEF ReorderTypes
  <2>2. (\E q \in POs : x = PO(q)) /\ committed[x] = "none" /\ db[x] = "DRAFT"
    BY <1>1, <2>1 DEF Holds
  <2>3. x # Item(p, i)
    BY <1>5, <2>2, ReorderRowsApart
  <2> QED BY <1>10, <1>11, <2>2, <2>3, ReorderRowsApart DEF Holds
<1>14. Ordering(t)'
  <2>1. \A q \in tx[t].read.onto : committed'[PO(q)] # "none" \/ lock'[PO(q)] = t
    BY <1>1, <1>2, <1>10, PORow DEF Ordering
  <2>2. \A e \in out : e.kind = "reorder" => e.key = tx[t].row[2] /\ e.amount = tx[t].read.by
    BY <1>2, <1>3, <1>7, <1>8 DEF Ordering
  <2>3. \E e \in out : e.kind = "reorder"
    BY <1>7, <1>8
  <2> QED BY <1>1, <1>2, <1>10, <1>11, <2>1, <2>2, <2>3 DEF Ordering
<1>15. Item(p, i) \in Rows /\ lock[Item(p, i)] \in {NoTxn, t}
  BY <1>4, <1>5, ReorderRowsApart DEF MayWrite
<1>16. \A q \in POs, j \in Supplies : lock[Item(q, j)] # t
  BY <1>13, ReorderRowsApart
<1> QED BY <1>1, <1>4, <1>9, <1>12, <1>13, <1>14, <1>15, <1>16, ListenerWrites

\* What the end of t leaves of the other requests, if the rows that were not held
\* keep their committed status and those of t become something.
LEMMA ListenerEnds ==
  ASSUME ReorderInv, desk = "reordering", NEW t \in Txns, Finish(t), RowShape',
         DOMAIN log \subseteq DOMAIN log',
         \A r \in Rows : IF lock[r] = t
                         THEN /\ lock'[r] = NoTxn /\ db'[r] = committed'[r]
                              /\ committed'[r] \in {committed[r], db[r]}
                         ELSE lock'[r] = lock[r] /\ db'[r] = db[r] /\ committed'[r] = committed[r],
         \A p \in POs : committed'[PO(p)] = "none" => \A i \in Supplies : ~committed'[Item(p, i)]
  PROVE  ReorderTypes' /\ \A p \in POs : committed'[PO(p)] # committed[PO(p)] => committed[PO(p)] = "none"
<1>1. ReorderTypes /\ begun' = begun /\ t # NoTxn
  BY RequestsAssumption DEF ReorderInv, Finish
<1>2. tx'[t].op = "none" /\ tx'[t].pc = "none" /\ OthersWait(t) /\ RequestShape'
  BY <1>1, FinishDoes DEF Finish, ReorderTypes
<1>3. ASSUME NEW p \in POs, lock[PO(p)] = t PROVE committed[PO(p)] = "none" /\ db[PO(p)] = "DRAFT"
  <2>1. Holds(t, PO(p))
    BY <1>1, <1>3, PORow DEF ReorderTypes
  <2> SUFFICES ASSUME tx[t].pc = "publish", \E q \in tx[t].read.onto : PO(p) = Item(q, tx[t].row[2])
               PROVE  FALSE
    BY <2>1 DEF Holds
  <2>2. Ordering(t) /\ \E j \in Supplies : tx[t].row = Supply(j)
    BY <1>1, <2>1 DEF ReorderTypes, ReorderRequest, Deciding, Holds
  <2>3. PICK q \in POs : PO(p) = Item(q, tx[t].row[2])
    BY <2>2 DEF Ordering
  <2> QED BY <2>2, <2>3, SupplyRow, ReorderRowsApart
<1>4. ASSUME NEW p \in POs
      PROVE  /\ committed'[PO(p)] # committed[PO(p)] => committed[PO(p)] = "none"
             /\ lock[PO(p)] # t => lock'[PO(p)] = lock[PO(p)]
  BY <1>3, PORow
<1>5. ASSUME NEW r \in Rows
      PROVE  IF lock'[r] = NoTxn THEN db'[r] = committed'[r] ELSE Holds(lock[r], r)'
  <2>1. CASE lock[r] = t
    BY <2>1
  <2>2. CASE lock[r] = NoTxn
    BY <1>1, <2>2 DEF ReorderTypes
  <2>3. CASE lock[r] \in Txns \ {t}
    <3>1. /\ Holds(lock[r], r) /\ tx'[lock[r]] = tx[lock[r]]
          /\ lock'[r] = lock[r] /\ db'[r] = db[r] /\ committed'[r] = committed[r]
      BY <1>1, <1>2, <2>3, RequestsAssumption DEF ReorderTypes, OthersWait
    <3> QED BY <2>3, <3>1, RequestsAssumption DEF Holds
  <2> QED BY <1>1, <2>1, <2>2, <2>3 DEF ReorderTypes, RowShape
<1>6. ASSUME NEW u \in Txns PROVE ReorderRequest(u)'
  <2>1. CASE u = t
    BY <1>2, <2>1 DEF ReorderRequest
  <2>2. CASE u # t
    <3>1. tx'[u] = tx[u] /\ ReorderRequest(u)
      BY <1>1, <1>2, <2>2 DEF ReorderTypes, OthersWait
    <3>2. ASSUME Deciding(u) PROVE Ordering(u)'
      <4>1. Ordering(u)
        BY <3>1, <3>2 DEF ReorderRequest, Deciding
      <4>2. ASSUME NEW p \in tx[u].read.onto, tx[u].pc # "create"
            PROVE  committed'[PO(p)] # "none" \/ lock'[PO(p)] = u
        <5>1. p \in POs /\ (committed[PO(p)] # "none" \/ lock[PO(p)] = u)
          BY <4>1, <4>2 DEF Ordering
        <5> QED BY <1>4, <2>2, <5>1
      <4> QED BY <3>1, <4>1, <4>2 DEF Ordering
    <3> QED BY <1>1, <3>1, <3>2 DEF ReorderRequest, Deciding
  <2> QED BY <2>1, <2>2
<1>7. OneAppended'
  <2>1. \A r \in Rows : lock'[r] \in {NoTxn, lock[r]}
    BY DEF ReorderTypes
  <2> QED BY <1>1, <2>1, ReorderRowsApart DEF ReorderTypes, OneAppended
<1> QED BY <1>1, <1>2, <1>4, <1>5, <1>6, <1>7 DEF ReorderTypes

LEMMA ListenerGivesUp ==
  ASSUME ReorderInv, desk = "reordering", NEW t \in Txns, UndoWrites(t), Finish(t), UNCHANGED <<log, raced>>
  PROVE  ReorderInv'
<1>1. /\ ReorderTypes /\ Tickets /\ ListedOnce /\ \A u \in Txns : Deciding(u) => Noticed(u)
      /\ UNCHANGED <<begun, desk>> /\ t # NoTxn
  BY RequestsAssumption DEF ReorderInv, Finish
<1>2. /\ committed' = committed /\ RowShape'
      /\ \A r \in Rows : lock[r] = t => db'[r] = committed[r] /\ lock'[r] = NoTxn
      /\ \A r \in Rows : lock[r] # t => db'[r] = db[r] /\ lock'[r] = lock[r]
  BY <1>1, UndoDoes DEF ReorderTypes
<1>3. tx'[t].op = "none" /\ tx'[t].pc = "none" /\ OthersWait(t)
  BY <1>1, FinishDoes DEF Finish, ReorderTypes
<1>4. \A p \in POs : committed'[PO(p)] = "none" => \A i \in Supplies : ~committed'[Item(p, i)]
  BY <1>1, <1>2 DEF ReorderTypes
<1>5. ReorderTypes'
  BY <1>2, <1>4, ListenerEnds
<1>6. Tickets'
  BY <1>1, <1>3 DEF Tickets, OthersWait
<1>7. ListedOnce' /\ \A i \in Supplies : OrdersListing(i)' = OrdersListing(i)
  BY <1>1, <1>2 DEF ListedOnce, OrdersListing
<1>8. ASSUME NEW u \in Txns, Deciding(u)' PROVE Noticed(u)'
  <2>1. u # t /\ tx'[u] = tx[u] /\ Noticed(u)
    BY <1>1, <1>3, <1>8 DEF Deciding, OthersWait
  <2> QED BY <1>2, <2>1 DEF Noticed, OrdersListing
<1> QED BY <1>1, <1>5, <1>6, <1>7, <1>8 DEF ReorderInv

\* A commit that does not fail: no order listed the ingredient, and it is on one now.
LEMMA PublishKeeps ==
  ASSUME ReorderInv, desk = "reordering", NEW t \in Txns, Publish(t)
  PROVE  ReorderInv'
<1>1. /\ ReorderTypes /\ Tickets /\ ListedOnce /\ \A u \in Txns : Deciding(u) => Noticed(u)
      /\ t # NoTxn /\ tx[t].op = "reorder" /\ tx[t].pc = "publish" /\ Deciding(t)
  BY RequestsAssumption DEF ReorderInv, Publish, Doing, Deciding
<1>2. Ordering(t) /\ \E i \in Supplies : tx[t].row = Supply(i)
  BY <1>1 DEF ReorderTypes, ReorderRequest
<1>3. PICK i \in Supplies : tx[t].row[2] = i
  BY <1>2, SupplyRow
<1>4. CASE SerializationFailure(t)
  <2>1. UndoWrites(t) /\ Finish(t) /\ UNCHANGED <<log, raced>>
    BY <1>4 DEF Publish, Throw
  <2> QED BY <2>1, ListenerGivesUp
<1>5. CASE ~SerializationFailure(t)
  <2>1. KeepWrites(t) /\ Logged(tx[t].out) /\ Finish(t) /\ raced' = raced
    BY <1>5 DEF Publish
  <2>2. /\ db' = db /\ RowShape'
        /\ \A r \in Rows : lock[r] = t => committed'[r] = db[r] /\ lock'[r] = NoTxn
        /\ \A r \in Rows : lock[r] # t => committed'[r] = committed[r] /\ lock'[r] = lock[r]
    BY <1>1, <2>1, KeepDoes DEF ReorderTypes
  <2>3. tx'[t].op = "none" /\ tx'[t].pc = "none" /\ OthersWait(t) /\ UNCHANGED <<begun, desk>>
    BY <1>1, <2>1, FinishDoes DEF Finish, ReorderTypes
  <2>4. DOMAIN log' = DOMAIN log \union tx[t].out
    BY <2>1 DEF Logged
  <2>5. PICK mine \in tx[t].out : mine.kind = "reorder" /\ mine.key = i /\ mine.amount = tx[t].read.by
    BY <1>1, <1>2, <1>3 DEF Ordering
  <2>6. mine \notin DOMAIN log
    BY <1>1, <2>5 DEF Tickets
  <2>7. \A e \in DOMAIN log \ tx[t].read.seen : ~(e.kind = "reorder" /\ e.key = i)
    BY <1>5, <2>5 DEF SerializationFailure
  <2>8. OrdersListing(i) = {}
    BY <1>1, <1>3, <2>7 DEF Noticed
  <2>9. ASSUME NEW p \in POs, NEW j \in Supplies, committed'[Item(p, j)] # committed[Item(p, j)]
        PROVE  j = i /\ p \in tx[t].read.onto
    <3>1. Item(p, j) \in Rows /\ lock[Item(p, j)] = t
      BY <2>2, <2>9, ReorderRowsApart
    <3>2. Holds(t, Item(p, j))
      BY <1>1, <3>1 DEF ReorderTypes
    <3>3. PICK q \in tx[t].read.onto : Item(p, j) = Item(q, i)
      BY <1>3, <3>2, ReorderRowsApart DEF Holds
    <3> QED BY <3>3, ReorderRowsApart
  <2>10. ASSUME NEW p \in POs, lock[PO(p)] = t PROVE committed[PO(p)] = "none" /\ db[PO(p)] = "DRAFT"
    <3>1. Holds(t, PO(p))
      BY <1>1, <2>10, PORow DEF ReorderTypes
    <3> SUFFICES ASSUME \E q \in tx[t].read.onto : PO(p) = Item(q, i) PROVE FALSE
      BY <1>3, <3>1 DEF Holds
    <3>2. PICK q \in POs : PO(p) = Item(q, i)
      BY <1>1, <1>2 DEF Ordering
    <3> QED BY <3>2, ReorderRowsApart
  <2>11. ASSUME NEW p \in POs, committed'[PO(p)] = "none", NEW j \in Supplies
         PROVE  ~committed'[Item(p, j)]
    <3>1. lock[PO(p)] # t /\ committed[PO(p)] = "none"
      BY <2>2, <2>10, <2>11, PORow
    <3>2. ~committed[Item(p, j)]
      BY <1>1, <3>1 DEF ReorderTypes
    <3>3. p \notin tx[t].read.onto
      BY <1>1, <1>2, <3>1 DEF Ordering
    <3> QED BY <2>9, <3>2, <3>3
  <2>12. \A r \in Rows : lock[r] = t => db'[r] = committed'[r] /\ committed'[r] \in {committed[r], db[r]}
    BY <2>2
  <2>13. \A r \in Rows : lock[r] # t => db'[r] = db[r]
    BY <2>2
  <2>14. ReorderTypes' /\ \A p \in POs : committed'[PO(p)] # committed[PO(p)] => committed[PO(p)] = "none"
    BY <2>1, <2>2, <2>4, <2>11, <2>12, <2>13, ListenerEnds
  <2>15. Tickets'
    <3>1. ASSUME NEW e \in DOMAIN log', e.kind = "reorder"
          PROVE  /\ e.amount \in Nat /\ e.amount < begun
                 /\ \A u \in Txns : tx'[u].op = "reorder" => tx'[u].read.by # e.amount
      <4>1. CASE e \in DOMAIN log
        BY <1>1, <2>3, <3>1, <4>1 DEF Tickets, OthersWait
      <4>2. CASE e \in tx[t].out
        <5>1. e.amount = tx[t].read.by
          BY <1>2, <3>1, <4>2 DEF Ordering
        <5>2. tx[t].read.by \in Nat /\ tx[t].read.by < begun
          BY <1>1 DEF ReorderTypes, ReorderRequest
        <5>3. \A u \in Txns : tx'[u].op = "reorder" => u # t /\ tx'[u] = tx[u]
          BY <2>3 DEF OthersWait
        <5> QED BY <1>1, <5>1, <5>2, <5>3 DEF Tickets
      <4> QED BY <2>4, <3>1, <4>1, <4>2
    <3>2. ASSUME NEW u \in Txns, NEW v \in Txns, u # v, tx'[u].op = "reorder", tx'[v].op = "reorder"
          PROVE  tx'[u].read.by # tx'[v].read.by
      BY <1>1, <2>3, <3>2 DEF Tickets, OthersWait
    <3> QED BY <2>3, <3>1, <3>2 DEF Tickets
  <2>16. ASSUME NEW j \in Supplies PROVE OrdersListing(j)' \subseteq OrdersListing(j) \/ j = i
    <3> SUFFICES ASSUME j # i, NEW p \in OrdersListing(j)' PROVE p \in OrdersListing(j)
      OBVIOUS
    <3>1. p \in POs /\ committed'[Item(p, j)] /\ committed'[PO(p)] \in Undecided /\ PO(p) \notin raced
      BY <2>1 DEF OrdersListing, Undecided
    <3>2. committed[Item(p, j)]
      BY <2>9, <3>1
    <3>3. committed[PO(p)] # "none"
      BY <1>1, <3>1, <3>2 DEF ReorderTypes
    <3>4. committed'[PO(p)] = committed[PO(p)]
      BY <2>14, <3>1, <3>3
    <3> QED BY <3>1, <3>2, <3>4 DEF OrdersListing, Undecided
  <2>17. ASSUME NEW x \in OrdersListing(i)' PROVE x \in POs /\ lock[Item(x, i)] = t
    <3>1. x \in POs /\ committed'[Item(x, i)] /\ committed'[PO(x)] \in Undecided /\ PO(x) \notin raced
      BY <2>1 DEF OrdersListing, Undecided
    <3> SUFFICES ASSUME lock[Item(x, i)] # t PROVE FALSE
      BY <3>1
    <3>2. committed[Item(x, i)]
      BY <2>2, <3>1, ReorderRowsApart
    <3>3. committed'[PO(x)] = committed[PO(x)]
      BY <1>1, <2>14, <3>1, <3>2 DEF ReorderTypes
    <3>4. x \in OrdersListing(i)
      BY <3>1, <3>2, <3>3 DEF OrdersListing, Undecided
    <3> QED BY <2>8, <3>4
  <2>18. ListedOnce'
    <3>1. \A p, q \in OrdersListing(i)' : p = q
      BY <1>1, <2>17 DEF ReorderTypes, OneAppended
    <3> QED BY <1>1, <2>16, <3>1 DEF ListedOnce
  <2>19. ASSUME NEW u \in Txns, Deciding(u)' PROVE Noticed(u)'
    <3>1. u # t /\ tx'[u] = tx[u] /\ Deciding(u) /\ Noticed(u)
      BY <1>1, <2>3, <2>19 DEF Deciding, OthersWait
    <3>2. Ordering(u) /\ \E j \in Supplies : tx[u].row = Supply(j)
      BY <1>1, <3>1 DEF ReorderTypes, ReorderRequest, Deciding
    <3>3. PICK j \in Supplies : tx[u].row[2] = j
      BY <3>2, SupplyRow
    <3>4. CASE j = i
      <4>1. mine \in DOMAIN log' \ tx[u].read.seen
        BY <2>4, <2>5, <2>6, <3>2 DEF Ordering
      <4> QED BY <2>5, <3>1, <3>3, <3>4, <4>1 DEF Noticed
    <3>5. CASE j # i
      BY <2>4, <2>16, <3>1, <3>3, <3>5 DEF Noticed
    <3> QED BY <3>4, <3>5
  <2> QED BY <2>3, <2>14, <2>15, <2>18, <2>19 DEF ReorderInv
<1> QED BY <1>4, <1>5

LEMMA ReorderSame == ASSUME ReorderInv, UNCHANGED serviceVars PROVE ReorderInv'
<1>1. CASE desk = "reordering"
  <2>1. ReorderTypes /\ RowShape' /\ RequestShape' /\ \A t \in Txns : tx'[t] = tx[t]
    BY <1>1, SameRows, SameRequests DEF ReorderInv, ReorderTypes, serviceVars
  <2>2. PICK t : t = NoTxn
    OBVIOUS
  <2> QED BY <1>1, <2>1, <2>2, ReorderFrame, RequestsAssumption DEF serviceVars
<1> QED BY <1>1 DEF ReorderInv, serviceVars

LEMMA ReorderNextInv == ASSUME ReorderInv, [Next]_serviceVars PROVE ReorderInv'
<1>1. CASE UNCHANGED serviceVars
  BY <1>1, ReorderSame
<1>2. CASE desk # "reordering"
  BY <1>2, DeskStays DEF ReorderInv
<1>3. CASE desk = "reordering" /\ Next
  <2>1. ASSUME NEW t \in Txns PROVE ~Commit(t)
    BY <1>3 DEF ReorderInv, ReorderTypes, ReorderRequest, Commit
  <2>2. ASSUME NEW t \in Txns, Abort(t, Lost(t)) PROVE ReorderInv'
    <3>1. Lost(t) = {}
      BY <1>3 DEF ReorderInv, ReorderTypes, ReorderRequest, Lost
    <3> QED BY <1>3, <2>2, <3>1, ListenerGivesUp DEF Abort
  <2>3. \/ ReceivePO
        \/ \E t \in Txns : ReorderStep(t)
        \/ \E t \in Txns : Abort(t, Lost(t))
    BY <1>3, <2>1 DEF Next, ReorderNext
  <2> QED BY <1>3, <2>2, <2>3, ReceivePOKeeps, UseUpKeeps, LookKeeps, CreateAutoPOKeeps,
            AppendItemKeeps, PublishKeeps, ReadPOKeeps, SetPOKeeps DEF ReorderStep
<1> QED BY <1>1, <1>2, <1>3

LEMMA ReorderEnough == ASSUME ReorderInv PROVE OrderedOnce
<1> SUFFICES ASSUME desk = "reordering", NEW i \in Supplies
             PROVE  Cardinality(OrdersListing(i)) <= 1
  BY DEF OrderedOnce
<1>1. \A p, q \in OrdersListing(i) : p = q
  BY DEF ReorderInv, ListedOnce
<1>2. CASE OrdersListing(i) = {}
  BY <1>2, FS_EmptySet
<1>3. CASE OrdersListing(i) # {}
  <2>1. PICK p : OrdersListing(i) = {p}
    BY <1>1, <1>3
  <2>2. Cardinality({p}) = 1
    BY FS_Singleton
  <2>3. Cardinality(OrdersListing(i)) = 1
    BY <2>1, <2>2
  <2> QED BY <2>3
<1> QED BY <1>2, <1>3

\* However sales, listeners, decisions and receipts interleave, abort or crash, for all
\* ingredients, purchase orders and minimum stocks: an ingredient is on one undecided
\* order, unless an order was decided from a status it had left.
THEOREM OrderedOnceHolds == Spec => []OrderedOnce
<1>1. Init => ReorderInv
  BY ReorderInitInv
<1>2. ReorderInv /\ [Next]_serviceVars => ReorderInv'
  BY ReorderNextInv
<1>3. ReorderInv => OrderedOnce
  BY ReorderEnough
<1> QED BY <1>1, <1>2, <1>3, PTL DEF Spec

-------------------------------------------------------------------------------
(* Attendance and payroll.                                                 *)

IsRecord(x) == x = [st |-> x.st, who |-> x.who, site |-> x.site]
IsRun(x) == x = [st |-> x.st, site |-> x.site, slips |-> x.slips]

\* What a payslip of a branch pays for: a record there, or the salary of somebody
\* who worked there -- at home, unless he worked elsewhere.
Slip(b, s) ==
  \/ /\ s.for \in Records
     /\ committed[Record(s.for)].st # "none"
     /\ committed[Record(s.for)].who = s.who
     /\ committed[Record(s.for)].site = b
  \/ s.for = Base /\ (AtHomeOnly(s.who) => b = Home[s.who])

Slipped(b, slips) == IsFiniteSet(slips) /\ \A s \in slips : Slip(b, s)

Paying(t) == tx[t].op = "payout" /\ tx[t].pc = "commit"

\* A payout about to commit holds a run that is a draft for everybody else.
PayoutHeld(t) ==
  /\ lock[tx[t].row] = t
  /\ committed[tx[t].row].st = "DRAFT"
  /\ IsRun(db[tx[t].row]) /\ db[tx[t].row].st = "APPROVED"
  /\ db[tx[t].row].site = committed[tx[t].row].site
  /\ db[tx[t].row].slips = committed[tx[t].row].slips
  /\ tx[t].out = Payout(tx[t].row[2], committed[tx[t].row].slips)

StaffRequest(t) ==
  \/ tx[t].op = "none" /\ tx[t].pc = "none"
  \/ /\ tx[t].op = "clockin" /\ tx[t].pc = "create"
     /\ \E u \in Employees : tx[t].row = Employee(u)
  \/ /\ tx[t].op = "clockout" /\ tx[t].pc = "close"
     /\ \E r \in Records : tx[t].row = Record(r) /\ committed[Record(r)].st # "none"
  \/ /\ tx[t].op = "generate" /\ tx[t].pc \in {"salaried", "create"}
     /\ tx[t].read = [site |-> tx[t].read.site, slips |-> tx[t].read.slips]
     /\ Slipped(tx[t].read.site, tx[t].read.slips)
  \/ /\ tx[t].op = "payout" /\ tx[t].pc \in {"claim", "commit"}
     /\ \E n \in Runs : /\ tx[t].row = Run(n)
                        /\ committed[Run(n)].st # "none"
                        /\ tx[t].read.slips = committed[Run(n)].slips

PayEntry(n, slips) == [kind |-> "payroll", key |-> n, amount |-> Cardinality(slips)]

\* A run approved with payslips is told once, another not at all.
Told(n) == IF committed[Run(n)].st = "APPROVED" /\ committed[Run(n)].slips # {}
             THEN /\ Entries("payroll", n) = {PayEntry(n, committed[Run(n)].slips)}
                  /\ log[PayEntry(n, committed[Run(n)].slips)] = 1
             ELSE Entries("payroll", n) = {}

RunOf(n) == \/ committed[Run(n)] = NoRun
            \/ /\ IsRun(committed[Run(n)])
               /\ committed[Run(n)].st \in {"DRAFT", "APPROVED"}
               /\ Slipped(committed[Run(n)].site, committed[Run(n)].slips)

\* The unique index on branch and month.
OneRunEach == \A m, n \in Runs :
  /\ committed[Run(m)].st # "none"
  /\ committed[Run(n)].st # "none"
  /\ committed[Run(m)].site = committed[Run(n)].site
  => m = n

StaffTypes ==
  /\ RowShape /\ RequestShape
  /\ \A r \in Records : committed[Record(r)] = NoRecord \/ IsRecord(committed[Record(r)])
  /\ \A n \in Runs : RunOf(n) /\ Told(n)
  /\ OneRunEach
  /\ \A u \in Employees : Entries("moved", u) = {} => committed[Employee(u)] = Home[u]
  /\ \A r \in Rows : IF lock[r] = NoTxn THEN db[r] = committed[r]
                     ELSE Paying(lock[r]) /\ tx[lock[r]].row = r
  /\ \A t \in Txns : StaffRequest(t) /\ (Paying(t) => PayoutHeld(t))

\* Nobody is clocked in twice, and who is about to be is not clocked in yet.
Clocked == \A u \in Employees : Employee(u) \notin raced =>
  /\ \A r, s \in RecordsOf(u, "open") : r = s
  /\ \A t \in Txns : tx[t].op = "clockin" /\ tx[t].row = Employee(u) => RecordsOf(u, "open") = {}

StaffInv == desk = "staff" => StaffTypes /\ Clocked

LEMMA StaffRowsApart ==
  /\ \A u \in Employees : /\ Employee(u) \in Rows /\ Employee(u)[2] = u
                          /\ \A v \in Employees : Employee(u) = Employee(v) => u = v
  /\ \A r \in Records : /\ Record(r) \in Rows
                        /\ \A s \in Records : Record(r) = Record(s) => r = s
                        /\ \A u \in Employees : Record(r) # Employee(u)
  /\ \A n \in Runs : /\ Run(n) \in Rows /\ Run(n)[2] = n
                     /\ \A m \in Runs : Run(n) = Run(m) => n = m
                     /\ \A u \in Employees : Run(n) # Employee(u)
                     /\ \A r \in Records : Run(n) # Record(r)
  /\ \A l \in Leaves : /\ Leave(l) \in Rows
                       /\ \A u \in Employees : Leave(l) # Employee(u)
                       /\ \A r \in Records : Leave(l) # Record(r)
                       /\ \A n \in Runs : Leave(l) # Run(n)
<1>1. /\ \A u \in Employees : Employee(u) \in Rows
      /\ \A r \in Records : Record(r) \in Rows
      /\ \A n \in Runs : Run(n) \in Rows
      /\ \A l \in Leaves : Leave(l) \in Rows
  BY RowsAssumption DEF AllRows, StaffRows
<1>2. \A x, y : /\ <<"employee", x>> = <<"employee", y>> => x = y
                /\ <<"record", x>> = <<"record", y>> => x = y
                /\ <<"run", x>> = <<"run", y>> => x = y
                /\ <<"employee", x>>[2] = x /\ <<"run", x>>[2] = x
  OBVIOUS
<1>3. \A x, y : /\ <<"record", x>> # <<"employee", y>>
                /\ <<"run", x>> # <<"employee", y>> /\ <<"run", x>> # <<"record", y>>
                /\ <<"leave", x>> # <<"employee", y>> /\ <<"leave", x>> # <<"record", y>>
                /\ <<"leave", x>> # <<"run", y>>
  OBVIOUS
<1> QED BY <1>1, <1>2, <1>3 DEF Employee, Record, Run, Leave

LEMMA StaffInitInv == ASSUME Init PROVE StaffInv
<1>1. RowShape /\ RequestShape
  BY StartShape
<1>2. \A r \in StaffRows : r \in Rows /\ committed[r] = StaffInitial(r)
  BY RowsAssumption, InitialRows DEF AllRows, Init, ServiceInit, Initial
<1>3. ASSUME NEW r \in Records PROVE committed[Record(r)] = NoRecord
  <2>1. Record(r) \in StaffRows /\ StaffInitial(Record(r)) = NoRecord
    BY DEF StaffRows, StaffInitial, Record
  <2> QED BY <1>2, <2>1
<1>4. ASSUME NEW n \in Runs PROVE committed[Run(n)] = NoRun
  <2>1. Run(n) \in StaffRows /\ StaffInitial(Run(n)) = NoRun
    BY DEF StaffRows, StaffInitial, Run
  <2> QED BY <1>2, <2>1
<1>5. ASSUME NEW u \in Employees PROVE committed[Employee(u)] = Home[u]
  <2>1. Employee(u) \in StaffRows /\ StaffInitial(Employee(u)) = Home[u]
    BY DEF StaffRows, StaffInitial, Employee
  <2> QED BY <1>2, <2>1
<1>6. \A t \in Txns : StaffRequest(t) /\ ~Paying(t) /\ tx[t].op = "none"
  BY DEF Init, ServiceInit, Idle, StaffRequest, Paying
<1>7. \A r \in Rows : lock[r] = NoTxn /\ db[r] = committed[r]
  BY DEF Init, ServiceInit
<1>8. \A kind, key : Entries(kind, key) = {}
  BY DEF Init, ServiceInit, Entries
<1>9. \A n \in Runs : RunOf(n) /\ Told(n)
  BY <1>4, <1>8 DEF RunOf, Told, NoRun
<1>10. OneRunEach
  BY <1>4 DEF OneRunEach, NoRun
<1>11. StaffTypes
  BY <1>1, <1>3, <1>5, <1>6, <1>7, <1>9, <1>10 DEF StaffTypes
<1>12. Clocked
  BY <1>3, <1>6 DEF Clocked, RecordsOf, NoRecord
<1> QED BY <1>11, <1>12 DEF StaffInv

\* Records are never deleted and keep whom and where they are of; entries stay.
Grows ==
  /\ \A r \in Records : committed[Record(r)].st # "none" =>
       /\ committed'[Record(r)].st # "none"
       /\ committed'[Record(r)].who = committed[Record(r)].who
       /\ committed'[Record(r)].site = committed[Record(r)].site
  /\ DOMAIN log \subseteq DOMAIN log'

LEMMA SlipStays == ASSUME Grows PROVE \A b : \A s : Slip(b, s) => Slip(b, s)'
<1> SUFFICES ASSUME NEW b, NEW s, Slip(b, s) PROVE Slip(b, s)'
  OBVIOUS
<1>1. AtHomeOnly(s.who)' => AtHomeOnly(s.who)
  BY DEF Grows, AtHomeOnly, Entries
<1> QED BY <1>1 DEF Slip, Grows

LEMMA SlippedStays == ASSUME Grows PROVE \A b : \A slips : Slipped(b, slips) => Slipped(b, slips)'
BY SlipStays DEF Slipped

\* What a step may do that neither starts nor ends a payout.
LEMMA StaffFrame ==
  ASSUME StaffTypes, RowShape', RequestShape', Grows,
         \A r \in Rows : \/ db'[r] = db[r] /\ committed'[r] = committed[r] /\ lock'[r] = lock[r]
                         \/ lock[r] = NoTxn /\ lock'[r] = NoTxn /\ db'[r] = committed'[r],
         \A r \in Records : committed'[Record(r)] = NoRecord \/ IsRecord(committed'[Record(r)]),
         \A n \in Runs : \/ committed'[Run(n)] = committed[Run(n)]
                         \/ committed[Run(n)].st = "none" /\ RunOf(n)' /\ committed'[Run(n)].st = "DRAFT",
         OneRunEach',
         \A n \in Runs : Entries("payroll", n)' = Entries("payroll", n),
         \A n \in Runs : \A e \in Entries("payroll", n) : log[e] = 1 => log'[e] = 1,
         \A u \in Employees : Entries("moved", u)' = {} => committed'[Employee(u)] = Home[u],
         \A t \in Txns : \/ tx'[t] = tx[t]
                         \/ ~Paying(t) /\ ~Paying(t)' /\ StaffRequest(t)'
  PROVE  StaffTypes'
<1>1. ASSUME NEW n \in Runs PROVE RunOf(n)' /\ Told(n)'
  <2>1. RunOf(n) /\ Told(n)
    BY DEF StaffTypes
  <2>2. CASE committed'[Run(n)] = committed[Run(n)]
    <3>1. RunOf(n)'
      BY <2>1, <2>2, SlippedStays DEF RunOf
    <3>2. Told(n)'
      BY <2>1, <2>2 DEF Told, PayEntry
    <3> QED BY <3>1, <3>2
  <2>3. CASE committed[Run(n)].st = "none" /\ RunOf(n)' /\ committed'[Run(n)].st = "DRAFT"
    BY <2>1, <2>3 DEF Told
  <2> QED BY <2>2, <2>3
<1>2. \A n \in Runs : committed[Run(n)].st # "none" => committed'[Run(n)] = committed[Run(n)]
  OBVIOUS
<1>3. ASSUME NEW t \in Txns PROVE StaffRequest(t)'
  <2>1. CASE tx'[t] = tx[t]
    <3>1. StaffRequest(t)
      BY DEF StaffTypes
    <3>2. CASE tx[t].op = "clockout"
      BY <2>1, <3>1, <3>2 DEF StaffRequest, Grows
    <3>3. CASE tx[t].op = "generate"
      BY <2>1, <3>1, <3>3, SlippedStays DEF StaffRequest
    <3>4. CASE tx[t].op = "payout"
      BY <1>2, <2>1, <3>1, <3>4 DEF StaffRequest
    <3> QED BY <2>1, <3>1, <3>2, <3>3, <3>4 DEF StaffRequest
  <2> QED BY <2>1
<1>4. ASSUME NEW t \in Txns, Paying(t)' PROVE PayoutHeld(t)'
  <2>1. tx'[t] = tx[t] /\ Paying(t) /\ PayoutHeld(t) /\ t # NoTxn
    BY <1>4, RequestsAssumption DEF StaffTypes, Paying
  <2>2. tx[t].row \in Rows
    <3>1. StaffRequest(t)
      BY DEF StaffTypes
    <3>2. PICK n \in Runs : tx[t].row = Run(n)
      BY <2>1, <3>1 DEF StaffRequest, Paying
    <3> QED BY <3>2, StaffRowsApart
  <2>3. /\ db'[tx[t].row] = db[tx[t].row] /\ committed'[tx[t].row] = committed[tx[t].row]
        /\ lock'[tx[t].row] = lock[tx[t].row]
    BY <2>1, <2>2 DEF PayoutHeld
  <2> QED BY <2>1, <2>3 DEF PayoutHeld
<1>5. ASSUME NEW r \in Rows
      PROVE  IF lock'[r] = NoTxn THEN db'[r] = committed'[r]
             ELSE Paying(lock[r])' /\ tx'[lock'[r]].row = r
  <2>1. CASE lock'[r] = NoTxn
    BY <2>1 DEF StaffTypes
  <2>2. CASE lock'[r] # NoTxn
    <3>1. lock'[r] = lock[r] /\ lock[r] \in Txns /\ Paying(lock[r]) /\ tx[lock[r]].row = r
      BY <2>2 DEF StaffTypes, RowShape
    <3>2. tx'[lock[r]] = tx[lock[r]]
      BY <3>1
    <3> QED BY <2>2, <3>1, <3>2 DEF Paying
  <2> QED BY <2>1, <2>2
<1> QED BY <1>1, <1>3, <1>4, <1>5 DEF StaffTypes

\* Nobody starts to clock in, and nobody's record is opened.
LEMMA ClockedStays ==
  ASSUME Clocked, raced \subseteq raced',
         \A u \in Employees : RecordsOf(u, "open")' \subseteq RecordsOf(u, "open"),
         \A t \in Txns : tx'[t].op = "clockin" => tx[t].op = "clockin" /\ tx'[t].row = tx[t].row
  PROVE  Clocked'
<1> SUFFICES ASSUME NEW u \in Employees, Employee(u) \notin raced'
             PROVE  /\ \A r, s \in RecordsOf(u, "open")' : r = s
                    /\ \A t \in Txns : tx'[t].op = "clockin" /\ tx'[t].row = Employee(u) =>
                         RecordsOf(u, "open")' = {}
  BY DEF Clocked
<1>1. Employee(u) \notin raced
  OBVIOUS
<1> QED BY <1>1 DEF Clocked

\* A step that only moves one request on, short of a payout.
LEMMA StaffMoves ==
  ASSUME StaffTypes, UNCHANGED <<db, committed, lock, log>>,
         RequestShape', NEW t \in Txns, OthersWait(t), ~Paying(t), ~Paying(t)', StaffRequest(t)'
  PROVE  StaffTypes'
<1>1. RowShape' /\ Grows
  BY SameRows DEF StaffTypes, Grows
<1>2. OneRunEach'
  BY DEF StaffTypes, OneRunEach
<1>3. \A kind, key : Entries(kind, key)' = Entries(kind, key)
  BY DEF Entries
<1> QED BY <1>1, <1>2, <1>3, StaffFrame DEF OthersWait, StaffTypes

LEMMA SameRecords ==
  ASSUME UNCHANGED committed
  PROVE  \A u \in Employees : RecordsOf(u, "open")' = RecordsOf(u, "open")
BY DEF RecordsOf

LEMMA ClockInKeeps ==
  ASSUME StaffTypes, Clocked, NEW t \in Txns, ClockIn(t)
  PROVE  StaffTypes' /\ Clocked'
<1>1. PICK u \in Employees, b \in Sites :
        /\ RecordsOf(u, "open") = {}
        /\ Begin(t, "clockin", "create", Employee(u), [site |-> b])
  BY DEF ClockIn
<1>2. PICK read : read = [site |-> b]
  OBVIOUS
<1>3. BeginBeside(t, "clockin", "create", Employee(u), read, {})
  BY <1>1, <1>2 DEF Begin
<1>4. /\ tx[t].op = "none" /\ tx'[t].op = "clockin" /\ tx'[t].pc = "create"
      /\ tx'[t].row = Employee(u) /\ OthersWait(t) /\ RequestShape'
  BY <1>3, BeginDoes DEF StaffTypes
<1>5. UNCHANGED <<db, committed, lock, log>> /\ raced \subseteq raced'
  BY <1>3 DEF BeginBeside
<1>6. StaffTypes'
  BY <1>4, <1>5, StaffMoves DEF Paying, StaffRequest
<1>7. Clocked'
  <2> SUFFICES ASSUME NEW v \in Employees, Employee(v) \notin raced'
               PROVE  /\ \A r, s \in RecordsOf(v, "open")' : r = s
                      /\ \A w \in Txns : tx'[w].op = "clockin" /\ tx'[w].row = Employee(v) =>
                           RecordsOf(v, "open")' = {}
    BY DEF Clocked
  <2>1. RecordsOf(v, "open")' = RecordsOf(v, "open") /\ Employee(v) \notin raced
    BY <1>5, SameRecords
  <2>2. v # u => tx'[t].row # Employee(v)
    BY <1>4, StaffRowsApart
  <2> QED BY <1>1, <1>4, <2>1, <2>2 DEF Clocked, OthersWait
<1> QED BY <1>6, <1>7

LEMMA ClockOutKeeps ==
  ASSUME StaffTypes, Clocked, NEW t \in Txns, ClockOut(t)
  PROVE  StaffTypes' /\ Clocked'
<1>a. PICK u \in Employees : \E r \in RecordsOf(u, "open") :
        Begin(t, "clockout", "close", Record(r), [was |-> committed[Record(r)]])
  BY DEF ClockOut
<1>1. PICK r \in RecordsOf(u, "open") :
        Begin(t, "clockout", "close", Record(r), [was |-> committed[Record(r)]])
  BY <1>a
<1>2. PICK read : read = [was |-> committed[Record(r)]]
  OBVIOUS
<1>3. BeginBeside(t, "clockout", "close", Record(r), read, {})
  BY <1>1, <1>2 DEF Begin
<1>4. r \in Records /\ committed[Record(r)].st # "none"
  BY DEF RecordsOf
<1>5. /\ tx[t].op = "none" /\ tx'[t].op = "clockout" /\ tx'[t].pc = "close"
      /\ tx'[t].row = Record(r) /\ OthersWait(t) /\ RequestShape'
  BY <1>3, BeginDoes DEF StaffTypes
<1>6. UNCHANGED <<db, committed, lock, log>> /\ raced \subseteq raced'
  BY <1>3 DEF BeginBeside
<1>7. StaffTypes'
  BY <1>4, <1>5, <1>6, StaffMoves DEF Paying, StaffRequest
<1>8. Clocked'
  BY <1>5, <1>6, SameRecords, ClockedStays DEF OthersWait
<1> QED BY <1>7, <1>8

\* Both generating steps read; what they pay for is there.
LEMMA GenerateKeeps ==
  ASSUME StaffTypes, Clocked, NEW t \in Txns, Generate(t)
  PROVE  StaffTypes' /\ Clocked'
<1>a. PICK b \in Sites :
        Begin(t, "generate", "salaried", NoTxn,
              [site |-> b,
               slips |-> {[who |-> committed[Record(r)].who, for |-> r] :
                            r \in {x \in Records : /\ committed[Record(x)].st = "closed"
                                                   /\ committed[Record(x)].site = b}}])
  BY DEF Generate
<1>b. PICK slips : slips = {[who |-> committed[Record(r)].who, for |-> r] :
                              r \in {x \in Records : /\ committed[Record(x)].st = "closed"
                                                     /\ committed[Record(x)].site = b}}
  OBVIOUS
<1>1. Begin(t, "generate", "salaried", NoTxn, [site |-> b, slips |-> slips])
  BY <1>a, <1>b
<1>2. PICK read : read = [site |-> b, slips |-> slips]
  OBVIOUS
<1>3. BeginBeside(t, "generate", "salaried", NoTxn, read, {})
  BY <1>1, <1>2 DEF Begin
<1>4. Slipped(b, slips)
  <2> DEFINE D == {x \in Records : /\ committed[Record(x)].st = "closed"
                                   /\ committed[Record(x)].site = b}
             g == [r \in D |-> [who |-> committed[Record(r)].who, for |-> r]]
  <2>1. IsFiniteSet(D)
    BY StaffAssumption, FS_Subset
  <2>2. slips = {g[r] : r \in D}
    BY <1>b
  <2>3. IsFiniteSet({g[r] : r \in D})
    <3> HIDE DEF D, g
    <3> QED BY <2>1, FiniteImage
  <2>5. IsFiniteSet(slips)
    BY <2>2, <2>3
  <2>6. ASSUME NEW s \in slips PROVE Slip(b, s)
    <3>1. PICK r \in D : s = [who |-> committed[Record(r)].who, for |-> r]
      BY <1>b
    <3>2. s.for = r /\ s.who = committed[Record(r)].who
      BY <3>1
    <3> QED BY <3>2 DEF Slip
  <2> QED BY <2>5, <2>6 DEF Slipped
<1>5. /\ tx[t].op = "none" /\ tx'[t].op = "generate" /\ tx'[t].pc = "salaried"
      /\ tx'[t].read = read /\ OthersWait(t) /\ RequestShape'
  BY <1>3, BeginDoes DEF StaffTypes
<1>6. UNCHANGED <<db, committed, lock, log>> /\ raced \subseteq raced'
  BY <1>3 DEF BeginBeside
<1>7. StaffRequest(t)'
  <2>1. read.site = b /\ read.slips = slips /\ read = [site |-> read.site, slips |-> read.slips]
    BY <1>2
  <2>2. Slipped(b, slips)'
    BY <1>4, <1>6, SlippedStays DEF Grows
  <2> QED BY <1>5, <2>1, <2>2 DEF StaffRequest
<1>8. StaffTypes'
  BY <1>5, <1>6, <1>7, StaffMoves DEF Paying
<1>9. Clocked'
  BY <1>5, <1>6, SameRecords, ClockedStays DEF OthersWait
<1> QED BY <1>8, <1>9

LEMMA ReadSalariedKeeps ==
  ASSUME StaffTypes, Clocked, NEW t \in Txns, ReadSalaried(t)
  PROVE  StaffTypes' /\ Clocked'
<1>1. PICK was : was = tx[t].read
  OBVIOUS
<1>2. tx[t].op = "generate" /\ tx[t].pc = "salaried" /\ StaffRequest(t)
  BY DEF ReadSalaried, Doing, StaffTypes
<1>3. was = [site |-> was.site, slips |-> was.slips] /\ Slipped(was.site, was.slips)
  BY <1>1, <1>2 DEF StaffRequest
<1>4. PICK worked, paid : /\ worked = {s.who : s \in was.slips}
                          /\ paid = {u \in Salaried : committed[Employee(u)] = was.site \/ u \in worked}
  OBVIOUS
<1>5. PICK salaries : salaries = {Salary(u) : u \in paid}
  OBVIOUS
<1>6. PICK read : read = [was EXCEPT !.slips = @ \union salaries]
  OBVIOUS
<1>7. read = [site |-> was.site, slips |-> was.slips \union salaries]
  BY <1>3, <1>6
<1>8. Continue(t, "create", read, {}) /\ UNCHANGED <<db, lock, raced>>
  BY <1>1, <1>4, <1>5, <1>6 DEF ReadSalaried
<1>9. Slipped(was.site, was.slips \union salaries)
  <2>1. IsFiniteSet(salaries)
    <3> DEFINE g == [u \in paid |-> Salary(u)]
    <3>1. IsFiniteSet(paid)
      BY <1>4, StaffAssumption, FS_Subset
    <3>2. salaries = {g[u] : u \in paid}
      BY <1>5
    <3>3. IsFiniteSet({g[u] : u \in paid})
      BY <3>1, FiniteImage
    <3> QED BY <3>2, <3>3
  <2>2. IsFiniteSet(was.slips \union salaries)
    BY <1>3, <2>1, FS_Union DEF Slipped
  <2>3. ASSUME NEW s \in salaries PROVE Slip(was.site, s)
    <3>1. PICK u \in paid : s = Salary(u)
      BY <1>5
    <3>2. s.who = u /\ s.for = Base
      BY <3>1 DEF Salary
    <3>3. CASE committed[Employee(u)] = was.site
      <4>1. u \in Employees
        BY <1>4, StaffAssumption
      <4> QED BY <3>2, <3>3, <4>1 DEF Slip, AtHomeOnly, StaffTypes
    <3>4. CASE u \in worked
      <4>1. PICK x \in was.slips : x.who = u
        BY <1>4, <3>4
      <4>2. Slip(was.site, x)
        BY <1>3 DEF Slipped
      <4>3. AtHomeOnly(u) => was.site = Home[u]
        BY <4>1, <4>2 DEF Slip, AtHomeOnly
      <4> QED BY <3>2, <4>3 DEF Slip
    <3> QED BY <1>4, <3>3, <3>4
  <2> QED BY <1>3, <2>2, <2>3 DEF Slipped
<1>10. /\ tx'[t].op = "generate" /\ tx'[t].pc = "create" /\ tx'[t].read = read
       /\ OthersWait(t) /\ RequestShape'
  BY <1>2, <1>8, ContinueDoes DEF StaffTypes
<1>11. UNCHANGED <<db, committed, lock, log>> /\ raced \subseteq raced'
  BY <1>8 DEF Continue
<1>12. StaffRequest(t)'
  <2>1. /\ read.site = was.site /\ read.slips = was.slips \union salaries
        /\ read = [site |-> read.site, slips |-> read.slips]
    BY <1>7
  <2>2. Slipped(was.site, was.slips \union salaries)'
    BY <1>9, <1>11, SlippedStays DEF Grows
  <2> QED BY <1>10, <2>1, <2>2 DEF StaffRequest
<1>13. StaffTypes'
  BY <1>2, <1>10, <1>11, <1>12, StaffMoves DEF Paying
<1>14. Clocked'
  BY <1>10, <1>11, SameRecords, ClockedStays DEF OthersWait
<1> QED BY <1>13, <1>14

LEMMA ReadRunKeeps ==
  ASSUME StaffTypes, Clocked, NEW t \in Txns, ReadRun(t)
  PROVE  StaffTypes' /\ Clocked'
<1>1. PICK n \in Runs : /\ committed[Run(n)].st = "DRAFT"
                        /\ Begin(t, "payout", "claim", Run(n), [slips |-> committed[Run(n)].slips])
  BY DEF ReadRun
<1>2. PICK read : read = [slips |-> committed[Run(n)].slips]
  OBVIOUS
<1>3. BeginBeside(t, "payout", "claim", Run(n), read, {}) /\ read.slips = committed[Run(n)].slips
  BY <1>1, <1>2 DEF Begin
<1>4. /\ tx[t].op = "none" /\ tx'[t].op = "payout" /\ tx'[t].pc = "claim"
      /\ tx'[t].row = Run(n) /\ tx'[t].read = read /\ OthersWait(t) /\ RequestShape'
  BY <1>3, BeginDoes DEF StaffTypes
<1>5. UNCHANGED <<db, committed, lock, log>> /\ raced \subseteq raced'
  BY <1>3 DEF BeginBeside
<1>6. StaffTypes'
  BY <1>1, <1>3, <1>4, <1>5, StaffMoves DEF Paying, StaffRequest
<1>7. Clocked'
  BY <1>4, <1>5, SameRecords, ClockedStays DEF OthersWait
<1> QED BY <1>6, <1>7

LEMMA MoveKeeps == ASSUME StaffTypes, Clocked, Move PROVE StaffTypes' /\ Clocked'
<1>1. PICK u \in Employees, b \in Sites :
        /\ Put(Employee(u), b)
        /\ Logged({[kind |-> "moved", key |-> u, amount |-> 0]})
  BY DEF Move
<1>2. PICK x : x = [kind |-> "moved", key |-> u, amount |-> 0]
  OBVIOUS
<1>3. x.kind = "moved" /\ x.key = u /\ Logged({x})
  BY <1>1, <1>2
<1>4. /\ DOMAIN log' = DOMAIN log \union {x}
      /\ \A n : Entries("payroll", n)' = Entries("payroll", n)
      /\ \A n : \A e \in Entries("payroll", n) : log[e] = 1 => log'[e] = 1
  <2>1. PICK entries : entries = {x}
    OBVIOUS
  <2>2. (\A e \in entries : e.kind # "payroll") /\ Logged(entries)
    BY <1>3, <2>1
  <2> QED BY <2>1, <2>2, OtherEntries
<1>5. /\ lock[Employee(u)] = NoTxn /\ lock' = lock
      /\ db'[Employee(u)] = b /\ committed'[Employee(u)] = b
      /\ \A r \in Rows \ {Employee(u)} : db'[r] = db[r] /\ committed'[r] = committed[r]
      /\ RowShape'
  BY <1>1, StaffRowsApart, PutDoes DEF StaffTypes
<1>6. RequestShape' /\ (\A t \in Txns : tx'[t] = tx[t]) /\ raced' = raced
  BY SameRequests DEF StaffTypes, Move, Single
<1>7. /\ \A r \in Records : committed'[Record(r)] = committed[Record(r)]
      /\ \A n \in Runs : committed'[Run(n)] = committed[Run(n)]
      /\ \A v \in Employees \ {u} : committed'[Employee(v)] = committed[Employee(v)]
  BY <1>5, StaffRowsApart
<1>8. Grows
  BY <1>4, <1>7 DEF Grows
<1>9. \A v \in Employees : Entries("moved", v)' = {} => v # u /\ Entries("moved", v) = {}
  BY <1>3, <1>4 DEF Entries
<1>10. OneRunEach'
  BY <1>7 DEF StaffTypes, OneRunEach
<1>11. StaffTypes'
  BY <1>4, <1>5, <1>6, <1>7, <1>8, <1>9, <1>10, StaffFrame DEF StaffTypes
<1>12. \A v \in Employees : RecordsOf(v, "open")' = RecordsOf(v, "open")
  BY <1>7 DEF RecordsOf
<1>13. Clocked'
  BY <1>6, <1>12, ClockedStays
<1> QED BY <1>11, <1>13

LEMMA DecideLeaveKeeps == ASSUME StaffTypes, Clocked, DecideLeave PROVE StaffTypes' /\ Clocked'
<1>1. PICK l \in Leaves, decision \in {"APPROVED", "REJECTED"} :
        /\ Put(Leave(l), decision)
        /\ Logged({[kind |-> "leave", key |-> l, amount |-> 0]})
  BY DEF DecideLeave
<1>2. PICK x : x = [kind |-> "leave", key |-> l, amount |-> 0]
  OBVIOUS
<1>3. x.kind = "leave" /\ Logged({x})
  BY <1>1, <1>2
<1>4. /\ DOMAIN log' = DOMAIN log \union {x}
      /\ \A n : Entries("payroll", n)' = Entries("payroll", n)
      /\ \A n : \A e \in Entries("payroll", n) : log[e] = 1 => log'[e] = 1
  <2>1. PICK entries : entries = {x}
    OBVIOUS
  <2>2. (\A e \in entries : e.kind # "payroll") /\ Logged(entries)
    BY <1>3, <2>1
  <2> QED BY <2>1, <2>2, OtherEntries
<1>5. /\ lock[Leave(l)] = NoTxn /\ lock' = lock /\ db'[Leave(l)] = committed'[Leave(l)]
      /\ \A r \in Rows \ {Leave(l)} : db'[r] = db[r] /\ committed'[r] = committed[r]
      /\ RowShape'
  BY <1>1, StaffRowsApart, PutDoes DEF StaffTypes
<1>6. RequestShape' /\ (\A t \in Txns : tx'[t] = tx[t]) /\ raced' = raced
  BY SameRequests DEF StaffTypes, DecideLeave, Single
<1>7. /\ \A r \in Records : committed'[Record(r)] = committed[Record(r)]
      /\ \A n \in Runs : committed'[Run(n)] = committed[Run(n)]
      /\ \A u \in Employees : committed'[Employee(u)] = committed[Employee(u)]
  BY <1>5, StaffRowsApart
<1>8. Grows
  BY <1>4, <1>7 DEF Grows
<1>9. \A u \in Employees : Entries("moved", u)' = {} => Entries("moved", u) = {}
  BY <1>4 DEF Entries
<1>10. OneRunEach'
  BY <1>7 DEF StaffTypes, OneRunEach
<1>11. StaffTypes'
  BY <1>4, <1>5, <1>6, <1>7, <1>8, <1>9, <1>10, StaffFrame DEF StaffTypes
<1>12. \A u \in Employees : RecordsOf(u, "open")' = RecordsOf(u, "open")
  BY <1>7 DEF RecordsOf
<1>13. Clocked'
  BY <1>6, <1>12, ClockedStays
<1> QED BY <1>11, <1>13

\* What writing one record and ending the request leaves of StaffTypes.
LEMMA RecordWritten ==
  ASSUME StaffTypes, NEW t \in Txns, ~Paying(t), NEW r \in Records, NEW value,
         Put(Record(r), value), Finish(t), UNCHANGED log,
         IsRecord(value), value.st # "none",
         committed[Record(r)].st # "none" =>
           value.who = committed[Record(r)].who /\ value.site = committed[Record(r)].site
  PROVE  /\ StaffTypes'
         /\ committed'[Record(r)] = value
         /\ \A s \in Records \ {r} : committed'[Record(s)] = committed[Record(s)]
         /\ tx'[t].op = "none" /\ OthersWait(t)
<1>1. /\ lock[Record(r)] = NoTxn /\ lock' = lock
      /\ db'[Record(r)] = value /\ committed'[Record(r)] = value
      /\ \A x \in Rows \ {Record(r)} : db'[x] = db[x] /\ committed'[x] = committed[x]
      /\ RowShape'
  BY StaffRowsApart, PutDoes DEF StaffTypes
<1>2. tx'[t].op = "none" /\ tx'[t].pc = "none" /\ OthersWait(t) /\ RequestShape'
  BY FinishDoes DEF Finish, StaffTypes
<1>3. /\ \A s \in Records \ {r} : committed'[Record(s)] = committed[Record(s)]
      /\ \A n \in Runs : committed'[Run(n)] = committed[Run(n)]
      /\ \A u \in Employees : committed'[Employee(u)] = committed[Employee(u)]
  BY <1>1, StaffRowsApart
<1>4. Grows
  BY <1>1, <1>3 DEF Grows
<1>5. \A kind, key : Entries(kind, key)' = Entries(kind, key)
  BY DEF Entries
<1>6. OneRunEach'
  BY <1>3 DEF StaffTypes, OneRunEach
<1>7. ~Paying(t)' /\ StaffRequest(t)'
  BY <1>2 DEF Paying, StaffRequest
<1>8. \A s \in Records : committed'[Record(s)] = NoRecord \/ IsRecord(committed'[Record(s)])
  BY <1>1, <1>3 DEF StaffTypes
<1>9. StaffTypes'
  BY <1>1, <1>2, <1>3, <1>4, <1>5, <1>6, <1>7, <1>8, StaffFrame DEF StaffTypes, OthersWait
<1> QED BY <1>1, <1>2, <1>3, <1>9

\* Record rows are never locked, so that every reader sees them.
LEMMA RecordSeen ==
  ASSUME StaffTypes, NEW r \in Records
  PROVE  lock[Record(r)] = NoTxn /\ db[Record(r)] = committed[Record(r)]
<1>1. ASSUME lock[Record(r)] # NoTxn PROVE FALSE
  <2>1. PICK t : t = lock[Record(r)]
    OBVIOUS
  <2>2. t \in Txns /\ Paying(t) /\ tx[t].row = Record(r)
    BY <1>1, <2>1, StaffRowsApart DEF StaffTypes, RowShape
  <2>3. StaffRequest(t)
    BY <2>2 DEF StaffTypes
  <2> QED BY <2>2, <2>3, StaffRowsApart DEF StaffRequest, Paying
<1> QED BY <1>1, StaffRowsApart DEF StaffTypes

LEMMA CreateRecordKeeps ==
  ASSUME StaffTypes, Clocked, NEW t \in Txns, CreateRecord(t)
  PROVE  StaffTypes' /\ Clocked'
<1>1. /\ tx[t].op = "clockin" /\ tx[t].pc = "create" /\ ~Paying(t)
      /\ StaffRequest(t)
  BY DEF CreateRecord, Doing, StaffTypes, Paying
<1>2. PICK u \in Employees : tx[t].row = Employee(u)
  BY <1>1 DEF StaffRequest
<1>3. tx[t].row[2] = u
  BY <1>2, StaffRowsApart
<1>4. PICK r \in Records :
        /\ db[Record(r)].st = "none"
        /\ Put(Record(r), [st |-> "open", who |-> u, site |-> tx[t].read.site])
        /\ raced' = IF \E v \in Txns \ {t} : tx[v].op = "clockin" /\ tx[v].row = tx[t].row
                      THEN raced \union {Employee(u)} ELSE raced
        /\ Finish(t)
        /\ UNCHANGED log
  BY <1>3 DEF CreateRecord, FreshId, Recorded
<1>5. PICK value : value = [st |-> "open", who |-> u, site |-> tx[t].read.site]
  OBVIOUS
<1>6. value.st = "open" /\ value.who = u /\ IsRecord(value) /\ Put(Record(r), value)
  BY <1>4, <1>5 DEF IsRecord
<1>7. committed[Record(r)].st = "none"
  BY <1>4, RecordSeen
<1>8. /\ StaffTypes'
      /\ committed'[Record(r)] = value
      /\ \A s \in Records \ {r} : committed'[Record(s)] = committed[Record(s)]
      /\ tx'[t].op = "none" /\ OthersWait(t)
  BY <1>1, <1>4, <1>6, <1>7, RecordWritten
<1>9. Clocked'
  <2> SUFFICES ASSUME NEW v \in Employees, Employee(v) \notin raced'
               PROVE  /\ \A x, y \in RecordsOf(v, "open")' : x = y
                      /\ \A w \in Txns : tx'[w].op = "clockin" /\ tx'[w].row = Employee(v) =>
                           RecordsOf(v, "open")' = {}
    BY DEF Clocked
  <2>1. Employee(v) \notin raced
    BY <1>4
  <2>2. CASE v # u
    <3>1. RecordsOf(v, "open")' = RecordsOf(v, "open")
      BY <1>6, <1>7, <1>8, <2>2 DEF RecordsOf
    <3> QED BY <1>8, <2>1, <3>1 DEF Clocked, OthersWait
  <2>3. CASE v = u
    <3>1. \A w \in Txns \ {t} : ~(tx[w].op = "clockin" /\ tx[w].row = tx[t].row)
      BY <1>4, <2>3
    <3>2. RecordsOf(u, "open") = {}
      BY <1>1, <1>2, <2>1, <2>3 DEF Clocked
    <3>3. RecordsOf(u, "open")' \subseteq {r}
      BY <1>8, <3>2 DEF RecordsOf
    <3>4. \A w \in Txns : ~(tx'[w].op = "clockin" /\ tx'[w].row = Employee(u))
      BY <1>2, <1>8, <3>1 DEF OthersWait
    <3> QED BY <2>3, <3>3, <3>4
  <2> QED BY <2>2, <2>3
<1> QED BY <1>8, <1>9

LEMMA CloseRecordKeeps ==
  ASSUME StaffTypes, Clocked, NEW t \in Txns, CloseRecord(t)
  PROVE  StaffTypes' /\ Clocked'
<1>1. tx[t].op = "clockout" /\ ~Paying(t) /\ StaffRequest(t)
  BY DEF CloseRecord, Doing, StaffTypes, Paying
<1>2. PICK r \in Records : tx[t].row = Record(r) /\ committed[Record(r)].st # "none"
  BY <1>1 DEF StaffRequest
<1>3. PICK was : was = committed[Record(r)]
  OBVIOUS
<1>4. was = [st |-> was.st, who |-> was.who, site |-> was.site]
  BY <1>2, <1>3 DEF StaffTypes, IsRecord, NoRecord
<1>5. PICK value : value = [was EXCEPT !.st = "closed"]
  OBVIOUS
<1>6. value = [st |-> "closed", who |-> was.who, site |-> was.site]
  BY <1>4, <1>5
<1>7. value.st = "closed" /\ value.who = was.who /\ value.site = was.site /\ IsRecord(value)
  BY <1>6 DEF IsRecord
<1>8. /\ Put(Record(r), value) /\ Finish(t) /\ UNCHANGED log
      /\ raced \subseteq raced'
  BY <1>2, <1>3, <1>5, RecordSeen DEF CloseRecord, Races
<1>9. /\ StaffTypes'
      /\ committed'[Record(r)] = value
      /\ \A s \in Records \ {r} : committed'[Record(s)] = committed[Record(s)]
      /\ tx'[t].op = "none" /\ OthersWait(t)
  BY <1>1, <1>3, <1>7, <1>8, RecordWritten
<1>10. \A u \in Employees : RecordsOf(u, "open")' \subseteq RecordsOf(u, "open")
  BY <1>7, <1>9 DEF RecordsOf
<1>11. Clocked'
  BY <1>8, <1>9, <1>10, ClockedStays DEF OthersWait
<1> QED BY <1>9, <1>11

\* Whoever looks at the latest versions sees every run there is, at its branch.
LEMMA RunSeen ==
  ASSUME StaffTypes, NEW n \in Runs
  PROVE  /\ committed[Run(n)].st # "none" =>
              db[Run(n)].st # "none" /\ db[Run(n)].site = committed[Run(n)].site
         /\ db[Run(n)].st = "none" => lock[Run(n)] = NoTxn /\ committed[Run(n)].st = "none"
<1>1. CASE lock[Run(n)] = NoTxn
  BY <1>1, StaffRowsApart DEF StaffTypes
<1>2. CASE lock[Run(n)] # NoTxn
  <2>1. PICK t : t = lock[Run(n)]
    OBVIOUS
  <2>2. t \in Txns /\ Paying(t) /\ tx[t].row = Run(n)
    BY <1>2, <2>1, StaffRowsApart DEF StaffTypes, RowShape
  <2>3. PayoutHeld(t)
    BY <2>2 DEF StaffTypes
  <2> QED BY <2>2, <2>3 DEF PayoutHeld
<1> QED BY <1>1, <1>2

LEMMA CreateRunKeeps ==
  ASSUME StaffTypes, Clocked, NEW t \in Txns, CreateRun(t)
  PROVE  StaffTypes' /\ Clocked'
<1>1. /\ tx[t].op = "generate" /\ tx[t].pc = "create" /\ ~Paying(t)
      /\ StaffRequest(t)
  BY DEF CreateRun, Doing, StaffTypes, Paying
<1>2. PICK b, slips : b = tx[t].read.site /\ slips = tx[t].read.slips
  OBVIOUS
<1>3. Slipped(b, slips)
  BY <1>1, <1>2 DEF StaffRequest
<1>4. tx'[t].op = "none" /\ tx'[t].pc = "none" /\ OthersWait(t) /\ RequestShape'
  BY FinishDoes DEF CreateRun, Finish, StaffTypes
<1>5. ~Paying(t)' /\ StaffRequest(t)' /\ UNCHANGED <<log, raced>>
  BY <1>4 DEF Paying, StaffRequest, CreateRun
<1>6. CASE UNCHANGED <<db, committed, lock>>
  <2>1. StaffTypes'
    BY <1>1, <1>4, <1>5, <1>6, StaffMoves
  <2>2. Clocked'
    BY <1>4, <1>5, <1>6, SameRecords, ClockedStays DEF OthersWait
  <2> QED BY <2>1, <2>2
<1>7. CASE ~UNCHANGED <<db, committed, lock>>
  <2>1. PICK n \in Runs : /\ db[Run(n)].st = "none" /\ RunsOf(db, b) = {}
                          /\ Put(Run(n), [st |-> "DRAFT", site |-> b, slips |-> slips])
    BY <1>2, <1>7 DEF CreateRun, FreshId, Ran
  <2>2. PICK value : value = [st |-> "DRAFT", site |-> b, slips |-> slips]
    OBVIOUS
  <2>3. /\ value.st = "DRAFT" /\ value.site = b /\ value.slips = slips
        /\ IsRun(value) /\ Put(Run(n), value)
    BY <2>1, <2>2 DEF IsRun
  <2>4. /\ lock[Run(n)] = NoTxn /\ lock' = lock
        /\ db'[Run(n)] = value /\ committed'[Run(n)] = value
        /\ \A r \in Rows \ {Run(n)} : db'[r] = db[r] /\ committed'[r] = committed[r]
        /\ RowShape'
    BY <2>3, StaffRowsApart, PutDoes DEF StaffTypes
  <2>5. /\ \A r \in Records : committed'[Record(r)] = committed[Record(r)]
        /\ \A m \in Runs \ {n} : committed'[Run(m)] = committed[Run(m)]
        /\ \A u \in Employees : committed'[Employee(u)] = committed[Employee(u)]
    BY <2>4, StaffRowsApart
  <2>6. Grows /\ \A kind, key : Entries(kind, key)' = Entries(kind, key)
    BY <1>5, <2>5 DEF Grows, Entries
  <2>7. RunOf(n)' /\ committed'[Run(n)].st = "DRAFT" /\ committed[Run(n)].st = "none"
    <3>1. Slipped(b, slips)'
      BY <1>3, <2>6, SlippedStays
    <3> QED BY <2>1, <2>3, <2>4, <3>1, RunSeen DEF RunOf
  <2>8. OneRunEach'
    <3>1. ASSUME NEW m \in Runs \ {n}, committed[Run(m)].st # "none" PROVE committed[Run(m)].site # b
      BY <2>1, <3>1, RunSeen DEF RunsOf
    <3> SUFFICES ASSUME NEW k \in Runs, NEW m \in Runs,
                        committed'[Run(k)].st # "none", committed'[Run(m)].st # "none",
                        committed'[Run(k)].site = committed'[Run(m)].site
                 PROVE  k = m
      BY DEF OneRunEach
    <3>2. CASE k = n
      BY <2>3, <2>4, <2>5, <3>1, <3>2
    <3>3. CASE m = n
      BY <2>3, <2>4, <2>5, <3>1, <3>3
    <3>4. CASE k # n /\ m # n
      BY <2>5, <3>4 DEF StaffTypes, OneRunEach
    <3> QED BY <3>2, <3>3, <3>4
  <2>9. StaffTypes'
    BY <1>1, <1>4, <1>5, <2>4, <2>5, <2>6, <2>7, <2>8, StaffFrame DEF StaffTypes, OthersWait
  <2>10. \A u \in Employees : RecordsOf(u, "open")' = RecordsOf(u, "open")
    BY <2>5 DEF RecordsOf
  <2>11. Clocked'
    BY <1>4, <1>5, <2>10, ClockedStays DEF OthersWait
  <2> QED BY <2>9, <2>11
<1> QED BY <1>6, <1>7

\* A request that gives up leaves the committed rows as they are.
LEMMA StaffGivesUp ==
  ASSUME StaffTypes, Clocked, NEW t \in Txns, UndoWrites(t), Finish(t), UNCHANGED <<log, raced>>
  PROVE  StaffTypes' /\ Clocked'
<1>1. t # NoTxn
  BY RequestsAssumption
<1>2. /\ committed' = committed /\ RowShape'
      /\ \A r \in Rows : lock[r] = t => db'[r] = committed[r] /\ lock'[r] = NoTxn
      /\ \A r \in Rows : lock[r] # t => db'[r] = db[r] /\ lock'[r] = lock[r]
  BY UndoDoes DEF StaffTypes
<1>3. tx'[t].op = "none" /\ tx'[t].pc = "none" /\ OthersWait(t) /\ RequestShape'
  BY FinishDoes DEF Finish, StaffTypes
<1>4. Grows /\ \A kind, key : Entries(kind, key)' = Entries(kind, key)
  BY <1>2 DEF Grows, Entries
<1>5. ASSUME NEW n \in Runs PROVE RunOf(n)' /\ Told(n)'
  BY <1>2, <1>4, SlippedStays DEF StaffTypes, RunOf, Told, PayEntry
<1>6. ASSUME NEW r \in Rows
      PROVE  IF lock'[r] = NoTxn THEN db'[r] = committed'[r]
             ELSE Paying(lock[r])' /\ tx'[lock'[r]].row = r
  <2>1. CASE lock[r] = t
    BY <1>2, <2>1
  <2>2. CASE lock[r] # t
    <3>1. lock[r] \in Txns \union {NoTxn}
      BY DEF StaffTypes, RowShape
    <3> QED BY <1>1, <1>2, <1>3, <2>2, <3>1 DEF StaffTypes, OthersWait, Paying
  <2> QED BY <2>1, <2>2
<1>7. ASSUME NEW u \in Txns PROVE StaffRequest(u)'
  <2>1. CASE u = t
    BY <1>3, <2>1 DEF StaffRequest
  <2>2. CASE u # t
    <3>1. tx'[u] = tx[u] /\ StaffRequest(u)
      BY <1>3, <2>2 DEF OthersWait, StaffTypes
    <3> QED BY <1>2, <1>4, <3>1, SlippedStays DEF StaffRequest
  <2> QED BY <2>1, <2>2
<1>8. ASSUME NEW u \in Txns, Paying(u)' PROVE PayoutHeld(u)'
  <2>1. u # t /\ tx'[u] = tx[u] /\ Paying(u) /\ PayoutHeld(u) /\ StaffRequest(u)
    BY <1>3, <1>8 DEF StaffTypes, Paying, OthersWait
  <2>2. tx[u].row \in Rows
    BY <2>1, StaffRowsApart DEF StaffRequest, Paying
  <2> QED BY <1>2, <2>1, <2>2 DEF PayoutHeld
<1>9. OneRunEach'
  BY <1>2 DEF StaffTypes, OneRunEach
<1>10. StaffTypes'
  BY <1>2, <1>3, <1>4, <1>5, <1>6, <1>7, <1>8, <1>9 DEF StaffTypes
<1>11. Clocked'
  BY <1>2, <1>3, SameRecords, ClockedStays DEF OthersWait
<1> QED BY <1>10, <1>11

LEMMA ClaimRunKeeps ==
  ASSUME StaffTypes, Clocked, NEW t \in Txns, ClaimRun(t)
  PROVE  StaffTypes' /\ Clocked'
<1>1. /\ t # NoTxn /\ tx[t].op = "payout" /\ tx[t].pc = "claim" /\ ~Paying(t) /\ StaffRequest(t)
  BY RequestsAssumption DEF ClaimRun, Doing, StaffTypes, Paying
<1>2. PICK n \in Runs : /\ tx[t].row = Run(n) /\ committed[Run(n)].st # "none"
                        /\ tx[t].read.slips = committed[Run(n)].slips
  BY <1>1 DEF StaffRequest
<1>3. lock[Run(n)] = NoTxn /\ db[Run(n)] = committed[Run(n)] /\ Run(n)[2] = n
  <2>1. lock[Run(n)] # t
    BY <1>1, StaffRowsApart DEF StaffTypes
  <2> QED BY <1>2, <2>1, StaffRowsApart DEF ClaimRun, MayWrite, StaffTypes
<1>4. CASE Throw(t)
  BY <1>4, StaffGivesUp DEF Throw
<1>5. CASE ~Throw(t)
  <2>1. PICK was : was = committed[Run(n)]
    OBVIOUS
  <2>2. PICK value : value = [was EXCEPT !.st = "APPROVED"]
    OBVIOUS
  <2>3. PICK out : out = Payout(n, was.slips)
    OBVIOUS
  <2>4. /\ was.st = "DRAFT" /\ Write(t, Run(n), value)
        /\ Continue(t, "commit", tx[t].read, out) /\ UNCHANGED raced
    BY <1>2, <1>3, <1>5, <2>1, <2>2, <2>3 DEF ClaimRun
  <2>5. was = [st |-> was.st, site |-> was.site, slips |-> was.slips]
    BY <1>2, <2>1 DEF StaffTypes, RunOf, IsRun, NoRun
  <2>6. value = [st |-> "APPROVED", site |-> was.site, slips |-> was.slips]
    BY <2>2, <2>5
  <2>7. IsRun(value) /\ value.st = "APPROVED" /\ value.site = was.site /\ value.slips = was.slips
    BY <2>6 DEF IsRun
  <2>8. UNCHANGED <<committed, log>>
    BY <2>4 DEF Continue
  <2>9. /\ lock'[Run(n)] = t /\ db'[Run(n)] = value
        /\ \A r \in Rows \ {Run(n)} : db'[r] = db[r] /\ lock'[r] = lock[r]
        /\ RowShape'
    BY <2>4, <2>8, StaffRowsApart, WriteDoes DEF StaffTypes
  <2>10. /\ tx'[t].op = "payout" /\ tx'[t].pc = "commit" /\ tx'[t].row = Run(n)
         /\ tx'[t].read = tx[t].read /\ tx'[t].out = out /\ OthersWait(t) /\ RequestShape'
    BY <1>1, <1>2, <2>4, ContinueDoes DEF StaffTypes
  <2>11. Grows /\ \A kind, key : Entries(kind, key)' = Entries(kind, key)
    BY <2>8 DEF Grows, Entries
  <2>12. ASSUME NEW m \in Runs PROVE RunOf(m)' /\ Told(m)'
    BY <2>8, <2>11, SlippedStays DEF StaffTypes, RunOf, Told, PayEntry
  <2>13. ASSUME NEW r \in Rows
         PROVE  IF lock'[r] = NoTxn THEN db'[r] = committed'[r]
                ELSE Paying(lock[r])' /\ tx'[lock'[r]].row = r
    <3>1. CASE r = Run(n)
      BY <1>1, <2>9, <2>10, <3>1 DEF Paying
    <3>2. CASE r # Run(n)
      <4>1. lock[r] \in Txns \union {NoTxn} /\ lock[r] # t
        BY <1>1 DEF StaffTypes, RowShape
      <4> QED BY <2>8, <2>9, <2>10, <3>2, <4>1 DEF StaffTypes, OthersWait, Paying
    <3> QED BY <3>1, <3>2
  <2>14. ASSUME NEW u \in Txns PROVE StaffRequest(u)'
    <3>1. CASE u = t
      BY <1>2, <2>8, <2>10, <3>1 DEF StaffRequest
    <3>2. CASE u # t
      <4>1. tx'[u] = tx[u] /\ StaffRequest(u)
        BY <2>10, <3>2 DEF OthersWait, StaffTypes
      <4> QED BY <2>8, <2>11, <4>1, SlippedStays DEF StaffRequest
    <3> QED BY <3>1, <3>2
  <2>15. ASSUME NEW u \in Txns, Paying(u)' PROVE PayoutHeld(u)'
    <3>1. CASE u = t
      BY <1>3, <2>1, <2>3, <2>4, <2>7, <2>8, <2>9, <2>10, <3>1 DEF PayoutHeld
    <3>2. CASE u # t
      <4>1. tx'[u] = tx[u] /\ Paying(u) /\ PayoutHeld(u) /\ StaffRequest(u)
        BY <2>10, <2>15, <3>2 DEF StaffTypes, Paying, OthersWait
      <4>2. tx[u].row \in Rows /\ tx[u].row # Run(n)
        BY <1>3, <4>1, StaffRowsApart, RequestsAssumption DEF StaffRequest, Paying, PayoutHeld
      <4> QED BY <2>8, <2>9, <4>1, <4>2 DEF PayoutHeld
    <3> QED BY <3>1, <3>2
  <2>16. OneRunEach'
    BY <2>8 DEF StaffTypes, OneRunEach
  <2>17. StaffTypes'
    BY <2>8, <2>9, <2>10, <2>11, <2>12, <2>13, <2>14, <2>15, <2>16 DEF StaffTypes
  <2>18. Clocked'
    BY <1>1, <2>4, <2>8, <2>10, SameRecords, ClockedStays DEF OthersWait
  <2> QED BY <2>17, <2>18
<1> QED BY <1>4, <1>5

\* Approved and told in one commit.
LEMMA PayoutCommits ==
  ASSUME StaffTypes, Clocked, NEW t \in Txns, Commit(t)
  PROVE  StaffTypes' /\ Clocked'
<1>1. t # NoTxn /\ Paying(t) /\ PayoutHeld(t) /\ StaffRequest(t) /\ raced' = raced
  BY RequestsAssumption DEF StaffTypes, StaffRequest, Paying, Commit
<1>2. PICK n \in Runs : tx[t].row = Run(n)
  BY <1>1 DEF StaffRequest, Paying
<1>3. PICK was : was = committed[Run(n)]
  OBVIOUS
<1>4. PICK value : value = db[Run(n)]
  OBVIOUS
<1>5. /\ lock[Run(n)] = t /\ was.st = "DRAFT" /\ IsRun(value) /\ value.st = "APPROVED"
      /\ value.site = was.site /\ value.slips = was.slips
      /\ tx[t].out = Payout(n, was.slips)
  BY <1>1, <1>2, <1>3, <1>4, StaffRowsApart DEF PayoutHeld
<1>6. \A r \in Rows : lock[r] = t <=> r = Run(n)
  BY <1>1, <1>2, <1>5 DEF StaffTypes
<1>7. /\ db' = db /\ RowShape'
      /\ committed'[Run(n)] = value /\ lock'[Run(n)] = NoTxn
      /\ \A r \in Rows \ {Run(n)} : committed'[r] = committed[r] /\ lock'[r] = lock[r]
  BY <1>4, <1>6, StaffRowsApart, KeepDoes DEF StaffTypes, Commit
<1>8. tx'[t].op = "none" /\ tx'[t].pc = "none" /\ OthersWait(t) /\ RequestShape'
  BY FinishDoes DEF Commit, Finish, StaffTypes
<1>9. /\ \A r \in Records : committed'[Record(r)] = committed[Record(r)]
      /\ \A m \in Runs \ {n} : committed'[Run(m)] = committed[Run(m)]
      /\ \A u \in Employees : committed'[Employee(u)] = committed[Employee(u)]
  BY <1>7, StaffRowsApart
<1>10. PICK entry : entry = PayEntry(n, was.slips)
  OBVIOUS
<1>11. entry.kind = "payroll" /\ entry.key = n
  BY <1>10 DEF PayEntry
<1>12. PICK out : out = IF was.slips = {} THEN {} ELSE {entry}
  OBVIOUS
<1>13. Logged(out)
  <2>1. tx[t].out = out
    BY <1>5, <1>10, <1>12 DEF Payout, PayEntry
  <2> QED BY <2>1 DEF Commit
<1>14. DOMAIN log' = DOMAIN log \union out
  BY <1>13 DEF Logged
<1>15. \A e \in DOMAIN log' : log'[e] = Times(e) + (IF e \in out THEN 1 ELSE 0)
  BY <1>13, LoggedDoes
<1>16. Entries("payroll", n) = {} /\ entry \notin DOMAIN log
  <2>1. Entries("payroll", n) = {}
    BY <1>3, <1>5 DEF StaffTypes, Told
  <2> QED BY <1>11, <2>1 DEF Entries
<1>17. Grows
  BY <1>9, <1>14 DEF Grows
<1>18. ASSUME NEW m \in Runs PROVE RunOf(m)' /\ Told(m)'
  <2>1. RunOf(m) /\ Told(m)
    BY DEF StaffTypes
  <2>2. CASE m = n
    <3>1. RunOf(n)'
      <4>1. Slipped(was.site, was.slips)
        BY <1>3, <1>5, <2>1, <2>2 DEF RunOf, NoRun
      <4>2. Slipped(was.site, was.slips)'
        BY <1>17, <4>1, SlippedStays
      <4> QED BY <1>5, <1>7, <4>2 DEF RunOf
    <3>2. CASE was.slips = {}
      <4>1. Entries("payroll", n)' = {}
        BY <1>12, <1>14, <1>16, <3>2 DEF Entries
      <4> QED BY <1>5, <1>7, <2>2, <3>1, <3>2, <4>1 DEF Told
    <3>3. CASE was.slips # {}
      <4>1. out = {entry}
        BY <1>12, <3>3
      <4>2. Entries("payroll", n)' = {entry}
        BY <1>11, <1>14, <1>16, <4>1 DEF Entries
      <4>3. log'[entry] = 1
        BY <1>14, <1>15, <1>16, <4>1 DEF Times
      <4> QED BY <1>5, <1>7, <1>10, <2>2, <3>1, <3>3, <4>2, <4>3 DEF Told, PayEntry
    <3> QED BY <3>2, <3>3
  <2>3. CASE m # n
    <3>1. committed'[Run(m)] = committed[Run(m)]
      BY <1>9, <2>3
    <3>2. Entries("payroll", m)' = Entries("payroll", m)
      BY <1>11, <1>12, <1>14, <2>3 DEF Entries
    <3>3. \A e \in Entries("payroll", m) : log[e] = 1 => log'[e] = 1
      BY <1>11, <1>12, <1>14, <1>15, <2>3 DEF Entries, Times
    <3>4. RunOf(m)'
      BY <1>17, <2>1, <3>1, SlippedStays DEF RunOf
    <3> QED BY <2>1, <3>1, <3>2, <3>3, <3>4 DEF Told, PayEntry
  <2> QED BY <2>2, <2>3
<1>19. OneRunEach'
  <2>1. \A m \in Runs : /\ committed'[Run(m)].st # "none" <=> committed[Run(m)].st # "none"
                        /\ committed'[Run(m)].site = committed[Run(m)].site
    BY <1>3, <1>5, <1>7, <1>9
  <2> QED BY <2>1 DEF StaffTypes, OneRunEach
<1>20. ASSUME NEW u \in Employees, Entries("moved", u)' = {} PROVE committed'[Employee(u)] = Home[u]
  <2>1. Entries("moved", u) = {}
    BY <1>14, <1>20 DEF Entries
  <2> QED BY <1>9, <2>1 DEF StaffTypes
<1>21. ASSUME NEW r \in Rows
       PROVE  IF lock'[r] = NoTxn THEN db'[r] = committed'[r]
              ELSE Paying(lock[r])' /\ tx'[lock'[r]].row = r
  <2>1. CASE r = Run(n)
    BY <1>4, <1>7, <2>1
  <2>2. CASE r # Run(n)
    <3>1. lock[r] \in Txns \union {NoTxn} /\ lock[r] # t
      BY <1>6, <2>2 DEF StaffTypes, RowShape
    <3> QED BY <1>7, <1>8, <2>2, <3>1 DEF StaffTypes, OthersWait, Paying
  <2> QED BY <2>1, <2>2
<1>22. ASSUME NEW u \in Txns PROVE StaffRequest(u)'
  <2>1. CASE u = t
    BY <1>8, <2>1 DEF StaffRequest
  <2>2. CASE u # t
    <3>1. tx'[u] = tx[u] /\ StaffRequest(u)
      BY <1>8, <2>2 DEF OthersWait, StaffTypes
    <3>2. \A m \in Runs : committed[Run(m)].st # "none" =>
            /\ committed'[Run(m)].st # "none"
            /\ committed'[Run(m)].slips = committed[Run(m)].slips
      BY <1>3, <1>5, <1>7, <1>9
    <3>3. CASE tx[u].op = "payout"
      BY <3>1, <3>2, <3>3 DEF StaffRequest
    <3>4. CASE tx[u].op # "payout"
      BY <1>17, <3>1, <3>4, SlippedStays DEF StaffRequest, Grows
    <3> QED BY <3>3, <3>4
  <2> QED BY <2>1, <2>2
<1>23. ASSUME NEW u \in Txns, Paying(u)' PROVE PayoutHeld(u)'
  <2>1. u # t /\ tx'[u] = tx[u] /\ Paying(u) /\ PayoutHeld(u) /\ StaffRequest(u)
    BY <1>8, <1>23 DEF StaffTypes, Paying, OthersWait
  <2>2. tx[u].row \in Rows /\ tx[u].row # Run(n)
    BY <1>5, <2>1, StaffRowsApart DEF StaffRequest, Paying, PayoutHeld
  <2> QED BY <1>7, <2>1, <2>2 DEF PayoutHeld
<1>24. StaffTypes'
  BY <1>7, <1>8, <1>9, <1>18, <1>19, <1>20, <1>21, <1>22, <1>23 DEF StaffTypes
<1>25. \A u \in Employees : RecordsOf(u, "open")' = RecordsOf(u, "open")
  BY <1>9 DEF RecordsOf
<1>26. Clocked'
  BY <1>1, <1>8, <1>25, ClockedStays DEF OthersWait
<1> QED BY <1>24, <1>26

LEMMA StaffSame == ASSUME StaffTypes, Clocked, UNCHANGED serviceVars PROVE StaffTypes' /\ Clocked'
<1>1. RowShape' /\ RequestShape' /\ \A t \in Txns : tx'[t] = tx[t]
  BY SameRows, SameRequests DEF StaffTypes, serviceVars
<1>2. Grows /\ \A kind, key : Entries(kind, key)' = Entries(kind, key)
  BY DEF Grows, Entries, serviceVars
<1>3. OneRunEach'
  BY DEF StaffTypes, OneRunEach, serviceVars
<1>4. StaffTypes'
  BY <1>1, <1>2, <1>3, StaffFrame DEF StaffTypes, serviceVars
<1>5. Clocked'
  BY <1>1, SameRecords, ClockedStays DEF serviceVars
<1> QED BY <1>4, <1>5

LEMMA StaffNextInv == ASSUME StaffInv, [Next]_serviceVars PROVE StaffInv'
<1>1. desk' = desk
  BY DeskStays
<1>2. CASE desk # "staff"
  BY <1>1, <1>2 DEF StaffInv
<1>3. CASE desk = "staff"
  <2>1. StaffTypes /\ Clocked
    BY <1>3 DEF StaffInv
  <2>2. ASSUME NEW t \in Txns, Abort(t, Lost(t)) PROVE StaffTypes' /\ Clocked'
    <3>1. Lost(t) = {}
      BY <2>1 DEF StaffTypes, StaffRequest, Lost
    <3> QED BY <2>1, <2>2, <3>1, StaffGivesUp DEF Abort
  <2>3. \/ UNCHANGED serviceVars \/ Move \/ DecideLeave
        \/ \E t \in Txns : StaffStep(t)
        \/ \E t \in Txns : Commit(t) \/ Abort(t, Lost(t))
    BY <1>3 DEF Next, StaffNext
  <2>4. ASSUME NEW t \in Txns, StaffStep(t) PROVE StaffTypes' /\ Clocked'
    BY <2>1, <2>4, ClockInKeeps, CreateRecordKeeps, ClockOutKeeps, CloseRecordKeeps, GenerateKeeps,
       ReadSalariedKeeps, CreateRunKeeps, ReadRunKeeps, ClaimRunKeeps DEF StaffStep
  <2>5. StaffTypes' /\ Clocked'
    BY <2>1, <2>2, <2>3, <2>4, StaffSame, MoveKeeps, DecideLeaveKeeps, PayoutCommits
  <2> QED BY <2>5 DEF StaffInv
<1> QED BY <1>2, <1>3

LEMMA StaffEnough == ASSUME StaffInv PROVE PaidOnce
<1> SUFFICES ASSUME desk = "staff"
             PROVE  /\ \A u \in Employees : Employee(u) \notin raced =>
                         Cardinality(RecordsOf(u, "open")) <= 1
                    /\ \A m, n \in PaidOut :
                         \A s \in committed[Run(m)].slips \intersect committed[Run(n)].slips :
                           m = n \/ (s.for = Base /\ ~AtHomeOnly(s.who))
                    /\ \A n \in Runs :
                         TotalOf(Entries("payroll", n)) =
                           IF n \in PaidOut THEN Cardinality(committed[Run(n)].slips) ELSE 0
  BY DEF PaidOnce
<1>1. StaffTypes /\ Clocked
  BY DEF StaffInv
<1>2. ASSUME NEW u \in Employees, Employee(u) \notin raced
      PROVE  Cardinality(RecordsOf(u, "open")) <= 1
  <2>1. \A r, s \in RecordsOf(u, "open") : r = s
    BY <1>1, <1>2 DEF Clocked
  <2>2. CASE RecordsOf(u, "open") = {}
    BY <2>2, FS_EmptySet
  <2>3. CASE RecordsOf(u, "open") # {}
    <3>1. PICK r : RecordsOf(u, "open") = {r}
      BY <2>1, <2>3
    <3>2. Cardinality({r}) = 1
      BY FS_Singleton
    <3>3. Cardinality(RecordsOf(u, "open")) = 1
      BY <3>1, <3>2
    <3> QED BY <3>3
  <2> QED BY <2>2, <2>3
<1>3. ASSUME NEW m \in PaidOut, NEW n \in PaidOut,
             NEW s \in committed[Run(m)].slips \intersect committed[Run(n)].slips
      PROVE  m = n \/ (s.for = Base /\ ~AtHomeOnly(s.who))
  <2>1. /\ m \in Runs /\ n \in Runs
        /\ committed[Run(m)].st = "APPROVED" /\ committed[Run(n)].st = "APPROVED"
    BY DEF PaidOut
  <2>2. Slip(committed[Run(m)].site, s) /\ Slip(committed[Run(n)].site, s)
    BY <1>1, <2>1 DEF StaffTypes, RunOf, NoRun, Slipped
  <2>3. CASE committed[Run(m)].site = committed[Run(n)].site
    BY <1>1, <2>1, <2>3 DEF StaffTypes, OneRunEach
  <2>4. CASE committed[Run(m)].site # committed[Run(n)].site
    <3>1. s.for \notin Records
      <4>1. Base \notin Records
        BY StaffAssumption DEF Base
      <4> QED BY <2>2, <2>4, <4>1 DEF Slip
    <3> QED BY <2>2, <2>4, <3>1 DEF Slip
  <2> QED BY <2>3, <2>4
<1>4. ASSUME NEW n \in Runs
      PROVE  TotalOf(Entries("payroll", n)) =
               IF n \in PaidOut THEN Cardinality(committed[Run(n)].slips) ELSE 0
  <2>1. Told(n) /\ RunOf(n)
    BY <1>1 DEF StaffTypes
  <2>2. CASE Entries("payroll", n) = {}
    <3>1. TotalOf(Entries("payroll", n)) = 0
      BY <2>2, SumEmpty DEF TotalOf
    <3>2. n \in PaidOut => committed[Run(n)].slips = {}
      BY <2>1, <2>2 DEF Told, PaidOut
    <3> QED BY <3>1, <3>2, FS_EmptySet
  <2>3. CASE Entries("payroll", n) # {}
    <3>1. PICK slips : slips = committed[Run(n)].slips
      OBVIOUS
    <3>2. PICK entry : entry = PayEntry(n, slips)
      OBVIOUS
    <3>3. n \in PaidOut /\ Entries("payroll", n) = {entry} /\ log[entry] = 1
      BY <2>1, <2>3, <3>1, <3>2 DEF Told, PaidOut
    <3>4. entry.amount = Cardinality(slips)
      BY <3>2 DEF PayEntry
    <3>5. Cardinality(slips) \in Nat
      <4>1. IsFiniteSet(slips)
        BY <2>1, <3>1, <3>3 DEF RunOf, NoRun, Slipped, PaidOut
      <4> QED BY <4>1, FS_CardinalityType
    <3>6. PICK g : g = [e \in {entry} |-> e.amount * log[e]]
      OBVIOUS
    <3>7. g[entry] = Cardinality(slips)
      BY <3>3, <3>4, <3>5, <3>6
    <3>8. IsFiniteSet({entry}) /\ {entry} \ {entry} = {}
      BY FS_Singleton
    <3>9. SumFunctionOnSet(g, {entry}) = g[entry] + SumFunctionOnSet(g, {entry} \ {entry})
      BY <3>5, <3>7, <3>8, SumRemove
    <3>10. SumFunctionOnSet(g, {entry}) = Cardinality(slips)
      BY <3>5, <3>7, <3>8, <3>9, SumEmpty
    <3>11. TotalOf(Entries("payroll", n)) = SumFunctionOnSet(g, {entry})
      BY <3>3, <3>6 DEF TotalOf
    <3> QED BY <3>1, <3>3, <3>10, <3>11
  <2> QED BY <2>2, <2>3
<1> QED BY <1>2, <1>3, <1>4

\* However clock-ins, moves, payroll runs and their approvals interleave, abort or
\* crash, for all employees, branches, records and runs: nobody is clocked in twice
\* unless two clock-ins crossed, nothing is paid by two runs but the salary of
\* somebody who worked at two branches, and the payroll account is told each approved
\* run once and in full.
THEOREM PaidOnceHolds == Spec => []PaidOnce
<1>1. Init => StaffInv
  BY StaffInitInv
<1>2. StaffInv /\ [Next]_serviceVars => StaffInv'
  BY StaffNextInv
<1>3. StaffInv => PaidOnce
  BY StaffEnough
<1> QED BY <1>1, <1>2, <1>3, PTL DEF Spec

-------------------------------------------------------------------------------
(* Production.                                                             *)

Made(j) == [kind |-> "made", key |-> j, amount |-> Size[j]]
Quiet(entries) == \A e \in entries : e.kind # "made"

Finishing(t) == tx[t].op = "complete" /\ tx[t].pc = "commit"

\* A completion about to commit.
Finished(t) ==
  /\ lock[tx[t].row] = t
  /\ db[tx[t].row] = "COMPLETED"
  /\ {e \in tx[t].out : e.kind = "made"} = {Made(tx[t].row[2])}

JobRequest(t) ==
  \/ tx[t].op = "none" /\ tx[t].pc = "none"
  \/ /\ tx[t].op \in {"lines", "submit", "approve"}
     /\ \E c \in Counts : tx[t].row = Count(c)
     /\ Quiet(tx[t].out)
  \/ /\ tx[t].op = "adjust"
     /\ \E i \in Ingredients : tx[t].row = Shelf(i)
     /\ Quiet(tx[t].out)
  \/ /\ tx[t].op = "move" /\ tx[t].pc = "set"
     /\ \E j \in Jobs : tx[t].row = Job(j)
     /\ tx[t].read.to # "COMPLETED" /\ tx[t].read.st # "COMPLETED"
  \/ /\ tx[t].op = "complete" /\ tx[t].pc \in {"raw", "goods", "set", "commit"}
     /\ \E j \in Jobs : tx[t].row = Job(j)
     /\ tx[t].read = [st |-> tx[t].read.st, left |-> tx[t].read.left]
     /\ tx[t].read.st # "COMPLETED"

JobTypes ==
  /\ RowShape /\ RequestShape
  /\ \A j \in Jobs : IF lock[Job(j)] = NoTxn THEN db[Job(j)] = committed[Job(j)]
                     ELSE Finishing(lock[Job(j)]) /\ tx[lock[Job(j)]].row = Job(j)
  /\ \A t \in Txns : JobRequest(t) /\ (Finishing(t) => Finished(t))

\* Goods are made for a completed job, once; a job being completed was not yet.
MadeRight(j) ==
  /\ IF committed[Job(j)] = "COMPLETED" THEN Entries("made", j) = {Made(j)} /\ log[Made(j)] = 1
     ELSE Entries("made", j) = {}
  /\ \A t \in Txns : Finishing(t) /\ tx[t].row = Job(j) => committed[Job(j)] # "COMPLETED"

MadeInv == desk = "stockroom" =>
  JobTypes /\ \A j \in Jobs : Job(j) \notin raced => MadeRight(j)

LEMMA JobRowsApart ==
  ASSUME NEW j \in Jobs
  PROVE  /\ Job(j) \in Rows /\ Job(j)[2] = j
         /\ \A k \in Jobs : Job(j) = Job(k) => j = k
         /\ \A i : Job(j) # Shelf(i)
         /\ \A c : Job(j) # Count(c)
         /\ \A c : \A i : Job(j) # Line(c, i)
<1>1. Job(j) \in Rows
  BY RowsAssumption DEF AllRows, ProductionRows
<1>2. <<"job", j>>[2] = j /\ \A k : <<"job", j>> = <<"job", k>> => j = k
  OBVIOUS
<1>3. \A x : <<"job", j>> # <<"shelf", x>> /\ <<"job", j>> # <<"count", x>>
  OBVIOUS
<1>4. \A x : \A y : <<"job", j>> # <<"line", x, y>>
  OBVIOUS
<1> QED BY <1>1, <1>2, <1>3, <1>4 DEF Job, Shelf, Count, Line

LEMMA MadeInitInv == ASSUME Init PROVE MadeInv
<1>1. RowShape /\ RequestShape
  BY StartShape
<1>2. \A j \in Jobs : committed[Job(j)] = "none"
  BY InitialRows, JobRowsApart DEF Init, ServiceInit, Initial, ProductionRows
<1>3. \A t \in Txns : JobRequest(t) /\ ~Finishing(t)
  BY DEF Init, ServiceInit, Idle, JobRequest, Finishing
<1>4. \A r \in Rows : lock[r] = NoTxn /\ db[r] = committed[r]
  BY DEF Init, ServiceInit
<1>5. JobTypes
  BY <1>1, <1>3, <1>4, JobRowsApart DEF JobTypes
<1>6. \A j \in Jobs : MadeRight(j)
  BY <1>2, <1>3 DEF MadeRight, Entries, Init, ServiceInit
<1> QED BY <1>5, <1>6 DEF MadeInv

\* A write to another table than that of the jobs.
LEMMA WriteAside ==
  ASSUME RowShape, NEW t \in Txns, NEW row, NEW value, Write(t, row, value), UNCHANGED committed,
         \A j \in Jobs : Job(j) # row
  PROVE  /\ RowShape'
         /\ \A j \in Jobs : db'[Job(j)] = db[Job(j)] /\ lock'[Job(j)] = lock[Job(j)]
BY JobRowsApart DEF RowShape, Write

LEMMA PutAside ==
  ASSUME RowShape, NEW row, NEW value, Put(row, value), \A j \in Jobs : Job(j) # row
  PROVE  /\ RowShape'
         /\ \A j \in Jobs : /\ db'[Job(j)] = db[Job(j)] /\ committed'[Job(j)] = committed[Job(j)]
                            /\ lock'[Job(j)] = lock[Job(j)]
BY JobRowsApart DEF RowShape, Put

\* What a step may do that leaves the jobs as they are.
LEMMA JobsAside ==
  ASSUME MadeInv, desk = "stockroom", desk' = desk, RowShape', RequestShape',
         \A j \in Jobs : /\ db'[Job(j)] = db[Job(j)] /\ committed'[Job(j)] = committed[Job(j)]
                         /\ lock'[Job(j)] = lock[Job(j)],
         \A j \in Jobs : /\ Entries("made", j)' = Entries("made", j)
                         /\ \A e \in Entries("made", j) : log[e] = 1 => log'[e] = 1,
         \A t \in Txns : \/ tx'[t] = tx[t]
                         \/ ~Finishing(t) /\ ~Finishing(t)' /\ JobRequest(t)',
         raced \subseteq raced'
  PROVE  MadeInv'
<1>1. JobTypes
  BY DEF MadeInv
<1>2. ASSUME NEW t \in Txns PROVE JobRequest(t)' /\ (Finishing(t)' => Finished(t)')
  <2>1. CASE tx'[t] = tx[t]
    <3>1. JobRequest(t)'
      BY <1>1, <2>1 DEF JobTypes, JobRequest
    <3>2. ASSUME Finishing(t)' PROVE Finished(t)'
      <4>1. Finishing(t) /\ Finished(t) /\ JobRequest(t)
        BY <1>1, <2>1, <3>2 DEF JobTypes, Finishing
      <4>2. PICK j \in Jobs : tx[t].row = Job(j)
        BY <4>1 DEF JobRequest, Finishing
      <4> QED BY <2>1, <4>1, <4>2 DEF Finished
    <3> QED BY <3>1, <3>2
  <2>2. CASE tx'[t] # tx[t]
    BY <2>2
  <2> QED BY <2>1, <2>2
<1>3. \A t \in Txns : Finishing(t) \/ Finishing(t)' => tx'[t] = tx[t]
  OBVIOUS
<1>4. ASSUME NEW j \in Jobs
      PROVE  IF lock'[Job(j)] = NoTxn THEN db'[Job(j)] = committed'[Job(j)]
             ELSE Finishing(lock[Job(j)])' /\ tx'[lock'[Job(j)]].row = Job(j)
  <2>1. lock[Job(j)] \in Txns \union {NoTxn}
    BY <1>1, JobRowsApart DEF JobTypes, RowShape
  <2> QED BY <1>1, <1>3, <2>1 DEF JobTypes, Finishing
<1>5. JobTypes'
  BY <1>2, <1>4 DEF JobTypes
<1>6. ASSUME NEW j \in Jobs, MadeRight(j) PROVE MadeRight(j)'
  BY <1>3, <1>6 DEF MadeRight, Finishing, Made
<1> QED BY <1>5, <1>6 DEF MadeInv

\* The same, of a step of one request that logs nothing.
LEMMA RequestAside ==
  ASSUME MadeInv, desk = "stockroom", desk' = desk, UNCHANGED <<committed, log>>,
         NEW t \in Txns, RowShape', RequestShape', OthersWait(t),
         \A j \in Jobs : db'[Job(j)] = db[Job(j)] /\ lock'[Job(j)] = lock[Job(j)],
         ~Finishing(t), ~Finishing(t)', JobRequest(t)',
         raced \subseteq raced'
  PROVE  MadeInv'
<1>1. \A j \in Jobs : /\ Entries("made", j)' = Entries("made", j)
                      /\ \A e \in Entries("made", j) : log[e] = 1 => log'[e] = 1
  BY DEF Entries
<1> QED BY <1>1, JobsAside DEF OthersWait

\* A request that begins.
LEMMA MadeBegins ==
  ASSUME MadeInv, desk = "stockroom", NEW t \in Txns, NEW op, NEW pc, NEW row, NEW read, NEW stale,
         BeginBeside(t, op, pc, row, read, stale),
         \/ op \in {"lines", "submit", "approve"} /\ \E c \in Counts : row = Count(c)
         \/ op = "adjust" /\ \E i \in Ingredients : row = Shelf(i)
         \/ /\ op = "move" /\ pc = "set" /\ \E j \in Jobs : row = Job(j)
            /\ read.to # "COMPLETED" /\ read.st # "COMPLETED"
         \/ /\ op = "complete" /\ pc = "raw" /\ \E j \in Jobs : row = Job(j)
            /\ read = [st |-> read.st, left |-> read.left] /\ read.st # "COMPLETED"
  PROVE  MadeInv'
<1>1. RequestShape /\ RowShape
  BY DEF MadeInv, JobTypes
<1>2. /\ tx[t].op = "none" /\ tx'[t].op = op /\ tx'[t].pc = pc /\ tx'[t].row = row
      /\ tx'[t].read = read /\ tx'[t].out = {} /\ OthersWait(t) /\ RequestShape'
  BY <1>1, BeginDoes
<1>3. UNCHANGED <<db, committed, lock, log, desk>> /\ raced \subseteq raced'
  BY DEF BeginBeside
<1>4. RowShape'
  BY <1>1, <1>3, SameRows
<1>5. ~Finishing(t) /\ ~Finishing(t)'
  BY <1>2 DEF Finishing
<1>6. JobRequest(t)'
  BY <1>2 DEF JobRequest, Quiet
<1> QED BY <1>2, <1>3, <1>4, <1>5, <1>6, RequestAside

\* The next statement of a request that is not about to set a status.
LEMMA MadeContinues ==
  ASSUME MadeInv, desk = "stockroom", NEW t \in Txns, NEW pc, NEW read, NEW out,
         Continue(t, pc, read, out),
         RowShape',
         \A j \in Jobs : db'[Job(j)] = db[Job(j)] /\ lock'[Job(j)] = lock[Job(j)],
         raced \subseteq raced',
         \/ tx[t].op \in {"lines", "submit", "approve", "adjust"} /\ Quiet(out)
         \/ /\ tx[t].op = "complete" /\ tx[t].pc # "commit" /\ pc \in {"raw", "goods", "set"}
            /\ read = [st |-> tx[t].read.st, left |-> read.left]
  PROVE  MadeInv'
<1>1. RequestShape /\ JobRequest(t)
  BY DEF MadeInv, JobTypes
<1>2. /\ tx'[t].op = tx[t].op /\ tx'[t].pc = pc /\ tx'[t].row = tx[t].row
      /\ tx'[t].read = read /\ tx'[t].out = out
      /\ OthersWait(t) /\ RequestShape'
  BY <1>1, ContinueDoes
<1>3. UNCHANGED <<committed, log, desk>>
  BY DEF Continue
<1>4. ~Finishing(t) /\ ~Finishing(t)'
  BY <1>2 DEF Finishing
<1>5. CASE tx[t].op = "complete"
  <2>1. read.st = tx[t].read.st /\ read = [st |-> read.st, left |-> read.left]
    BY <1>5
  <2>2. JobRequest(t)'
    BY <1>1, <1>2, <1>5, <2>1 DEF JobRequest
  <2> QED BY <1>2, <1>3, <1>4, <2>2, RequestAside
<1>6. CASE tx[t].op # "complete"
  <2>1. JobRequest(t)'
    BY <1>1, <1>2, <1>6 DEF JobRequest
  <2> QED BY <1>2, <1>3, <1>4, <2>1, RequestAside
<1> QED BY <1>5, <1>6

\* A request that gives up leaves the committed rows as they are.
LEMMA MadeGivesUp ==
  ASSUME MadeInv, desk = "stockroom", NEW t \in Txns, UndoWrites(t), Finish(t),
         UNCHANGED <<log, raced>>
  PROVE  MadeInv'
<1>1. JobTypes /\ t # NoTxn /\ desk' = desk
  BY RequestsAssumption DEF MadeInv, Finish
<1>2. /\ committed' = committed /\ RowShape'
      /\ \A r \in Rows : lock[r] = t => db'[r] = committed[r] /\ lock'[r] = NoTxn
      /\ \A r \in Rows : lock[r] # t => db'[r] = db[r] /\ lock'[r] = lock[r]
  BY <1>1, UndoDoes DEF JobTypes
<1>3. tx'[t].op = "none" /\ tx'[t].pc = "none" /\ OthersWait(t) /\ RequestShape'
  BY <1>1, FinishDoes DEF Finish, JobTypes
<1>4. ASSUME NEW u \in Txns PROVE JobRequest(u)' /\ (Finishing(u)' => Finished(u)')
  <2>1. CASE u = t
    BY <1>3, <2>1 DEF JobRequest, Finishing
  <2>2. CASE u # t
    <3>1. tx'[u] = tx[u] /\ JobRequest(u) /\ (Finishing(u) => Finished(u))
      BY <1>1, <1>3, <2>2 DEF OthersWait, JobTypes
    <3>2. ASSUME Finishing(u) PROVE tx[u].row \in Rows /\ lock[tx[u].row] = u
      BY <3>1, <3>2, JobRowsApart DEF JobRequest, Finishing, Finished
    <3>3. Finishing(u)' => Finished(u)'
      BY <1>2, <2>2, <3>1, <3>2 DEF Finishing, Finished
    <3>4. JobRequest(u)'
      BY <3>1 DEF JobRequest
    <3> QED BY <3>3, <3>4
  <2> QED BY <2>1, <2>2
<1>5. ASSUME NEW j \in Jobs
      PROVE  IF lock'[Job(j)] = NoTxn THEN db'[Job(j)] = committed'[Job(j)]
             ELSE Finishing(lock[Job(j)])' /\ tx'[lock'[Job(j)]].row = Job(j)
  <2>1. lock[Job(j)] \in Txns \union {NoTxn}
    BY <1>1, JobRowsApart DEF JobTypes, RowShape
  <2>2. CASE lock[Job(j)] = t
    BY <1>2, <2>2, JobRowsApart
  <2>3. CASE lock[Job(j)] # t
    BY <1>1, <1>2, <1>3, <2>1, <2>3, JobRowsApart DEF JobTypes, OthersWait, Finishing
  <2> QED BY <2>2, <2>3
<1>6. JobTypes'
  BY <1>2, <1>3, <1>4, <1>5 DEF JobTypes
<1>7. ASSUME NEW j \in Jobs, MadeRight(j) PROVE MadeRight(j)'
  BY <1>2, <1>3, <1>7 DEF MadeRight, Entries, Made, Finishing, OthersWait
<1> QED BY <1>1, <1>6, <1>7 DEF MadeInv

\* Counting writes lines and counts, in whatever order.
LEMMA CountingKeepsMade ==
  ASSUME MadeInv, desk = "stockroom", NEW t \in Txns,
         \/ UpdateLines(t) \/ WriteLine(t) \/ Submit(t) \/ ReadBalances(t) \/ Expect(t)
         \/ ClaimDraft(t) \/ Approve(t) \/ ClaimSubmitted(t)
  PROVE  MadeInv'
<1>1. JobTypes /\ RowShape /\ JobRequest(t)
  BY DEF MadeInv, JobTypes
<1>2. CASE UpdateLines(t)
  <2>1. PICK c \in Counts, i \in Ingredients, q \in Counted :
          Begin(t, "lines", "write", Count(c), [item |-> i, qty |-> q])
    BY <1>2 DEF UpdateLines
  <2>2. PICK read : read = [item |-> i, qty |-> q]
    OBVIOUS
  <2>3. BeginBeside(t, "lines", "write", Count(c), read, {})
    BY <2>1, <2>2 DEF Begin
  <2> QED BY <2>3, MadeBegins
<1>3. CASE Submit(t)
  <2>1. PICK c \in Counts : \E left, stale :
          BeginBeside(t, "submit", "balances", Count(c), [left |-> left], stale)
    BY <1>3 DEF Submit
  <2>2. PICK left, stale : BeginBeside(t, "submit", "balances", Count(c), [left |-> left], stale)
    BY <2>1
  <2>3. PICK read : read = [left |-> left]
    OBVIOUS
  <2>4. BeginBeside(t, "submit", "balances", Count(c), read, stale)
    BY <2>2, <2>3
  <2> QED BY <2>4, MadeBegins
<1>4. CASE Approve(t)
  <2>1. PICK c \in Counts : Begin(t, "approve", "claim", Count(c), [lines |-> LinesOf(t, c)])
    BY <1>4 DEF Approve
  <2>2. PICK read : read = [lines |-> LinesOf(t, c)]
    OBVIOUS
  <2>3. BeginBeside(t, "approve", "claim", Count(c), read, {})
    BY <2>1, <2>2 DEF Begin
  <2> QED BY <2>3, MadeBegins
<1>5. CASE ReadBalances(t)
  <2>1. PICK read : Continue(t, "expect", read, {}) /\ UNCHANGED <<db, lock, raced>>
    BY <1>5 DEF ReadBalances
  <2>2. tx[t].op = "submit"
    BY <1>5 DEF ReadBalances, Doing
  <2>3. UNCHANGED committed /\ Quiet({})
    BY <2>1 DEF Continue, Quiet
  <2>4. RowShape'
    BY <1>1, <2>1, <2>3, SameRows
  <2> QED BY <2>1, <2>2, <2>3, <2>4, MadeContinues
<1>6. CASE WriteLine(t) \/ Expect(t) \/ ClaimDraft(t) \/ ClaimSubmitted(t)
  <2>1. tx[t].op \in {"lines", "submit", "approve"}
    BY <1>6 DEF WriteLine, Expect, ClaimDraft, ClaimSubmitted, Doing
  <2>2. Quiet(tx[t].out) /\ Quiet({}) /\ \E c \in Counts : tx[t].row = Count(c)
    BY <1>1, <2>1 DEF JobRequest, Quiet
  <2>3. CASE Throw(t)
    BY <2>3, MadeGivesUp DEF Throw
  <2>4. CASE ~Throw(t)
    <3>1. \/ \E c, i, value, pc, read : /\ Write(t, Line(c, i), value)
                                        /\ \/ Continue(t, pc, read, {})
                                           \/ Continue(t, pc, read, tx[t].out)
          \/ \E value, pc, read : /\ Write(t, tx[t].row, value)
                                  /\ Continue(t, pc, read, tx[t].out)
      <4>1. CASE WriteLine(t)
        BY <4>1 DEF WriteLine, GoTo
      <4>2. CASE Expect(t)
        BY <4>2 DEF Expect
      <4>3. CASE ClaimDraft(t)
        BY <2>4, <4>3 DEF ClaimDraft, GoTo
      <4>4. CASE ClaimSubmitted(t)
        BY <2>4, <4>4 DEF ClaimSubmitted, GoTo
      <4> QED BY <1>6, <4>1, <4>2, <4>3, <4>4
    <3>2. PICK row, value, pc, read, out :
            /\ Write(t, row, value) /\ Continue(t, pc, read, out) /\ Quiet(out)
            /\ \A j \in Jobs : Job(j) # row
      BY <2>2, <3>1, JobRowsApart
    <3>3. UNCHANGED committed
      BY <3>2 DEF Continue
    <3>4. /\ RowShape'
          /\ \A j \in Jobs : db'[Job(j)] = db[Job(j)] /\ lock'[Job(j)] = lock[Job(j)]
      BY <1>1, <3>2, <3>3, WriteAside
    <3>5. raced \subseteq raced'
      BY <1>6, <2>4 DEF WriteLine, Expect, ClaimDraft, ClaimSubmitted
    <3> QED BY <2>1, <3>2, <3>4, <3>5, MadeContinues
  <2> QED BY <2>3, <2>4
<1> QED BY <1>2, <1>3, <1>4, <1>5, <1>6

\* Variances and adjustments write shelves.
LEMMA ApplyingKeepsMade ==
  ASSUME MadeInv, desk = "stockroom", NEW t \in Txns,
         Adjust(t) \/ ApplyVariance(t) \/ ApplyDelta(t)
  PROVE  MadeInv'
<1>1. JobTypes /\ RowShape /\ JobRequest(t)
  BY DEF MadeInv, JobTypes
<1>2. CASE Adjust(t)
  <2>1. PICK i \in Ingredients : \E delta :
          Begin(t, "adjust", "apply", Shelf(i), [delta |-> delta, id |-> begun])
    BY <1>2 DEF Adjust
  <2>2. PICK delta : Begin(t, "adjust", "apply", Shelf(i), [delta |-> delta, id |-> begun])
    BY <2>1
  <2>3. PICK read : read = [delta |-> delta, id |-> begun]
    OBVIOUS
  <2>4. BeginBeside(t, "adjust", "apply", Shelf(i), read, {})
    BY <2>2, <2>3 DEF Begin
  <2> QED BY <2>4, MadeBegins
<1>3. CASE Throw(t)
  BY <1>3, MadeGivesUp DEF Throw
<1>4. CASE ~Throw(t) /\ (ApplyVariance(t) \/ ApplyDelta(t))
  <2>1. tx[t].op \in {"approve", "adjust"} /\ Quiet(tx[t].out)
    <3>1. tx[t].op \in {"approve", "adjust"}
      BY <1>4 DEF ApplyVariance, ApplyDelta, Doing
    <3> QED BY <1>1, <3>1 DEF JobRequest
  <2>2. \A ref : \A net : Quiet(Posted(ref, net))
    BY DEF Quiet, Posted, Event
  <2>3. \A c : \A i : \A delta : Quiet(tx[t].out \union {Adjustment(c, i, delta)})
    BY <2>1 DEF Quiet, Adjustment
  <2>4. \E i, delta, pc, read, out : /\ Shelve(t, i, delta) /\ UNCHANGED raced
                                     /\ Continue(t, pc, read, out) /\ Quiet(out)
    <3>1. CASE ApplyDelta(t)
      BY <1>4, <2>2, <3>1 DEF ApplyDelta
    <3>2. CASE ApplyVariance(t)
      <4>1. PICK i : \E delta, c, pc, ref, net, out :
              /\ Shelve(t, i, delta) /\ UNCHANGED raced
              /\ out = tx[t].out \union {Adjustment(c, i, delta)}
              /\ \/ Continue(t, pc, tx[t].read, out)
                 \/ Continue(t, pc, tx[t].read, out \union Posted(ref, net))
        BY <1>4, <3>2 DEF ApplyVariance
      <4>2. PICK delta, c, pc, ref, net, out :
              /\ Shelve(t, i, delta) /\ UNCHANGED raced
              /\ out = tx[t].out \union {Adjustment(c, i, delta)}
              /\ \/ Continue(t, pc, tx[t].read, out)
                 \/ Continue(t, pc, tx[t].read, out \union Posted(ref, net))
        BY <4>1
      <4>3. Quiet(out) /\ Quiet(out \union Posted(ref, net))
        BY <2>2, <2>3, <4>2 DEF Quiet
      <4> QED BY <4>2, <4>3
    <3> QED BY <1>4, <3>1, <3>2
  <2>5. PICK i, delta, pc, read, out : /\ Shelve(t, i, delta) /\ UNCHANGED raced
                                       /\ Continue(t, pc, read, out) /\ Quiet(out)
    BY <2>4
  <2>6. UNCHANGED committed
    BY <2>5 DEF Continue
  <2>7. /\ RowShape'
        /\ \A j \in Jobs : db'[Job(j)] = db[Job(j)] /\ lock'[Job(j)] = lock[Job(j)]
    <3>1. PICK row, value : row = Shelf(i) /\ Write(t, row, value)
      BY <2>5 DEF Shelve
    <3> QED BY <1>1, <2>6, <3>1, JobRowsApart, WriteAside
  <2> QED BY <2>1, <2>5, <2>7, MadeContinues
<1> QED BY <1>2, <1>3, <1>4

\* A statement of its own about a shelf or a count.
LEMMA SingleKeepsMade ==
  ASSUME MadeInv, desk = "stockroom", Sell \/ CreateStockCount \/ Cancel
  PROVE  MadeInv'
<1>1. JobTypes /\ UNCHANGED <<tx, raced, desk>>
  BY DEF MadeInv, Sell, CreateStockCount, Cancel, Single
<1>2. PICK row : (\E value : Put(row, value)) /\ \A j \in Jobs : Job(j) # row
  <2>1. \A i : \A c : \A j \in Jobs : Job(j) # Shelf(i) /\ Job(j) # Count(c)
    BY JobRowsApart
  <2> QED BY <2>1 DEF Sell, CreateStockCount, Cancel
<1>3. /\ RowShape'
      /\ \A j \in Jobs : /\ db'[Job(j)] = db[Job(j)] /\ committed'[Job(j)] = committed[Job(j)]
                         /\ lock'[Job(j)] = lock[Job(j)]
  BY <1>1, <1>2, PutAside DEF JobTypes
<1>4. PICK entries : /\ Quiet(entries)
                     /\ log' = log \/ Logged(entries)
  <2>1. CASE Sell
    <3>1. PICK i : Logged({Event(<<"SALE", begun>>, 0 - Cost[i])})
      BY <2>1 DEF Sell
    <3>2. PICK entries : entries = {Event(<<"SALE", begun>>, 0 - Cost[i])}
      OBVIOUS
    <3>3. Quiet(entries)
      BY <3>2 DEF Quiet, Event
    <3> QED BY <3>1, <3>2, <3>3
  <2>2. CASE CreateStockCount \/ Cancel
    <3>1. Quiet({}) /\ log' = log
      BY <2>2 DEF Quiet, CreateStockCount, Cancel
    <3> QED BY <3>1
  <2> QED BY <2>1, <2>2
<1>5. \A j \in Jobs : /\ Entries("made", j)' = Entries("made", j)
                      /\ \A e \in Entries("made", j) : log[e] = 1 => log'[e] = 1
  <2>1. CASE log' = log
    BY <2>1 DEF Entries
  <2>2. CASE Logged(entries)
    BY <1>4, <2>2, OtherEntries DEF Quiet
  <2> QED BY <1>4, <2>1, <2>2
<1>6. RequestShape' /\ \A t \in Txns : tx'[t] = tx[t]
  BY <1>1, SameRequests DEF JobTypes
<1> QED BY <1>1, <1>3, <1>5, <1>6, JobsAside

\* A completion on its way writes shelves.
LEMMA MakingKeepsMade ==
  ASSUME MadeInv, desk = "stockroom", NEW t \in Txns,
         Complete(t) \/ TakeRaw(t) \/ AddFinished(t) \/ MoveJob(t)
  PROVE  MadeInv'
<1>1. JobTypes /\ RowShape /\ JobRequest(t)
  BY DEF MadeInv, JobTypes
<1>2. CASE Complete(t)
  <2>1. PICK j \in Jobs : /\ committed[Job(j)] # "COMPLETED"
                          /\ Begin(t, "complete", "raw", Job(j),
                                   [st |-> committed[Job(j)], left |-> RawOf(j)])
    BY <1>2 DEF Complete, Terminal
  <2>2. PICK read : read = [st |-> committed[Job(j)], left |-> RawOf(j)]
    OBVIOUS
  <2>3. BeginBeside(t, "complete", "raw", Job(j), read, {})
    BY <2>1, <2>2 DEF Begin
  <2>4. read.st # "COMPLETED" /\ read = [st |-> read.st, left |-> read.left]
    BY <2>1, <2>2
  <2> QED BY <2>3, <2>4, MadeBegins
<1>3. CASE MoveJob(t)
  <2>1. PICK j \in Jobs, st \in JobStatuses \ {"none", "COMPLETED"} :
          /\ committed[Job(j)] # "COMPLETED"
          /\ Begin(t, "move", "set", Job(j), [st |-> committed[Job(j)], to |-> st])
    BY <1>3 DEF MoveJob, Terminal
  <2>2. PICK read : read = [st |-> committed[Job(j)], to |-> st]
    OBVIOUS
  <2>3. BeginBeside(t, "move", "set", Job(j), read, {})
    BY <2>1, <2>2 DEF Begin
  <2>4. read.st # "COMPLETED" /\ read.to # "COMPLETED"
    BY <2>1, <2>2
  <2> QED BY <2>3, <2>4, MadeBegins
<1>4. CASE Throw(t)
  BY <1>4, MadeGivesUp DEF Throw
<1>5. CASE ~Throw(t) /\ (TakeRaw(t) \/ AddFinished(t))
  <2>1. tx[t].op = "complete" /\ tx[t].pc # "commit"
    BY <1>5 DEF TakeRaw, AddFinished, Doing
  <2>2. PICK was : was = tx[t].read
    OBVIOUS
  <2>3. was = [st |-> was.st, left |-> was.left]
    BY <1>1, <2>1, <2>2 DEF JobRequest
  <2>4. PICK i : \E amount, pc, left, out :
          /\ Shelve(t, i, amount) /\ UNCHANGED raced
          /\ Continue(t, pc, was, out) \/ Continue(t, pc, [was EXCEPT !.left = left], out)
          /\ pc \in {"raw", "goods", "set"}
    <3>1. CASE TakeRaw(t)
      <4>1. PICK i : \E amount, pc, left :
              /\ Shelve(t, i, amount) /\ UNCHANGED raced
              /\ Continue(t, pc, [was EXCEPT !.left = left], {})
              /\ pc \in {"raw", "goods"}
        BY <1>5, <2>2, <3>1 DEF TakeRaw
      <4> QED BY <4>1
    <3>2. CASE AddFinished(t)
      BY <2>2, <3>2 DEF AddFinished, GoTo
    <3> QED BY <1>5, <3>1, <3>2
  <2>5. PICK amount, pc, left, out :
          /\ Shelve(t, i, amount) /\ UNCHANGED raced
          /\ Continue(t, pc, was, out) \/ Continue(t, pc, [was EXCEPT !.left = left], out)
          /\ pc \in {"raw", "goods", "set"}
    BY <2>4
  <2>6. PICK read : Continue(t, pc, read, out) /\ read = [st |-> was.st, left |-> read.left]
    <3>1. CASE Continue(t, pc, was, out)
      BY <2>3, <3>1
    <3>2. CASE Continue(t, pc, [was EXCEPT !.left = left], out)
      <4>1. PICK read : read = [was EXCEPT !.left = left]
        OBVIOUS
      <4>2. read = [st |-> was.st, left |-> left]
        BY <2>3, <4>1
      <4>3. Continue(t, pc, read, out)
        BY <3>2, <4>1
      <4> QED BY <4>2, <4>3
    <3> QED BY <2>5, <3>1, <3>2
  <2>7. UNCHANGED committed
    BY <2>6 DEF Continue
  <2>8. /\ RowShape'
        /\ \A j \in Jobs : db'[Job(j)] = db[Job(j)] /\ lock'[Job(j)] = lock[Job(j)]
    <3>1. PICK row, value : row = Shelf(i) /\ Write(t, row, value)
      BY <2>5 DEF Shelve
    <3> QED BY <1>1, <2>7, <3>1, JobRowsApart, WriteAside
  <2> QED BY <2>1, <2>2, <2>5, <2>6, <2>8, MadeContinues
<1> QED BY <1>2, <1>3, <1>4, <1>5

\* A job gets a status other than completed, which it did not have if nobody raced.
LEMMA JobSet ==
  ASSUME MadeInv, desk = "stockroom", desk' = desk, NEW j \in Jobs, NEW value,
         value # "COMPLETED", Put(Job(j), value), UNCHANGED log, raced \subseteq raced',
         Job(j) \notin raced' => committed[Job(j)] # "COMPLETED",
         RequestShape',
         \A t \in Txns : \/ tx'[t] = tx[t]
                         \/ ~Finishing(t) /\ ~Finishing(t)' /\ JobRequest(t)'
  PROVE  MadeInv'
<1>1. JobTypes
  BY DEF MadeInv
<1>2. /\ lock[Job(j)] = NoTxn /\ lock' = lock
      /\ db'[Job(j)] = value /\ committed'[Job(j)] = value
      /\ \A r \in Rows \ {Job(j)} : db'[r] = db[r] /\ committed'[r] = committed[r]
      /\ RowShape'
  BY <1>1, JobRowsApart, PutDoes DEF JobTypes
<1>3. \A t \in Txns : Finishing(t) \/ Finishing(t)' => tx'[t] = tx[t]
  OBVIOUS
<1>4. ASSUME NEW t \in Txns, Finishing(t)
      PROVE  Finished(t) /\ \E k \in Jobs : k # j /\ tx[t].row = Job(k)
  <2>1. Finished(t) /\ JobRequest(t)
    BY <1>1, <1>4 DEF JobTypes
  <2>2. PICK k \in Jobs : tx[t].row = Job(k)
    BY <1>4, <2>1 DEF JobRequest, Finishing
  <2> QED BY <1>2, <2>1, <2>2, RequestsAssumption DEF Finished
<1>5. ASSUME NEW t \in Txns PROVE JobRequest(t)' /\ (Finishing(t)' => Finished(t)')
  <2>1. JobRequest(t)'
    BY <1>1 DEF JobTypes, JobRequest
  <2>2. ASSUME Finishing(t)' PROVE Finished(t)'
    <3>1. tx'[t] = tx[t] /\ Finishing(t)
      BY <1>3, <2>2 DEF Finishing
    <3>2. Finished(t)
      BY <1>4, <3>1
    <3>3. PICK k \in Jobs : k # j /\ tx[t].row = Job(k)
      BY <1>4, <3>1
    <3> QED BY <1>2, <3>1, <3>2, <3>3, JobRowsApart DEF Finished
  <2> QED BY <2>1, <2>2
<1>6. ASSUME NEW k \in Jobs
      PROVE  IF lock'[Job(k)] = NoTxn THEN db'[Job(k)] = committed'[Job(k)]
             ELSE Finishing(lock[Job(k)])' /\ tx'[lock'[Job(k)]].row = Job(k)
  <2>1. CASE k = j
    BY <1>2, <2>1
  <2>2. CASE k # j
    <3>1. lock[Job(k)] \in Txns \union {NoTxn} /\ Job(k) \in Rows \ {Job(j)}
      BY <1>1, <2>2, JobRowsApart DEF JobTypes, RowShape
    <3> QED BY <1>1, <1>2, <1>3, <3>1 DEF JobTypes, Finishing
  <2> QED BY <2>1, <2>2
<1>7. JobTypes'
  BY <1>2, <1>5, <1>6 DEF JobTypes
<1>8. ASSUME NEW k \in Jobs, Job(k) \notin raced' PROVE MadeRight(k)'
  <2>1. MadeRight(k)
    BY <1>8 DEF MadeInv
  <2>2. CASE k = j
    BY <1>2, <1>8, <2>1, <2>2 DEF MadeRight, Entries
  <2>3. CASE k # j
    <3>1. committed'[Job(k)] = committed[Job(k)]
      BY <1>2, <2>3, JobRowsApart
    <3> QED BY <1>3, <2>1, <3>1 DEF MadeRight, Entries, Made, Finishing
  <2> QED BY <2>2, <2>3
<1> QED BY <1>7, <1>8 DEF MadeInv

LEMMA CreateJobKeeps ==
  ASSUME MadeInv, desk = "stockroom", CreateProductionOrder
  PROVE  MadeInv'
<1>1. JobTypes /\ UNCHANGED <<tx, log, raced, desk>>
  BY DEF MadeInv, CreateProductionOrder, Single
<1>2. PICK j \in Jobs : committed[Job(j)] = "none" /\ Put(Job(j), "PLANNED")
  BY DEF CreateProductionOrder
<1>3. RequestShape' /\ \A t \in Txns : tx'[t] = tx[t]
  BY <1>1, SameRequests DEF JobTypes
<1> QED BY <1>1, <1>2, <1>3, JobSet

LEMMA SetJobKeeps ==
  ASSUME MadeInv, desk = "stockroom", NEW t \in Txns, SetJob(t)
  PROVE  MadeInv'
<1>1. JobTypes /\ JobRequest(t) /\ tx[t].op = "move"
  BY DEF MadeInv, JobTypes, SetJob, Doing
<1>2. PICK j \in Jobs : tx[t].row = Job(j)
  BY <1>1 DEF JobRequest
<1>3. /\ Put(Job(j), tx[t].read.to) /\ tx[t].read.to # "COMPLETED" /\ tx[t].read.st # "COMPLETED"
      /\ Races(Job(j), tx[t].read.st) /\ Finish(t) /\ UNCHANGED log
  BY <1>1, <1>2 DEF SetJob, JobRequest
<1>4. tx'[t].op = "none" /\ tx'[t].pc = "none" /\ OthersWait(t) /\ RequestShape'
  BY <1>1, <1>3, FinishDoes DEF Finish, JobTypes
<1>5. ~Finishing(t) /\ ~Finishing(t)' /\ JobRequest(t)'
  BY <1>1, <1>4 DEF Finishing, JobRequest
<1>6. db[Job(j)] = committed[Job(j)]
  BY <1>1, <1>3 DEF JobTypes, Put
<1>7. raced \subseteq raced' /\ (Job(j) \notin raced' => committed[Job(j)] # "COMPLETED")
  BY <1>3, <1>6 DEF Races
<1>8. desk' = desk
  BY <1>3 DEF Finish
<1> QED BY <1>3, <1>4, <1>5, <1>7, <1>8, JobSet DEF OthersWait

LEMMA SetCompletedKeeps ==
  ASSUME MadeInv, desk = "stockroom", NEW t \in Txns, SetCompleted(t)
  PROVE  MadeInv'
<1>1. /\ JobTypes /\ JobRequest(t) /\ tx[t].op = "complete" /\ tx[t].pc = "set" /\ ~Finishing(t)
      /\ t # NoTxn
  BY RequestsAssumption DEF MadeInv, JobTypes, SetCompleted, Doing, Finishing
<1>2. PICK j \in Jobs : tx[t].row = Job(j)
  BY <1>1 DEF JobRequest
<1>3. PICK others : others = IF RawCost(j) > 0 THEN {Event(<<"PROD", j>>, FinishedValue(j) - RawCost(j))}
                             ELSE {}
  OBVIOUS
<1>4. PICK out : out = {Made(j)} \union others
  OBVIOUS
<1>5. /\ MayWrite(t, Job(j)) /\ Write(t, Job(j), "COMPLETED") /\ Races(Job(j), tx[t].read.st)
      /\ Continue(t, "commit", tx[t].read, out)
  BY <1>2, <1>3, <1>4, JobRowsApart DEF SetCompleted, Made
<1>6. {e \in out : e.kind = "made"} = {Made(j)}
  <2>1. Quiet(others)
    BY <1>3 DEF Quiet, Event
  <2>2. Made(j).kind = "made"
    BY DEF Made
  <2> QED BY <1>4, <2>1, <2>2 DEF Quiet
<1>7. lock[Job(j)] = NoTxn /\ db[Job(j)] = committed[Job(j)]
  <2>1. lock[Job(j)] # t
    BY <1>1 DEF JobTypes
  <2> QED BY <1>1, <1>5, <2>1 DEF MayWrite, JobTypes
<1>8. UNCHANGED <<committed, log, desk>>
  BY <1>5 DEF Continue
<1>9. /\ lock'[Job(j)] = t /\ db'[Job(j)] = "COMPLETED"
      /\ \A r \in Rows \ {Job(j)} : db'[r] = db[r] /\ lock'[r] = lock[r]
      /\ RowShape'
  BY <1>1, <1>5, <1>8, JobRowsApart, WriteDoes DEF JobTypes
<1>10. /\ tx'[t].op = "complete" /\ tx'[t].pc = "commit" /\ tx'[t].row = Job(j)
       /\ tx'[t].read = tx[t].read /\ tx'[t].out = out /\ OthersWait(t) /\ RequestShape'
  BY <1>1, <1>2, <1>5, ContinueDoes DEF JobTypes
<1>11. ASSUME NEW u \in Txns \ {t}, Finishing(u)
       PROVE  Finished(u) /\ \E k \in Jobs : k # j /\ tx[u].row = Job(k)
  <2>1. Finished(u) /\ JobRequest(u) /\ u # NoTxn
    BY <1>1, <1>11, RequestsAssumption DEF JobTypes
  <2>2. PICK k \in Jobs : tx[u].row = Job(k)
    BY <1>11, <2>1 DEF JobRequest, Finishing
  <2> QED BY <1>7, <2>1, <2>2 DEF Finished
<1>12. ASSUME NEW u \in Txns PROVE JobRequest(u)' /\ (Finishing(u)' => Finished(u)')
  <2>1. CASE u = t
    <3>1. JobRequest(t)'
      BY <1>1, <1>2, <1>10 DEF JobRequest
    <3>2. Finished(t)'
      BY <1>6, <1>9, <1>10, JobRowsApart DEF Finished
    <3> QED BY <2>1, <3>1, <3>2
  <2>2. CASE u # t
    <3>1. tx'[u] = tx[u] /\ JobRequest(u)'
      BY <1>1, <1>10, <2>2 DEF JobTypes, OthersWait, JobRequest
    <3>2. ASSUME Finishing(u) PROVE Finished(u)'
      <4>1. Finished(u)
        BY <1>11, <2>2, <3>2
      <4>2. PICK k \in Jobs : k # j /\ tx[u].row = Job(k)
        BY <1>11, <2>2, <3>2
      <4> QED BY <1>9, <3>1, <4>1, <4>2, JobRowsApart DEF Finished
    <3> QED BY <3>1, <3>2 DEF Finishing
  <2> QED BY <2>1, <2>2
<1>13. ASSUME NEW k \in Jobs
       PROVE  IF lock'[Job(k)] = NoTxn THEN db'[Job(k)] = committed'[Job(k)]
              ELSE Finishing(lock[Job(k)])' /\ tx'[lock'[Job(k)]].row = Job(k)
  <2>1. CASE k = j
    BY <1>1, <1>9, <1>10, <2>1 DEF Finishing
  <2>2. CASE k # j
    <3>1. /\ lock[Job(k)] \in Txns \union {NoTxn} /\ Job(k) \in Rows \ {Job(j)}
          /\ lock[Job(k)] # t
      BY <1>1, <2>2, JobRowsApart DEF JobTypes, RowShape
    <3> QED BY <1>1, <1>8, <1>9, <1>10, <3>1 DEF JobTypes, Finishing, OthersWait
  <2> QED BY <2>1, <2>2
<1>14. JobTypes'
  BY <1>9, <1>10, <1>12, <1>13 DEF JobTypes
<1>15. raced \subseteq raced' /\ (Job(j) \notin raced' => committed[Job(j)] = tx[t].read.st)
  BY <1>5, <1>7 DEF Races
<1>16. ASSUME NEW k \in Jobs, Job(k) \notin raced' PROVE MadeRight(k)'
  <2>1. MadeRight(k)
    BY <1>15, <1>16 DEF MadeInv
  <2>2. ASSUME NEW u \in Txns, Finishing(u)', tx'[u].row = Job(k)
        PROVE  committed[Job(k)] # "COMPLETED"
    <3>1. CASE u = t
      <4>1. k = j
        BY <1>10, <2>2, <3>1, JobRowsApart
      <4> QED BY <1>1, <1>15, <1>16, <4>1 DEF JobRequest
    <3>2. CASE u # t
      BY <1>10, <2>1, <2>2, <3>2 DEF OthersWait, MadeRight, Finishing
    <3> QED BY <3>1, <3>2
  <2> QED BY <1>8, <2>1, <2>2 DEF MadeRight, Entries, Made
<1> QED BY <1>8, <1>14, <1>16 DEF MadeInv

\* What a request inserts with its commit: goods, if it completes a job.
LEMMA StockroomCommits ==
  ASSUME MadeInv, desk = "stockroom", NEW t \in Txns, Commit(t)
  PROVE  MadeInv'
<1>1. JobTypes /\ JobRequest(t) /\ t # NoTxn /\ desk' = desk /\ raced' = raced
  BY RequestsAssumption DEF MadeInv, JobTypes, Commit, Finish
<1>2. /\ db' = db /\ RowShape'
      /\ \A r \in Rows : lock[r] = t => committed'[r] = db[r] /\ lock'[r] = NoTxn
      /\ \A r \in Rows : lock[r] # t => committed'[r] = committed[r] /\ lock'[r] = lock[r]
  BY <1>1, KeepDoes DEF JobTypes, Commit
<1>3. tx'[t].op = "none" /\ tx'[t].pc = "none" /\ OthersWait(t) /\ RequestShape'
  BY <1>1, FinishDoes DEF Commit, Finish, JobTypes
<1>4. Logged(tx[t].out) /\ tx[t].pc = "commit"
  BY DEF Commit
<1>5. CASE ~Finishing(t)
  <2>1. Quiet(tx[t].out)
    BY <1>1, <1>4, <1>5 DEF JobRequest, Finishing
  <2>2. \A j \in Jobs : /\ Entries("made", j)' = Entries("made", j)
                        /\ \A e \in Entries("made", j) : log[e] = 1 => log'[e] = 1
    BY <1>4, <2>1, OtherEntries DEF Quiet
  <2>3. \A j \in Jobs : lock[Job(j)] # t
    BY <1>1, <1>5 DEF JobTypes
  <2>4. ~Finishing(t)' /\ JobRequest(t)'
    BY <1>3 DEF Finishing, JobRequest
  <2> QED BY <1>1, <1>2, <1>3, <1>5, <2>2, <2>3, <2>4, JobRowsApart, JobsAside DEF OthersWait
<1>6. CASE Finishing(t)
  <2>1. PICK j \in Jobs : tx[t].row = Job(j)
    BY <1>1, <1>6 DEF JobRequest, Finishing
  <2>2. /\ lock[Job(j)] = t /\ db[Job(j)] = "COMPLETED"
        /\ {e \in tx[t].out : e.kind = "made"} = {Made(j)}
    BY <1>1, <1>6, <2>1, JobRowsApart DEF JobTypes, Finished
  <2>3. \A k \in Jobs \ {j} : lock[Job(k)] # t
    BY <1>1, <2>1, JobRowsApart DEF JobTypes
  <2>4. committed'[Job(j)] = "COMPLETED" /\ lock'[Job(j)] = NoTxn
    BY <1>2, <2>2, JobRowsApart
  <2>5. ASSUME NEW u \in Txns PROVE JobRequest(u)' /\ (Finishing(u)' => Finished(u)')
    <3>1. CASE u = t
      BY <1>3, <3>1 DEF JobRequest, Finishing
    <3>2. CASE u # t
      <4>1. tx'[u] = tx[u] /\ JobRequest(u) /\ (Finishing(u) => Finished(u))
        BY <1>1, <1>3, <3>2 DEF OthersWait, JobTypes
      <4>2. ASSUME Finishing(u) PROVE tx[u].row \in Rows /\ lock[tx[u].row] = u
        BY <4>1, <4>2, JobRowsApart DEF JobRequest, Finishing, Finished
      <4>3. Finishing(u)' => Finished(u)'
        BY <1>2, <3>2, <4>1, <4>2 DEF Finishing, Finished
      <4>4. JobRequest(u)'
        BY <4>1 DEF JobRequest
      <4> QED BY <4>3, <4>4
    <3> QED BY <3>1, <3>2
  <2>6. ASSUME NEW k \in Jobs
        PROVE  IF lock'[Job(k)] = NoTxn THEN db'[Job(k)] = committed'[Job(k)]
               ELSE Finishing(lock[Job(k)])' /\ tx'[lock'[Job(k)]].row = Job(k)
    <3>1. CASE k = j
      BY <1>2, <2>2, <2>4, <3>1
    <3>2. CASE k # j
      <4>1. lock[Job(k)] \in Txns \union {NoTxn} /\ lock[Job(k)] # t
        BY <1>1, <2>3, <3>2, JobRowsApart DEF JobTypes, RowShape
      <4> QED BY <1>1, <1>2, <1>3, <4>1, JobRowsApart DEF JobTypes, OthersWait, Finishing
    <3> QED BY <3>1, <3>2
  <2>7. JobTypes'
    BY <1>2, <1>3, <2>5, <2>6 DEF JobTypes
  <2>8. DOMAIN log' = DOMAIN log \union tx[t].out
    BY <1>4 DEF Logged
  <2>9. \A e \in DOMAIN log' : log'[e] = Times(e) + (IF e \in tx[t].out THEN 1 ELSE 0)
    BY <1>4, LoggedDoes
  <2>10. Made(j).kind = "made" /\ Made(j).key = j
    BY DEF Made
  <2>11. \A u \in Txns : Finishing(u)' => u # t /\ tx'[u] = tx[u] /\ Finishing(u)
    BY <1>3 DEF OthersWait, Finishing
  <2>12. ASSUME NEW k \in Jobs, Job(k) \notin raced PROVE MadeRight(k)'
    <3>1. MadeRight(k)
      BY <2>12 DEF MadeInv
    <3>2. CASE k = j
      <4>1. Entries("made", j) = {} /\ Made(j) \notin DOMAIN log
        BY <1>6, <2>1, <2>10, <3>1, <3>2 DEF MadeRight, Entries
      <4>2. Entries("made", j)' = {Made(j)}
        BY <2>2, <2>8, <2>10, <4>1 DEF Entries
      <4>3. log'[Made(j)] = 1
        BY <2>2, <2>8, <2>9, <4>1 DEF Times
      <4>4. ASSUME NEW u \in Txns, Finishing(u)', tx'[u].row = Job(j) PROVE FALSE
        BY <1>1, <2>2, <2>11, <4>4 DEF JobTypes, Finished
      <4> QED BY <2>4, <3>2, <4>2, <4>3, <4>4 DEF MadeRight, Made
    <3>3. CASE k # j
      <4>1. committed'[Job(k)] = committed[Job(k)]
        BY <1>2, <2>3, <3>3, JobRowsApart
      <4>2. \A e \in tx[t].out : e.kind = "made" => e.key # k
        BY <2>2, <2>10, <3>3
      <4>3. Entries("made", k)' = Entries("made", k)
        BY <2>8, <4>2 DEF Entries
      <4>4. \A e \in Entries("made", k) : log[e] = 1 => log'[e] = 1
        BY <2>8, <2>9, <4>2 DEF Entries, Times
      <4> QED BY <2>11, <3>1, <4>1, <4>3, <4>4 DEF MadeRight, Made
    <3> QED BY <3>2, <3>3
  <2> QED BY <1>1, <2>7, <2>12 DEF MadeInv
<1> QED BY <1>5, <1>6

LEMMA MadeSame == ASSUME MadeInv, desk = "stockroom", UNCHANGED serviceVars PROVE MadeInv'
<1>1. RowShape /\ RequestShape
  BY DEF MadeInv, JobTypes
<1>2. RowShape' /\ RequestShape' /\ \A t \in Txns : tx'[t] = tx[t]
  BY <1>1, SameRows, SameRequests DEF serviceVars
<1>3. /\ \A j \in Jobs : /\ db'[Job(j)] = db[Job(j)] /\ committed'[Job(j)] = committed[Job(j)]
                         /\ lock'[Job(j)] = lock[Job(j)]
      /\ \A j \in Jobs : /\ Entries("made", j)' = Entries("made", j)
                         /\ \A e \in Entries("made", j) : log[e] = 1 => log'[e] = 1
      /\ raced \subseteq raced' /\ desk' = desk
  BY DEF serviceVars, Entries
<1> QED BY <1>2, <1>3, JobsAside

LEMMA MadeNextInv == ASSUME MadeInv, [Next]_serviceVars PROVE MadeInv'
<1>1. desk' = desk
  BY DeskStays
<1>2. CASE desk # "stockroom"
  BY <1>1, <1>2 DEF MadeInv
<1>3. CASE desk = "stockroom"
  <2>1. ASSUME NEW t \in Txns, Abort(t, Lost(t)) PROVE MadeInv'
    <3>1. Lost(t) = {}
      BY <1>3 DEF MadeInv, JobTypes, JobRequest, Lost
    <3> QED BY <1>3, <2>1, <3>1, MadeGivesUp DEF Abort
  <2>2. \/ UNCHANGED serviceVars \/ Sell \/ CreateStockCount \/ Cancel \/ CreateProductionOrder
        \/ \E t \in Txns : StockCountStep(t)
        \/ \E t \in Txns : ProductionStep(t)
        \/ \E t \in Txns : Commit(t) \/ Abort(t, Lost(t))
    BY <1>3 DEF Next, StockCountNext, ProductionNext
  <2>3. ASSUME NEW t \in Txns, StockCountStep(t) PROVE MadeInv'
    BY <1>3, <2>3, CountingKeepsMade, ApplyingKeepsMade DEF StockCountStep
  <2>4. ASSUME NEW t \in Txns, ProductionStep(t) PROVE MadeInv'
    BY <1>3, <2>4, MakingKeepsMade, SetJobKeeps, SetCompletedKeeps DEF ProductionStep
  <2> QED BY <1>3, <2>1, <2>2, <2>3, <2>4, MadeSame, SingleKeepsMade, CreateJobKeeps, StockroomCommits
<1> QED BY <1>2, <1>3

LEMMA TotalOfOne ==
  ASSUME NEW e, e.amount \in Int, log[e] = 1
  PROVE  TotalOf({e}) = e.amount
<1>1. PICK g : g = [x \in {e} |-> x.amount * log[x]]
  OBVIOUS
<1>2. g[e] = e.amount
  BY <1>1
<1>3. IsFiniteSet({e}) /\ {e} \ {e} = {}
  BY FS_Singleton
<1>4. SumFunctionOnSet(g, {e}) = g[e] + SumFunctionOnSet(g, {e} \ {e})
  BY <1>2, <1>3, SumRemove
<1>5. SumFunctionOnSet(g, {e}) = e.amount
  BY <1>2, <1>3, <1>4, SumEmpty
<1> QED BY <1>1, <1>5 DEF TotalOf

LEMMA MadeEnough == ASSUME MadeInv PROVE MadeOnce
<1> SUFFICES ASSUME desk = "stockroom", NEW j \in Jobs, Job(j) \notin raced
             PROVE  TotalOf(Entries("made", j)) = IF committed[Job(j)] = "COMPLETED" THEN Size[j] ELSE 0
  BY DEF MadeOnce
<1>1. MadeRight(j)
  BY DEF MadeInv
<1>2. CASE committed[Job(j)] = "COMPLETED"
  <2>1. PICK e : e = Made(j)
    OBVIOUS
  <2>2. Entries("made", j) = {e} /\ log[e] = 1
    BY <1>1, <1>2, <2>1 DEF MadeRight
  <2>3. e.amount = Size[j] /\ e.amount \in Int
    BY <2>1, ProductionAssumption DEF Made
  <2>4. TotalOf({e}) = e.amount
    BY <2>2, <2>3, TotalOfOne
  <2> QED BY <1>2, <2>2, <2>3, <2>4
<1>3. CASE committed[Job(j)] # "COMPLETED"
  <2>1. Entries("made", j) = {}
    BY <1>1, <1>3 DEF MadeRight
  <2>2. TotalOf({}) = 0
    BY SumEmpty DEF TotalOf
  <2> QED BY <1>3, <2>1, <2>2
<1> QED BY <1>2, <1>3

\* However the board's moves, completions, counts, adjustments and sales interleave,
\* abort or crash, for all jobs, recipes and shelves: a job's goods are made once, and
\* only if it is completed, unless the job was written from a read that was out of date.
THEOREM MadeOnceHolds == Spec => []MadeOnce
<1>1. Init => MadeInv
  BY MadeInitInv
<1>2. MadeInv /\ [Next]_serviceVars => MadeInv'
  BY MadeNextInv
<1>3. MadeInv => MadeOnce
  BY MadeEnough
<1> QED BY <1>1, <1>2, <1>3, PTL DEF Spec
-------------------------------------------------------------------------------
(* Stock counts.                                                           *)

\* Entries that no approval of a count makes.
Beside(entries) == \A e \in entries : e.kind # "adjust" /\
                     (e.kind = "event" => \A c \in Counts : e.key # <<"STOCKCOUNT", c>>)

IsLine(x) == /\ x = [counted |-> x.counted, expected |-> x.expected]
             /\ x.counted \in Nat \union {Null}
             /\ x.expected \in Nat \union {Null}

LinesNow(c) == [i \in Ingredients |-> committed[Line(c, i)]]
ToApply(lines) == {i \in Ingredients : Variance(lines[i]) # 0}
NetOf(lines) == SumFunctionOnSet([j \in Ingredients |-> Cost[j] * Variance(lines[j])], ToApply(lines))
Adjustments(c, lines, D) == {Adjustment(c, i, Variance(lines[i])) : i \in D}
Approval(c, lines) == Adjustments(c, lines, ToApply(lines)) \union Posted(<<"STOCKCOUNT", c>>, NetOf(lines))

OnCount(t, op, c) == tx[t].op = op /\ tx[t].row = Count(c)

\* A request that has claimed its count.
Claimant(t) == \/ tx[t].op = "submit" /\ tx[t].pc = "commit"
               \/ tx[t].op = "approve" /\ tx[t].pc \in {"apply", "commit"}

\* What it claimed is still its own.
ClaimStands(t) ==
  /\ lock[tx[t].row] = t
  /\ db[tx[t].row] = IF tx[t].op = "submit" THEN "SUBMITTED" ELSE "APPROVED"
  /\ committed[tx[t].row] = IF tx[t].op = "submit" THEN "DRAFT" ELSE "SUBMITTED"

LinesRequest(t) ==
  /\ tx[t].op = "lines" /\ tx[t].pc \in {"write", "commit"} /\ tx[t].out = {}
  /\ tx[t].read.item \in Ingredients /\ tx[t].read.qty \in Nat
SubmitRequest(t) ==
  /\ tx[t].op = "submit" /\ tx[t].out = {} /\ tx[t].read.left \subseteq Ingredients
  /\ \/ tx[t].pc = "balances"
     \/ /\ tx[t].pc \in {"expect", "claim", "commit"}
        /\ tx[t].read = [left |-> tx[t].read.left, stock |-> tx[t].read.stock]
        /\ \A i \in Ingredients : tx[t].read.stock[i] \in Nat
        /\ tx[t].pc # "expect" => tx[t].read.left = {}
ApproveRequest(t, c) ==
  /\ tx[t].op = "approve" /\ \A i \in Ingredients : IsLine(tx[t].read.lines[i])
  /\ \/ tx[t].pc = "claim" /\ tx[t].out = {}
     \/ tx[t].pc = "apply" /\ \E D \in SUBSET ToApply(tx[t].read.lines) :
          tx[t].out = Adjustments(c, tx[t].read.lines, D)
     \/ tx[t].pc = "commit" /\ tx[t].out = Approval(c, tx[t].read.lines)

CountRequest(t) ==
  \/ tx[t].op = "none" /\ tx[t].pc = "none"
  \/ /\ tx[t].op \in {"adjust", "move", "complete"} /\ Beside(tx[t].out)
     /\ tx[t].op = "adjust" => tx[t].read.delta \in Int /\ \E i \in Ingredients : tx[t].row = Shelf(i)
     /\ tx[t].op # "adjust" => \E j \in Jobs : tx[t].row = Job(j)
     /\ tx[t].op = "complete" /\ tx[t].pc = "raw" =>
          /\ tx[t].read = [st |-> tx[t].read.st, left |-> tx[t].read.left]
          /\ tx[t].read.left \subseteq Ingredients
  \/ \E c \in Counts : /\ tx[t].row = Count(c)
                       /\ LinesRequest(t) \/ SubmitRequest(t) \/ ApproveRequest(t, c)

ShelfRow(i) ==
  /\ committed[Shelf(i)] \in Nat /\ db[Shelf(i)] \in Nat
  /\ lock[Shelf(i)] # NoTxn => tx[lock[Shelf(i)]].op \in {"approve", "adjust", "complete"}
CountRow(c) == IF lock[Count(c)] = NoTxn THEN db[Count(c)] = committed[Count(c)]
               ELSE Claimant(lock[Count(c)]) /\ tx[lock[Count(c)]].row = Count(c)
LineRow(c, i) ==
  /\ IsLine(committed[Line(c, i)]) /\ IsLine(db[Line(c, i)])
  /\ IF lock[Line(c, i)] = NoTxn THEN db[Line(c, i)] = committed[Line(c, i)]
     ELSE \/ OnCount(lock[Line(c, i)], "submit", c)
          \/ /\ OnCount(lock[Line(c, i)], "lines", c) /\ tx[lock[Line(c, i)]].pc = "commit"

CountTypes ==
  /\ RowShape /\ RequestShape
  /\ \A i \in Ingredients : ShelfRow(i)
  /\ \A c \in Counts : CountRow(c) /\ \A i \in Ingredients : LineRow(c, i)
  /\ \A t \in Txns : CountRequest(t) /\ (Claimant(t) => ClaimStands(t))
  /\ \A c \in Counts, t \in Txns :
       /\ OnCount(t, "lines", c) \/ OnCount(t, "submit", c) => committed[Count(c)] # "none"
       /\ OnCount(t, "approve", c) => committed[Count(c)] \in {"SUBMITTED", "APPROVED", "CANCELLED"}

\* While a line is being saved its count is a draft, and nobody moves it.
Untouched(c) == \A t \in Txns : OnCount(t, "lines", c) /\ tx[t].pc = "commit" =>
  /\ committed[Count(c)] \in {"DRAFT", "CANCELLED"}
  /\ \A u \in Txns : ~OnCount(u, "submit", c) /\ ~OnCount(u, "approve", c)

\* A submission has given, or has yet to give, every counted line its expected quantity.
Expected(c) == \A t \in Txns : OnCount(t, "submit", c) => \A i \in Ingredients :
  /\ \/ committed[Line(c, i)].counted = Null
     \/ i \in tx[t].read.left
     \/ lock[Line(c, i)] = t /\ db[Line(c, i)].expected # Null
  /\ lock[Line(c, i)] = t => db[Line(c, i)].counted = committed[Line(c, i)].counted

\* The lines an approval has read are those of the count.
ReadRight(c) == \A t \in Txns : OnCount(t, "approve", c) =>
  \A i \in Ingredients : tx[t].read.lines[i] = committed[Line(c, i)]

\* A count that left the draft has an expected quantity for every counted line.
HasExpected(c) == committed[Count(c)] \in {"SUBMITTED", "APPROVED"} =>
  \A i \in Ingredients :
    committed[Line(c, i)].counted # Null => committed[Line(c, i)].expected # Null

AboutCount(e, c) == \/ e.kind = "adjust" /\ \E i \in Ingredients : e.key = <<c, i>>
                    \/ e.kind = "event" /\ e.key = <<"STOCKCOUNT", c>>

\* What an approval told is what the lines say, once; nobody else tells anything.
ToldCount(c) ==
  /\ {e \in DOMAIN log : AboutCount(e, c)} =
       IF committed[Count(c)] = "APPROVED" THEN Approval(c, LinesNow(c)) ELSE {}
  /\ \A e \in DOMAIN log : AboutCount(e, c) => log[e] = 1

CountRight(c) == Untouched(c) /\ Expected(c) /\ ReadRight(c) /\ HasExpected(c) /\ ToldCount(c)

CountInv == desk = "stockroom" =>
  CountTypes /\ \A c \in Counts : Count(c) \notin raced => CountRight(c)

LEMMA CountRowsApart ==
  /\ \A i \in Ingredients : Shelf(i) \in Rows
  /\ \A c \in Counts : Count(c) \in Rows
  /\ \A c \in Counts : \A i \in Ingredients : Line(c, i) \in Rows
  /\ \A c : Count(c)[2] = c
  /\ \A i : Shelf(i)[2] = i
  /\ \A c, d : Count(c) = Count(d) => c = d
  /\ \A i, j : Shelf(i) = Shelf(j) => i = j
  /\ \A c, d : \A i, j : Line(c, i) = Line(d, j) => c = d /\ i = j
  /\ \A c : \A i : Count(c) # Shelf(i)
  /\ \A c : \A d : \A i : Count(c) # Line(d, i)
  /\ \A j : \A d : \A i : Shelf(j) # Line(d, i)
<1>1. /\ \A i \in Ingredients : Shelf(i) \in StockCountRows
      /\ \A c \in Counts : Count(c) \in StockCountRows
      /\ \A c \in Counts : \A i \in Ingredients : Line(c, i) \in StockCountRows
  BY DEF StockCountRows
<1>2. StockCountRows \subseteq Rows
  BY RowsAssumption DEF AllRows
<1>3. \A c : <<"count", c>>[2] = c /\ <<"shelf", c>>[2] = c
  OBVIOUS
<1>4. /\ \A c, d : <<"count", c>> = <<"count", d>> => c = d
      /\ \A i, j : <<"shelf", i>> = <<"shelf", j>> => i = j
  OBVIOUS
<1>5. \A c, d : \A i, j : <<"line", c, i>> = <<"line", d, j>> => c = d /\ i = j
  OBVIOUS
<1>6. \A c : \A i : <<"count", c>> # <<"shelf", i>>
  OBVIOUS
<1>7. /\ \A c : \A d : \A i : <<"count", c>> # <<"line", d, i>>
      /\ \A c : \A d : \A i : <<"shelf", c>> # <<"line", d, i>>
  OBVIOUS
<1>8. \A c : Count(c)[2] = c
  BY <1>3 DEF Count
<1>9. \A i : Shelf(i)[2] = i
  BY <1>3 DEF Shelf
<1>10. \A c, d : Count(c) = Count(d) => c = d
  BY <1>4 DEF Count
<1>11. \A i, j : Shelf(i) = Shelf(j) => i = j
  BY <1>4 DEF Shelf
<1>12. \A c, d : \A i, j : Line(c, i) = Line(d, j) => c = d /\ i = j
  BY <1>5 DEF Line
<1>13. \A c : \A i : Count(c) # Shelf(i)
  BY <1>6 DEF Count, Shelf
<1>14. \A c : \A d : \A i : Count(c) # Line(d, i)
  BY <1>7 DEF Count, Line
<1>15. \A j : \A d : \A i : Shelf(j) # Line(d, i)
  BY <1>7 DEF Shelf, Line
<1> QED BY <1>1, <1>2, <1>8, <1>9, <1>10, <1>11, <1>12, <1>13, <1>14, <1>15

LEMMA CountInitInv == ASSUME Init PROVE CountInv
<1>1. RowShape /\ RequestShape
  BY StartShape
<1>2. \A r \in Rows : lock[r] = NoTxn /\ db[r] = committed[r] /\ committed[r] = InitialOf(r)
  BY DEF Init, ServiceInit, Initial
<1>3. /\ \A i \in Ingredients : Shelf(i) \in StockCountRows
      /\ \A c \in Counts : Count(c) \in StockCountRows
      /\ \A c \in Counts : \A i \in Ingredients : Line(c, i) \in StockCountRows
  BY DEF StockCountRows
<1>4. /\ \A i \in Ingredients : StockCountInitial(Shelf(i)) = Opening[i]
      /\ \A c \in Counts : StockCountInitial(Count(c)) = "none"
      /\ \A c \in Counts : \A i \in Ingredients : StockCountInitial(Line(c, i)) = Blank
  BY DEF StockCountInitial, Shelf, Count, Line
<1>5. /\ \A i \in Ingredients : committed[Shelf(i)] = Opening[i]
      /\ \A c \in Counts : committed[Count(c)] = "none"
      /\ \A c \in Counts : \A i \in Ingredients : committed[Line(c, i)] = Blank
  BY <1>2, <1>3, <1>4, CountRowsApart, InitialRows
<1>6. IsLine(Blank)
  BY DEF IsLine, Blank
<1>7. \A t \in Txns : tx[t].op = "none" /\ tx[t].pc = "none"
  BY DEF Init, ServiceInit, Idle
<1>8. \A i \in Ingredients : ShelfRow(i)
  BY <1>2, <1>5, StockCountsAssumption, CountRowsApart DEF ShelfRow
<1>9. \A c \in Counts : CountRow(c)
  BY <1>2, CountRowsApart DEF CountRow
<1>10. \A c \in Counts : \A i \in Ingredients : LineRow(c, i)
  BY <1>2, <1>5, <1>6, CountRowsApart DEF LineRow
<1>11. \A t \in Txns : CountRequest(t) /\ ~Claimant(t)
  BY <1>7 DEF CountRequest, Claimant
<1>12. \A t \in Txns : \A op, c : OnCount(t, op, c) => op = "none"
  BY <1>7 DEF OnCount
<1>13. CountTypes
  BY <1>1, <1>8, <1>9, <1>10, <1>11, <1>12 DEF CountTypes
<1>14. ASSUME NEW c \in Counts PROVE CountRight(c)
  <2>1. Untouched(c) /\ Expected(c) /\ ReadRight(c)
    BY <1>12 DEF Untouched, Expected, ReadRight
  <2>2. HasExpected(c)
    BY <1>5 DEF HasExpected
  <2>3. ToldCount(c)
    BY <1>5 DEF ToldCount, Init, ServiceInit
  <2> QED BY <2>1, <2>2, <2>3 DEF CountRight
<1> QED BY <1>13, <1>14 DEF CountInv

\* A statement of one request, which commits nothing.
StepOf(t) ==
  /\ OthersWait(t) /\ UNCHANGED <<committed, log, desk>> /\ RowShape' /\ RequestShape'
  /\ \A r \in Rows : \/ db'[r] = db[r] /\ lock'[r] = lock[r]
                     \/ lock[r] \in {NoTxn, t} /\ lock'[r] = t

\* What a request may hold.
HoldsRight(t) ==
  /\ \A i \in Ingredients : lock[Shelf(i)] = t =>
       db[Shelf(i)] \in Nat /\ tx[t].op \in {"approve", "adjust", "complete"}
  /\ \A c \in Counts : lock[Count(c)] = t => Claimant(t) /\ tx[t].row = Count(c)
  /\ \A c \in Counts, i \in Ingredients : lock[Line(c, i)] = t =>
       IsLine(db[Line(c, i)]) /\ (OnCount(t, "submit", c) \/ (OnCount(t, "lines", c) /\ tx[t].pc = "commit"))

\* What the status of a count says of a request.
StatusRight(t) == \A c \in Counts :
  /\ OnCount(t, "lines", c) \/ OnCount(t, "submit", c) => committed[Count(c)] # "none"
  /\ OnCount(t, "approve", c) => committed[Count(c)] \in {"SUBMITTED", "APPROVED", "CANCELLED"}

\* The part of one request in CountRight.
PartRight(t, c) ==
  /\ OnCount(t, "lines", c) /\ tx[t].pc = "commit" =>
       /\ committed[Count(c)] \in {"DRAFT", "CANCELLED"}
       /\ \A u \in Txns : ~OnCount(u, "submit", c) /\ ~OnCount(u, "approve", c)
  /\ OnCount(t, "submit", c) \/ OnCount(t, "approve", c) =>
       \A u \in Txns : ~(OnCount(u, "lines", c) /\ tx[u].pc = "commit")
  /\ OnCount(t, "submit", c) => \A i \in Ingredients :
       /\ \/ committed[Line(c, i)].counted = Null
          \/ i \in tx[t].read.left
          \/ lock[Line(c, i)] = t /\ db[Line(c, i)].expected # Null
       /\ lock[Line(c, i)] = t => db[Line(c, i)].counted = committed[Line(c, i)].counted
  /\ OnCount(t, "approve", c) => \A i \in Ingredients : tx[t].read.lines[i] = committed[Line(c, i)]

LEMMA CountTypesGive ==
  ASSUME CountTypes, NEW t \in Txns
  PROVE  HoldsRight(t) /\ StatusRight(t) /\ t # NoTxn
<1>1. t # NoTxn
  BY RequestsAssumption
<1>2. StatusRight(t)
  BY DEF CountTypes, StatusRight
<1>3. HoldsRight(t)
  BY <1>1 DEF CountTypes, HoldsRight, ShelfRow, CountRow, LineRow
<1> QED BY <1>1, <1>2, <1>3

LEMMA CountRightGives ==
  ASSUME NEW c \in Counts, CountRight(c), NEW t \in Txns PROVE PartRight(t, c)
<1>1. /\ OnCount(t, "lines", c) /\ tx[t].pc = "commit" =>
           /\ committed[Count(c)] \in {"DRAFT", "CANCELLED"}
           /\ \A u \in Txns : ~OnCount(u, "submit", c) /\ ~OnCount(u, "approve", c)
      /\ OnCount(t, "submit", c) \/ OnCount(t, "approve", c) =>
           \A u \in Txns : ~(OnCount(u, "lines", c) /\ tx[u].pc = "commit")
  BY DEF CountRight, Untouched
<1> QED BY <1>1 DEF CountRight, Expected, ReadRight, PartRight

LEMMA StepKeepsTypes ==
  ASSUME CountTypes, NEW t \in Txns, StepOf(t),
         CountRequest(t)', Claimant(t)' => ClaimStands(t)', HoldsRight(t)', StatusRight(t)'
  PROVE  CountTypes'
<1>1. /\ RowShape' /\ RequestShape' /\ committed' = committed /\ t # NoTxn
      /\ \A u \in Txns \ {t} : tx'[u] = tx[u]
      /\ \A r \in Rows : \/ db'[r] = db[r] /\ lock'[r] = lock[r]
                         \/ lock[r] \in {NoTxn, t} /\ lock'[r] = t
      /\ \A r \in Rows : lock[r] \in Txns \union {NoTxn}
  BY CountTypesGive DEF StepOf, OthersWait, CountTypes, RowShape
<1>2. ASSUME NEW i \in Ingredients PROVE ShelfRow(i)'
  <2>1. Shelf(i) \in Rows /\ ShelfRow(i)
    BY CountRowsApart DEF CountTypes
  <2>2. CASE lock'[Shelf(i)] = t
    BY <1>1, <2>1, <2>2 DEF ShelfRow, HoldsRight
  <2>3. CASE lock'[Shelf(i)] # t
    BY <1>1, <2>1, <2>3 DEF ShelfRow
  <2> QED BY <2>2, <2>3
<1>3. ASSUME NEW c \in Counts PROVE CountRow(c)'
  <2>1. Count(c) \in Rows /\ CountRow(c)
    BY CountRowsApart DEF CountTypes
  <2>2. CASE lock'[Count(c)] = t
    BY <1>1, <2>1, <2>2 DEF CountRow, HoldsRight
  <2>3. CASE lock'[Count(c)] # t
    BY <1>1, <2>1, <2>3 DEF CountRow, Claimant
  <2> QED BY <2>2, <2>3
<1>4. ASSUME NEW c \in Counts, NEW i \in Ingredients PROVE LineRow(c, i)'
  <2>1. Line(c, i) \in Rows /\ LineRow(c, i)
    BY CountRowsApart DEF CountTypes
  <2>2. CASE lock'[Line(c, i)] = t
    BY <1>1, <2>1, <2>2 DEF LineRow, HoldsRight
  <2>3. CASE lock'[Line(c, i)] # t
    BY <1>1, <2>1, <2>3 DEF LineRow, OnCount
  <2> QED BY <2>2, <2>3
<1>5. ASSUME NEW u \in Txns PROVE CountRequest(u)' /\ (Claimant(u)' => ClaimStands(u)')
  <2>1. CASE u = t
    BY <2>1
  <2>2. CASE u # t
    <3>1. tx'[u] = tx[u] /\ CountRequest(u) /\ (Claimant(u) => ClaimStands(u))
      BY <1>1, <2>2 DEF CountTypes
    <3>2. CountRequest(u)'
      BY <3>1 DEF CountRequest, LinesRequest, SubmitRequest, ApproveRequest
    <3>3. ASSUME Claimant(u)' PROVE ClaimStands(u)'
      <4>1. Claimant(u) /\ ClaimStands(u)
        BY <3>1, <3>3 DEF Claimant
      <4>2. tx[u].row \in Rows
        BY <3>1, <4>1, CountRowsApart DEF CountRequest, Claimant
      <4> QED BY <1>1, <2>2, <3>1, <4>1, <4>2, CountTypesGive DEF ClaimStands
    <3> QED BY <3>2, <3>3
  <2> QED BY <2>1, <2>2
<1>6. ASSUME NEW u \in Txns PROVE StatusRight(u)'
  <2>1. CASE u = t
    BY <2>1
  <2>2. CASE u # t
    BY <1>1, <2>2, CountTypesGive DEF StatusRight, OnCount
  <2> QED BY <2>1, <2>2
<1> QED BY <1>1, <1>2, <1>3, <1>4, <1>5, <1>6 DEF CountTypes, StatusRight

LEMMA StepKeepsCount ==
  ASSUME CountTypes, NEW t \in Txns, StepOf(t), NEW c \in Counts, CountRight(c), PartRight(t, c)'
  PROVE  CountRight(c)'
<1>1. /\ committed' = committed /\ log' = log /\ t # NoTxn
      /\ \A u \in Txns \ {t} : tx'[u] = tx[u]
      /\ \A r \in Rows : \/ db'[r] = db[r] /\ lock'[r] = lock[r]
                         \/ lock[r] \in {NoTxn, t} /\ lock'[r] = t
  BY CountTypesGive DEF StepOf, OthersWait
<1>2. \A u \in Txns \ {t} : \A op : OnCount(u, op, c)' = OnCount(u, op, c)
  BY <1>1 DEF OnCount
<1>3. Untouched(c)'
  BY <1>1, <1>2 DEF CountRight, Untouched, PartRight
<1>4. \A u \in Txns \ {t} : \A i \in Ingredients :
        /\ lock'[Line(c, i)] = u => db'[Line(c, i)] = db[Line(c, i)] /\ lock[Line(c, i)] = u
        /\ lock[Line(c, i)] = u => db'[Line(c, i)] = db[Line(c, i)] /\ lock'[Line(c, i)] = u
  BY <1>1, RequestsAssumption, CountRowsApart
<1>5. Expected(c)'
  <2>1. ASSUME NEW u \in Txns, OnCount(u, "submit", c)', NEW i \in Ingredients
        PROVE  /\ \/ committed'[Line(c, i)].counted = Null
                  \/ i \in tx'[u].read.left
                  \/ lock'[Line(c, i)] = u /\ db'[Line(c, i)].expected # Null
               /\ lock'[Line(c, i)] = u => db'[Line(c, i)].counted = committed'[Line(c, i)].counted
    <3>1. CASE u = t
      BY <2>1, <3>1 DEF PartRight
    <3>2. CASE u # t
      BY <1>1, <1>2, <1>4, <2>1, <3>2 DEF CountRight, Expected
    <3> QED BY <3>1, <3>2
  <2> QED BY <2>1 DEF Expected
<1>6. ReadRight(c)'
  <2>1. ASSUME NEW u \in Txns, OnCount(u, "approve", c)', NEW i \in Ingredients
        PROVE  tx'[u].read.lines[i] = committed'[Line(c, i)]
    <3>1. CASE u = t
      BY <2>1, <3>1 DEF PartRight
    <3>2. CASE u # t
      BY <1>1, <1>2, <2>1, <3>2 DEF CountRight, ReadRight
    <3> QED BY <3>1, <3>2
  <2> QED BY <2>1 DEF ReadRight
<1>7. HasExpected(c)' /\ ToldCount(c)'
  <2>1. HasExpected(c) /\ ToldCount(c)
    BY DEF CountRight
  <2>2. HasExpected(c)'
    BY <1>1, <2>1 DEF HasExpected
  <2>3. LinesNow(c)' = LinesNow(c)
    BY <1>1 DEF LinesNow
  <2> QED BY <1>1, <2>1, <2>2, <2>3 DEF ToldCount
<1> QED BY <1>3, <1>5, <1>6, <1>7 DEF CountRight

LEMMA StepKeeps ==
  ASSUME CountInv, desk = "stockroom", NEW t \in Txns, StepOf(t), raced \subseteq raced',
         CountRequest(t)', Claimant(t)' => ClaimStands(t)', HoldsRight(t)', StatusRight(t)',
         \A c \in Counts : Count(c) \notin raced' /\ CountRight(c) => PartRight(t, c)'
  PROVE  CountInv'
<1>1. CountTypes
  BY DEF CountInv
<1>2. CountTypes'
  BY <1>1, StepKeepsTypes
<1>3. ASSUME NEW c \in Counts, Count(c) \notin raced' PROVE CountRight(c)'
  <2>1. CountRight(c) /\ PartRight(t, c)'
    BY <1>3 DEF CountInv
  <2> QED BY <1>1, <2>1, StepKeepsCount
<1> QED BY <1>2, <1>3 DEF CountInv, StepOf

LEMMA CountBegins ==
  ASSUME CountInv, desk = "stockroom", NEW t \in Txns, NEW op, NEW pc, NEW row, NEW read, NEW stale,
         BeginBeside(t, op, pc, row, read, stale)
  PROVE  /\ StepOf(t) /\ HoldsRight(t)' /\ raced \subseteq raced' /\ tx[t].op = "none"
         /\ tx'[t].op = op /\ tx'[t].pc = pc /\ tx'[t].row = row /\ tx'[t].read = read
         /\ tx'[t].out = {}
         /\ \A c, i : lock[Line(c, i)] = t => c \notin Counts \/ i \notin Ingredients
         /\ UNCHANGED <<db, lock>>
<1>1. CountTypes /\ RequestShape /\ RowShape
  BY DEF CountInv, CountTypes
<1>2. /\ tx[t].op = "none" /\ tx'[t].op = op /\ tx'[t].pc = pc /\ tx'[t].row = row
      /\ tx'[t].read = read /\ tx'[t].out = {} /\ OthersWait(t) /\ RequestShape'
  BY <1>1, BeginDoes
<1>3. UNCHANGED <<db, committed, lock, log, desk>> /\ raced \subseteq raced'
  BY DEF BeginBeside
<1>4. StepOf(t)
  BY <1>1, <1>2, <1>3, SameRows DEF StepOf
<1>5. HoldsRight(t)
  BY <1>1, CountTypesGive
<1>6. /\ \A i \in Ingredients : lock[Shelf(i)] # t
      /\ \A c \in Counts : lock[Count(c)] # t
      /\ \A c \in Counts, i \in Ingredients : lock[Line(c, i)] # t
  BY <1>2, <1>5 DEF HoldsRight, Claimant, OnCount
<1>7. HoldsRight(t)'
  BY <1>3, <1>6 DEF HoldsRight
<1> QED BY <1>2, <1>3, <1>4, <1>6, <1>7

LEMMA UpdateLinesKeeps ==
  ASSUME CountInv, desk = "stockroom", NEW t \in Txns, UpdateLines(t) PROVE CountInv'
<1>1. PICK c \in Counts, i \in Ingredients, q \in Counted :
        committed[Count(c)] = "DRAFT" /\ Begin(t, "lines", "write", Count(c), [item |-> i, qty |-> q])
  BY DEF UpdateLines
<1>2. PICK read : read = [item |-> i, qty |-> q]
  OBVIOUS
<1>3. BeginBeside(t, "lines", "write", Count(c), read, {})
  BY <1>1, <1>2 DEF Begin
<1>4. /\ StepOf(t) /\ HoldsRight(t)' /\ raced \subseteq raced'
      /\ tx'[t].op = "lines" /\ tx'[t].pc = "write" /\ tx'[t].row = Count(c) /\ tx'[t].read = read
      /\ tx'[t].out = {}
  BY <1>3, CountBegins
<1>5. read.item \in Ingredients /\ read.qty \in Nat
  BY <1>2, StockCountsAssumption
<1>6. CountRequest(t)' /\ ~Claimant(t)'
  BY <1>4, <1>5 DEF CountRequest, LinesRequest, Claimant
<1>7. StatusRight(t)'
  BY <1>1, <1>4, CountRowsApart DEF StatusRight, OnCount, StepOf
<1>8. \A d \in Counts : PartRight(t, d)'
  BY <1>4 DEF PartRight, OnCount
<1> QED BY <1>4, <1>6, <1>7, <1>8, StepKeeps

LEMMA SubmitKeeps ==
  ASSUME CountInv, desk = "stockroom", NEW t \in Txns, Submit(t) PROVE CountInv'
<1>1. PICK c \in Counts :
        /\ committed[Count(c)] = "DRAFT"
        /\ BeginBeside(t, "submit", "balances", Count(c),
                       [left |-> {i \in Ingredients : LinesOf(t, c)[i].counted # Null}],
                       IF Editing(c) THEN {Count(c)} ELSE {})
  BY DEF Submit
<1>2. PICK left : left = {i \in Ingredients : LinesOf(t, c)[i].counted # Null}
  OBVIOUS
<1>3. PICK read : read = [left |-> left]
  OBVIOUS
<1>4. PICK stale : stale = IF Editing(c) THEN {Count(c)} ELSE {}
  OBVIOUS
<1>5. BeginBeside(t, "submit", "balances", Count(c), read, stale)
  BY <1>1, <1>2, <1>3, <1>4
<1>6. /\ StepOf(t) /\ HoldsRight(t)' /\ raced \subseteq raced' /\ tx[t].op = "none"
      /\ tx'[t].op = "submit" /\ tx'[t].pc = "balances" /\ tx'[t].row = Count(c) /\ tx'[t].read = read
      /\ tx'[t].out = {}
      /\ \A d, i : lock[Line(d, i)] = t => d \notin Counts \/ i \notin Ingredients
      /\ UNCHANGED <<db, lock>>
  BY <1>5, CountBegins
<1>7. read.left = left /\ left \subseteq Ingredients
  BY <1>2, <1>3
<1>8. CountRequest(t)' /\ ~Claimant(t)'
  BY <1>6, <1>7 DEF CountRequest, SubmitRequest, Claimant
<1>9. StatusRight(t)'
  BY <1>1, <1>6, CountRowsApart DEF StatusRight, OnCount, StepOf
<1>10. \A i \in Ingredients : LinesOf(t, c)[i] = committed[Line(c, i)]
  BY <1>6 DEF LinesOf, Seen
<1>11. raced' = raced \union stale
  BY <1>5 DEF BeginBeside
<1>12. committed' = committed /\ \A u \in Txns \ {t} : tx'[u] = tx[u]
  BY <1>6 DEF StepOf, OthersWait
<1>13. ASSUME NEW d \in Counts, Count(d) \notin raced', CountRight(d) PROVE PartRight(t, d)'
  <2>1. CASE d # c
    BY <1>6, <2>1, CountRowsApart DEF PartRight, OnCount
  <2>2. CASE d = c
    <3>1. \A u \in Txns : ~(tx[u].op = "lines" /\ tx[u].row = Count(c))
      BY <1>4, <1>11, <1>13, <2>2 DEF Editing
    <3>2. \A u \in Txns : ~(OnCount(u, "lines", c)')
      BY <1>6, <1>12, <3>1 DEF OnCount
    <3>3. \A i \in Ingredients : committed[Line(c, i)].counted = Null \/ i \in left
      BY <1>2, <1>10
    <3> QED BY <1>6, <1>7, <1>12, <2>2, <3>2, <3>3 DEF PartRight, OnCount
  <2> QED BY <2>1, <2>2
<1> QED BY <1>6, <1>8, <1>9, <1>13, StepKeeps

LEMMA ApproveKeeps ==
  ASSUME CountInv, desk = "stockroom", NEW t \in Txns, Approve(t) PROVE CountInv'
<1>1. PICK c \in Counts : /\ committed[Count(c)] = "SUBMITTED"
                          /\ Begin(t, "approve", "claim", Count(c), [lines |-> LinesOf(t, c)])
  BY DEF Approve
<1>2. PICK read : read = [lines |-> LinesOf(t, c)]
  OBVIOUS
<1>3. BeginBeside(t, "approve", "claim", Count(c), read, {})
  BY <1>1, <1>2 DEF Begin
<1>4. /\ StepOf(t) /\ HoldsRight(t)' /\ raced \subseteq raced'
      /\ tx'[t].op = "approve" /\ tx'[t].pc = "claim" /\ tx'[t].row = Count(c) /\ tx'[t].read = read
      /\ tx'[t].out = {}
      /\ \A d, i : lock[Line(d, i)] = t => d \notin Counts \/ i \notin Ingredients
  BY <1>3, CountBegins
<1>5. \A i \in Ingredients : read.lines[i] = committed[Line(c, i)] /\ IsLine(read.lines[i])
  <2>1. \A i \in Ingredients : LinesOf(t, c)[i] = committed[Line(c, i)]
    BY <1>4 DEF LinesOf, Seen
  <2>2. \A i \in Ingredients : IsLine(committed[Line(c, i)])
    BY DEF CountInv, CountTypes, LineRow
  <2> QED BY <1>2, <2>1, <2>2
<1>6. CountRequest(t)' /\ ~Claimant(t)'
  BY <1>4, <1>5 DEF CountRequest, ApproveRequest, Claimant
<1>7. StatusRight(t)'
  BY <1>1, <1>4, CountRowsApart DEF StatusRight, OnCount, StepOf
<1>8. committed' = committed /\ \A u \in Txns \ {t} : tx'[u] = tx[u]
  BY <1>4 DEF StepOf, OthersWait
<1>9. ASSUME NEW d \in Counts, Count(d) \notin raced', CountRight(d) PROVE PartRight(t, d)'
  <2>1. CASE d # c
    BY <1>4, <2>1, CountRowsApart DEF PartRight, OnCount
  <2>2. CASE d = c
    <3>1. \A u \in Txns : ~(OnCount(u, "lines", c) /\ tx[u].pc = "commit")
      BY <1>1, <1>9, <2>2 DEF CountRight, Untouched
    <3>2. \A u \in Txns : ~(OnCount(u, "lines", c)' /\ tx'[u].pc = "commit")
      BY <1>4, <1>8, <3>1 DEF OnCount
    <3> QED BY <1>4, <1>5, <1>8, <2>2, <3>2 DEF PartRight, OnCount
  <2> QED BY <2>1, <2>2
<1> QED BY <1>4, <1>6, <1>7, <1>9, StepKeeps


\* A statement that writes a row ...
LEMMA CountWrites ==
  ASSUME CountTypes, NEW t \in Txns, NEW row \in Rows, NEW value, NEW pc, NEW read, NEW out,
         MayWrite(t, row), Write(t, row, value), Continue(t, pc, read, out)
  PROVE  /\ StepOf(t)
         /\ tx'[t].op = tx[t].op /\ tx'[t].pc = pc /\ tx'[t].row = tx[t].row
         /\ tx'[t].read = read /\ tx'[t].out = out
         /\ db'[row] = value /\ lock'[row] = t
         /\ \A r \in Rows \ {row} : db'[r] = db[r] /\ lock'[r] = lock[r]
<1>1. RowShape /\ RequestShape /\ UNCHANGED <<committed, log, desk>>
  BY DEF CountTypes, Continue
<1>2. /\ lock'[row] = t /\ db'[row] = value /\ RowShape'
      /\ \A r \in Rows \ {row} : db'[r] = db[r] /\ lock'[r] = lock[r]
  BY <1>1, WriteDoes
<1>3. /\ tx'[t].op = tx[t].op /\ tx'[t].pc = pc /\ tx'[t].row = tx[t].row
      /\ tx'[t].read = read /\ tx'[t].out = out /\ OthersWait(t) /\ RequestShape'
  BY <1>1, ContinueDoes
<1> QED BY <1>1, <1>2, <1>3 DEF StepOf, MayWrite

\* ... and one that writes none.
LEMMA CountReads ==
  ASSUME CountTypes, NEW t \in Txns, NEW pc, NEW read, NEW out,
         Continue(t, pc, read, out), UNCHANGED <<db, lock>>
  PROVE  /\ StepOf(t)
         /\ tx'[t].op = tx[t].op /\ tx'[t].pc = pc /\ tx'[t].row = tx[t].row
         /\ tx'[t].read = read /\ tx'[t].out = out
<1>1. RowShape /\ RequestShape /\ UNCHANGED <<committed, log, desk>>
  BY DEF CountTypes, Continue
<1>2. RowShape'
  BY <1>1, SameRows
<1>3. /\ tx'[t].op = tx[t].op /\ tx'[t].pc = pc /\ tx'[t].row = tx[t].row
      /\ tx'[t].read = read /\ tx'[t].out = out /\ OthersWait(t) /\ RequestShape'
  BY <1>1, ContinueDoes
<1> QED BY <1>1, <1>2, <1>3 DEF StepOf

LEMMA StatusStays ==
  ASSUME CountTypes, NEW t \in Txns, StepOf(t), tx'[t].op = tx[t].op, tx'[t].row = tx[t].row
  PROVE  StatusRight(t)'
BY CountTypesGive DEF StatusRight, OnCount, StepOf

LEMMA WriteLineKeeps ==
  ASSUME CountInv, desk = "stockroom", NEW t \in Txns, WriteLine(t) PROVE CountInv'
<1>1. CountTypes /\ tx[t].op = "lines" /\ tx[t].pc = "write" /\ HoldsRight(t)
  BY CountTypesGive DEF CountInv, WriteLine, Doing
<1>2. PICK c \in Counts : tx[t].row = Count(c) /\ LinesRequest(t)
  BY <1>1 DEF CountTypes, CountRequest, SubmitRequest, ApproveRequest
<1>3. PICK i \in Ingredients : i = tx[t].read.item
  BY <1>2 DEF LinesRequest
<1>4. PICK was : was = db[Line(c, i)]
  OBVIOUS
<1>5. PICK value : value = [was EXCEPT !.counted = tx[t].read.qty]
  OBVIOUS
<1>6. Line(c, i) \in Rows /\ Count(c)[2] = c
  BY CountRowsApart
<1>7. /\ MayWrite(t, Line(c, i)) /\ Write(t, Line(c, i), value)
      /\ Continue(t, "commit", tx[t].read, tx[t].out)
      /\ raced' = IF Moving(c) THEN raced \union {Count(c)} ELSE raced
  BY <1>2, <1>3, <1>4, <1>5, <1>6 DEF WriteLine, GoTo
<1>8. /\ StepOf(t)
      /\ tx'[t].op = tx[t].op /\ tx'[t].pc = "commit" /\ tx'[t].row = tx[t].row
      /\ tx'[t].read = tx[t].read /\ tx'[t].out = tx[t].out
      /\ db'[Line(c, i)] = value /\ lock'[Line(c, i)] = t
      /\ \A r \in Rows \ {Line(c, i)} : db'[r] = db[r] /\ lock'[r] = lock[r]
  BY <1>1, <1>6, <1>7, CountWrites
<1>9. IsLine(value)
  <2>1. IsLine(was)
    BY <1>1, <1>4 DEF CountTypes, LineRow
  <2>2. was = [counted |-> was.counted, expected |-> was.expected]
    BY <2>1 DEF IsLine
  <2>3. value = [counted |-> tx[t].read.qty, expected |-> was.expected]
    BY <1>5, <2>2
  <2> QED BY <1>2, <2>1, <2>3 DEF IsLine, LinesRequest
<1>10. CountRequest(t)' /\ ~Claimant(t)'
  BY <1>1, <1>2, <1>8 DEF CountRequest, LinesRequest, Claimant
<1>11. StatusRight(t)'
  BY <1>1, <1>8, StatusStays
<1>12. HoldsRight(t)'
  <2>1. /\ \A j \in Ingredients : lock[Shelf(j)] # t
        /\ \A d \in Counts : lock[Count(d)] # t
        /\ \A d \in Counts, j \in Ingredients : lock[Line(d, j)] # t
    BY <1>1 DEF HoldsRight, Claimant, OnCount
  <2>2. /\ \A j \in Ingredients : lock'[Shelf(j)] # t
        /\ \A d \in Counts : lock'[Count(d)] # t
        /\ \A d \in Counts, j \in Ingredients : lock'[Line(d, j)] = t => d = c /\ j = i
    BY <1>8, <2>1, CountRowsApart
  <2> QED BY <1>1, <1>2, <1>8, <1>9, <2>2 DEF HoldsRight, OnCount
<1>13. ASSUME NEW d \in Counts, Count(d) \notin raced', CountRight(d) PROVE PartRight(t, d)'
  <2>1. CASE d # c
    BY <1>1, <1>2, <1>8, <2>1, CountRowsApart DEF PartRight, OnCount
  <2>2. CASE d = c
    <3>1. db[Count(c)] = "DRAFT" /\ \A u \in Txns : ~OnCount(u, "submit", c) /\ ~OnCount(u, "approve", c)
      BY <1>7, <1>13, <2>2 DEF Moving, OnCount
    <3>2. committed[Count(c)] = "DRAFT"
      <4>1. CountRow(c) /\ lock[Count(c)] \in Txns \union {NoTxn}
        BY <1>1, CountRowsApart DEF CountTypes, RowShape
      <4> QED BY <3>1, <4>1 DEF CountRow, Claimant, OnCount
    <3>3. \A u \in Txns : ~OnCount(u, "submit", c)' /\ ~OnCount(u, "approve", c)'
      BY <1>1, <1>8, <3>1 DEF OnCount, StepOf, OthersWait
    <3> QED BY <1>1, <1>8, <2>2, <3>2, <3>3 DEF PartRight, OnCount, StepOf
  <2> QED BY <2>1, <2>2
<1>14. raced \subseteq raced'
  BY <1>7
<1> QED BY <1>8, <1>10, <1>11, <1>12, <1>13, <1>14, StepKeeps

\* No line of a count is being saved while it is submitted or approved.
LEMMA OthersStill ==
  ASSUME NEW t \in Txns, StepOf(t), NEW c, NEW op \in {"submit", "approve"},
         OnCount(t, op, c), PartRight(t, c), tx'[t].op = op
  PROVE  \A u \in Txns : ~(OnCount(u, "lines", c)' /\ tx'[u].pc = "commit")
<1>1. \A u \in Txns : ~(OnCount(u, "lines", c) /\ tx[u].pc = "commit")
  BY DEF PartRight
<1> QED BY <1>1 DEF StepOf, OthersWait, OnCount

LEMMA ReadBalancesKeeps ==
  ASSUME CountInv, desk = "stockroom", NEW t \in Txns, ReadBalances(t) PROVE CountInv'
<1>1. CountTypes /\ tx[t].op = "submit" /\ tx[t].pc = "balances" /\ HoldsRight(t)
  BY CountTypesGive DEF CountInv, ReadBalances, Doing
<1>2. PICK c \in Counts : tx[t].row = Count(c) /\ SubmitRequest(t)
  BY <1>1 DEF CountTypes, CountRequest, LinesRequest, ApproveRequest
<1>3. PICK read : read = [left |-> tx[t].read.left, stock |-> [i \in Ingredients |-> Seen(t, Shelf(i))]]
  OBVIOUS
<1>4. Continue(t, "expect", read, {}) /\ UNCHANGED <<db, lock, raced>>
  BY <1>3 DEF ReadBalances
<1>5. /\ StepOf(t)
      /\ tx'[t].op = tx[t].op /\ tx'[t].pc = "expect" /\ tx'[t].row = tx[t].row
      /\ tx'[t].read = read /\ tx'[t].out = {}
  BY <1>1, <1>4, CountReads
<1>6. \A i \in Ingredients : Seen(t, Shelf(i)) \in Nat
  BY <1>1 DEF CountTypes, ShelfRow, Seen
<1>7. /\ read = [left |-> read.left, stock |-> read.stock] /\ read.left = tx[t].read.left
      /\ \A i \in Ingredients : read.stock[i] \in Nat
  BY <1>3, <1>6
<1>8. CountRequest(t)' /\ ~Claimant(t)'
  BY <1>1, <1>2, <1>5, <1>7 DEF CountRequest, SubmitRequest, Claimant
<1>9. StatusRight(t)'
  BY <1>1, <1>5, StatusStays
<1>10. HoldsRight(t)'
  BY <1>1, <1>4, <1>5 DEF HoldsRight, OnCount, Claimant
<1>11. ASSUME NEW d \in Counts, Count(d) \notin raced', CountRight(d) PROVE PartRight(t, d)'
  <2>1. CASE d # c
    BY <1>1, <1>2, <1>5, <2>1, CountRowsApart DEF PartRight, OnCount
  <2>2. CASE d = c
    <3>1. PartRight(t, c) /\ OnCount(t, "submit", c)
      BY <1>1, <1>2, <1>11, <2>2, CountRightGives DEF OnCount
    <3>2. \A u \in Txns : ~(OnCount(u, "lines", c)' /\ tx'[u].pc = "commit")
      BY <1>1, <1>5, <3>1, OthersStill
    <3> QED BY <1>1, <1>4, <1>5, <1>7, <2>2, <3>1, <3>2 DEF PartRight, OnCount, StepOf
  <2> QED BY <2>1, <2>2
<1> QED BY <1>4, <1>5, <1>8, <1>9, <1>10, <1>11, StepKeeps

LEMMA ExpectKeeps ==
  ASSUME CountInv, desk = "stockroom", NEW t \in Txns, Expect(t) PROVE CountInv'
<1>1. CountTypes /\ tx[t].op = "submit" /\ tx[t].pc = "expect" /\ HoldsRight(t) /\ t # NoTxn
  BY CountTypesGive DEF CountInv, Expect, Doing
<1>2. PICK c \in Counts : tx[t].row = Count(c) /\ SubmitRequest(t)
  BY <1>1 DEF CountTypes, CountRequest, LinesRequest, ApproveRequest
<1>3. PICK i \in tx[t].read.left :
        LET line == Line(tx[t].row[2], i)
            left == tx[t].read.left \ {i}
        IN /\ MayWrite(t, line)
           /\ Write(t, line, [db[line] EXCEPT !.expected = tx[t].read.stock[i]])
           /\ Continue(t, IF left = {} THEN "claim" ELSE "expect",
                       [tx[t].read EXCEPT !.left = left], {})
           /\ UNCHANGED raced
  BY DEF Expect
<1>4. i \in Ingredients /\ Count(c)[2] = c /\ Line(c, i) \in Rows
  BY <1>2, CountRowsApart DEF SubmitRequest
<1>5. PICK was : was = db[Line(c, i)]
  OBVIOUS
<1>6. PICK value : value = [was EXCEPT !.expected = tx[t].read.stock[i]]
  OBVIOUS
<1>7. PICK old : old = tx[t].read
  OBVIOUS
<1>8. PICK left : left = old.left \ {i}
  OBVIOUS
<1>9. PICK read : read = [old EXCEPT !.left = left]
  OBVIOUS
<1>10. PICK pc : pc = IF left = {} THEN "claim" ELSE "expect"
  OBVIOUS
<1>11. /\ MayWrite(t, Line(c, i)) /\ Write(t, Line(c, i), value)
       /\ Continue(t, pc, read, {}) /\ UNCHANGED raced
  BY <1>2, <1>3, <1>4, <1>5, <1>6, <1>7, <1>8, <1>9, <1>10
<1>12. /\ StepOf(t)
       /\ tx'[t].op = tx[t].op /\ tx'[t].pc = pc /\ tx'[t].row = tx[t].row
       /\ tx'[t].read = read /\ tx'[t].out = {}
       /\ db'[Line(c, i)] = value /\ lock'[Line(c, i)] = t
       /\ \A r \in Rows \ {Line(c, i)} : db'[r] = db[r] /\ lock'[r] = lock[r]
  BY <1>1, <1>4, <1>11, CountWrites
<1>13. /\ old = [left |-> old.left, stock |-> old.stock] /\ old.left \subseteq Ingredients
       /\ \A j \in Ingredients : old.stock[j] \in Nat
  BY <1>1, <1>2, <1>7 DEF SubmitRequest
<1>14. read = [left |-> left, stock |-> old.stock]
  BY <1>9, <1>13
<1>15. read.left = left /\ read.stock = old.stock /\ left \subseteq Ingredients
  BY <1>8, <1>13, <1>14
<1>16. IsLine(value) /\ value.counted = was.counted /\ value.expected # Null
  <2>1. IsLine(was)
    BY <1>1, <1>4, <1>5 DEF CountTypes, LineRow
  <2>2. was = [counted |-> was.counted, expected |-> was.expected]
    BY <2>1 DEF IsLine
  <2>3. value = [counted |-> was.counted, expected |-> old.stock[i]]
    BY <1>6, <1>7, <2>2
  <2> QED BY <1>4, <1>13, <2>1, <2>3, StockCountsAssumption DEF IsLine
<1>17. CountRequest(t)' /\ ~Claimant(t)'
  BY <1>1, <1>2, <1>10, <1>12, <1>13, <1>14, <1>15 DEF CountRequest, SubmitRequest, Claimant
<1>18. StatusRight(t)'
  BY <1>1, <1>12, StatusStays
<1>19. HoldsRight(t)'
  <2>1. /\ \A j \in Ingredients : lock[Shelf(j)] # t
        /\ \A d \in Counts : lock[Count(d)] # t
        /\ \A d \in Counts, j \in Ingredients : lock[Line(d, j)] = t =>
             IsLine(db[Line(d, j)]) /\ OnCount(t, "submit", d)
    BY <1>1 DEF HoldsRight, Claimant, OnCount
  <2>2. /\ \A j \in Ingredients : lock'[Shelf(j)] # t
        /\ \A d \in Counts : lock'[Count(d)] # t
    BY <1>12, <2>1, CountRowsApart
  <2>3. ASSUME NEW d \in Counts, NEW j \in Ingredients, lock'[Line(d, j)] = t
        PROVE  IsLine(db'[Line(d, j)]) /\ OnCount(t, "submit", d)'
    <3>1. CASE d = c /\ j = i
      BY <1>1, <1>2, <1>12, <1>16, <3>1 DEF OnCount
    <3>2. CASE ~(d = c /\ j = i)
      BY <1>12, <2>1, <2>3, <3>2, CountRowsApart DEF OnCount
    <3> QED BY <3>1, <3>2
  <2> QED BY <2>2, <2>3 DEF HoldsRight
<1>20. ASSUME NEW d \in Counts, Count(d) \notin raced', CountRight(d) PROVE PartRight(t, d)'
  <2>1. CASE d # c
    BY <1>1, <1>2, <1>12, <2>1, CountRowsApart DEF PartRight, OnCount
  <2>2. CASE d = c
    <3>1. PartRight(t, c) /\ OnCount(t, "submit", c)
      BY <1>1, <1>2, <1>20, <2>2, CountRightGives DEF OnCount
    <3>2. \A u \in Txns : ~(OnCount(u, "lines", c)' /\ tx'[u].pc = "commit")
      BY <1>1, <1>12, <3>1, OthersStill
    <3>3. ASSUME NEW j \in Ingredients
          PROVE  /\ \/ committed[Line(c, j)].counted = Null
                    \/ j \in left
                    \/ lock'[Line(c, j)] = t /\ db'[Line(c, j)].expected # Null
                 /\ lock'[Line(c, j)] = t => db'[Line(c, j)].counted = committed[Line(c, j)].counted
      <4>1. CASE j = i
        <5>1. db[Line(c, i)].counted = committed[Line(c, i)].counted
          <6>1. CASE lock[Line(c, i)] = t
            BY <1>4, <3>1, <6>1 DEF PartRight
          <6>2. CASE lock[Line(c, i)] # t
            BY <1>1, <1>4, <1>11, <6>2 DEF MayWrite, CountTypes, LineRow
          <6> QED BY <6>1, <6>2
        <5> QED BY <1>5, <1>12, <1>16, <4>1, <5>1
      <4>2. CASE j # i
        <5>1. /\ Line(c, j) \in Rows \ {Line(c, i)}
              /\ db'[Line(c, j)] = db[Line(c, j)] /\ lock'[Line(c, j)] = lock[Line(c, j)]
          BY <1>12, <4>2, CountRowsApart
        <5> QED BY <1>7, <1>8, <3>1, <4>2, <5>1 DEF PartRight
      <4> QED BY <4>1, <4>2
    <3> QED BY <1>1, <1>12, <1>15, <2>2, <3>2, <3>3 DEF PartRight, OnCount, StepOf
  <2> QED BY <2>1, <2>2
<1> QED BY <1>11, <1>12, <1>17, <1>18, <1>19, <1>20, StepKeeps

\* A claim: the row was free, and is held from here on.
LEMMA ClaimKeeps ==
  ASSUME CountInv, desk = "stockroom", NEW t \in Txns, NEW c \in Counts, NEW op, NEW pc, NEW value,
         tx[t].row = Count(c), tx[t].op = op, tx[t].pc = "claim",
         MayWrite(t, Count(c)), Write(t, Count(c), value), Continue(t, pc, tx[t].read, tx[t].out),
         UNCHANGED raced, CountRequest(t)',
         \/ op = "submit" /\ db[Count(c)] = "DRAFT" /\ value = "SUBMITTED" /\ pc = "commit"
         \/ /\ op = "approve" /\ db[Count(c)] = "SUBMITTED" /\ value = "APPROVED"
            /\ pc \in {"apply", "commit"}
  PROVE  CountInv'
<1>1. CountTypes /\ HoldsRight(t) /\ ~Claimant(t) /\ t # NoTxn /\ Count(c) \in Rows
  BY CountTypesGive, CountRowsApart DEF CountInv, Claimant
<1>2. /\ StepOf(t)
      /\ tx'[t].op = op /\ tx'[t].pc = pc /\ tx'[t].row = Count(c)
      /\ tx'[t].read = tx[t].read /\ tx'[t].out = tx[t].out
      /\ db'[Count(c)] = value /\ lock'[Count(c)] = t
      /\ \A r \in Rows \ {Count(c)} : db'[r] = db[r] /\ lock'[r] = lock[r]
  BY <1>1, CountWrites
<1>3. lock[Count(c)] = NoTxn /\ committed[Count(c)] = db[Count(c)]
  BY <1>1 DEF HoldsRight, MayWrite, CountTypes, CountRow
<1>4. Claimant(t)' /\ ClaimStands(t)'
  BY <1>2, <1>3 DEF Claimant, ClaimStands, StepOf
<1>5. StatusRight(t)'
  BY <1>1, <1>2, StatusStays
<1>6. HoldsRight(t)'
  <2>1. /\ \A j \in Ingredients : lock'[Shelf(j)] = t =>
             db'[Shelf(j)] \in Nat /\ tx'[t].op \in {"approve", "adjust", "complete"}
        /\ \A d \in Counts : lock'[Count(d)] = t => d = c
    BY <1>1, <1>2, CountRowsApart DEF HoldsRight
  <2>2. \A d \in Counts, j \in Ingredients : lock'[Line(d, j)] = t =>
          /\ IsLine(db'[Line(d, j)])
          /\ OnCount(t, "submit", d)' \/ (OnCount(t, "lines", d)' /\ tx'[t].pc = "commit")
    BY <1>1, <1>2, CountRowsApart DEF HoldsRight, OnCount
  <2> QED BY <1>2, <1>4, <2>1, <2>2 DEF HoldsRight
<1>7. ASSUME NEW d \in Counts, Count(d) \notin raced', CountRight(d) PROVE PartRight(t, d)'
  <2>1. CASE d # c
    BY <1>2, <2>1, CountRowsApart DEF PartRight, OnCount
  <2>2. CASE d = c
    <3>1. PartRight(t, c) /\ OnCount(t, op, c)
      BY <1>7, <2>2, CountRightGives DEF OnCount
    <3>2. \A u \in Txns : ~(OnCount(u, "lines", c)' /\ tx'[u].pc = "commit")
      BY <1>2, <3>1, OthersStill
    <3>3. \A j \in Ingredients : /\ Line(c, j) \in Rows \ {Count(c)}
                                 /\ db'[Line(c, j)] = db[Line(c, j)] /\ lock'[Line(c, j)] = lock[Line(c, j)]
      BY <1>2, CountRowsApart
    <3> QED BY <1>2, <2>2, <3>1, <3>2, <3>3 DEF PartRight, OnCount, StepOf
  <2> QED BY <2>1, <2>2
<1> QED BY <1>2, <1>4, <1>5, <1>6, <1>7, StepKeeps

LEMMA ClaimDraftKeeps ==
  ASSUME CountInv, desk = "stockroom", NEW t \in Txns, ClaimDraft(t), ~Throw(t) PROVE CountInv'
<1>1. CountTypes /\ tx[t].op = "submit" /\ tx[t].pc = "claim"
  BY DEF CountInv, ClaimDraft, Doing
<1>2. PICK c \in Counts : tx[t].row = Count(c) /\ SubmitRequest(t)
  BY <1>1 DEF CountTypes, CountRequest, LinesRequest, ApproveRequest
<1>3. /\ MayWrite(t, Count(c)) /\ db[Count(c)] = "DRAFT" /\ Write(t, Count(c), "SUBMITTED")
      /\ Continue(t, "commit", tx[t].read, tx[t].out) /\ UNCHANGED raced
  BY <1>2 DEF ClaimDraft, GoTo
<1>4. /\ tx'[t].op = tx[t].op /\ tx'[t].pc = "commit" /\ tx'[t].row = tx[t].row
      /\ tx'[t].read = tx[t].read /\ tx'[t].out = tx[t].out
  BY <1>1, <1>3, ContinueDoes DEF CountTypes
<1>5. CountRequest(t)'
  BY <1>1, <1>2, <1>4 DEF CountRequest, SubmitRequest
<1> QED BY <1>1, <1>2, <1>3, <1>5, ClaimKeeps

LEMMA ClaimSubmittedKeeps ==
  ASSUME CountInv, desk = "stockroom", NEW t \in Txns, ClaimSubmitted(t), ~Throw(t) PROVE CountInv'
<1>1. CountTypes /\ tx[t].op = "approve" /\ tx[t].pc = "claim"
  BY DEF CountInv, ClaimSubmitted, Doing
<1>2. PICK c \in Counts : tx[t].row = Count(c) /\ ApproveRequest(t, c)
  BY <1>1 DEF CountTypes, CountRequest, LinesRequest, SubmitRequest
<1>3. PICK pc : pc = IF Differing(t) = {} THEN "commit" ELSE "apply"
  OBVIOUS
<1>4. /\ MayWrite(t, Count(c)) /\ db[Count(c)] = "SUBMITTED" /\ Write(t, Count(c), "APPROVED")
      /\ Continue(t, pc, tx[t].read, tx[t].out) /\ UNCHANGED raced
  BY <1>2, <1>3 DEF ClaimSubmitted, GoTo
<1>5. /\ tx'[t].op = tx[t].op /\ tx'[t].pc = pc /\ tx'[t].row = tx[t].row
      /\ tx'[t].read = tx[t].read /\ tx'[t].out = tx[t].out
  BY <1>1, <1>4, ContinueDoes DEF CountTypes
<1>6. tx[t].out = {} /\ \A i \in Ingredients : IsLine(tx[t].read.lines[i])
  BY <1>1, <1>2 DEF ApproveRequest
<1>7. PICK lines : lines = tx[t].read.lines
  OBVIOUS
<1>8. Adjustments(c, lines, {}) = {}
  BY DEF Adjustments
<1>9. Differing(t) = ToApply(lines)
  BY <1>7 DEF Differing, ToApply
<1>10. ToApply(lines) = {} => Approval(c, lines) = {}
  <2>1. SumFunctionOnSet([j \in Ingredients |-> Cost[j] * Variance(lines[j])], {}) = 0
    BY SumEmpty
  <2> QED BY <1>8, <2>1 DEF Approval, NetOf, Posted
<1>11. ApproveRequest(t, c)'
  <2>1. CASE ToApply(lines) = {}
    BY <1>1, <1>3, <1>5, <1>6, <1>7, <1>9, <1>10, <2>1 DEF ApproveRequest
  <2>2. CASE ToApply(lines) # {}
    <3>1. {} \in SUBSET ToApply(lines)
      OBVIOUS
    <3>2. tx'[t].out = Adjustments(c, lines, {}) /\ tx'[t].pc = "apply" /\ tx'[t].read.lines = lines
      BY <1>3, <1>5, <1>6, <1>7, <1>8, <1>9, <2>2
    <3> QED BY <1>1, <1>5, <1>6, <1>7, <3>1, <3>2 DEF ApproveRequest
  <2> QED BY <2>1, <2>2
<1>12. CountRequest(t)'
  BY <1>2, <1>5, <1>11 DEF CountRequest
<1>13. pc \in {"apply", "commit"}
  BY <1>3
<1> QED BY <1>1, <1>2, <1>4, <1>12, <1>13, ClaimKeeps

\* A quantity that changes on a shelf.
LEMMA ShelveKeeps ==
  ASSUME CountInv, desk = "stockroom", NEW t \in Txns, NEW i \in Ingredients, NEW delta \in Int,
         NEW pc, NEW read, NEW out,
         Shelve(t, i, delta), Continue(t, pc, read, out), UNCHANGED raced, CountRequest(t)',
         tx[t].op \in {"adjust", "complete"} \/
           (Claimant(t) /\ tx[t].op = "approve" /\ pc \in {"apply", "commit"} /\ read = tx[t].read)
  PROVE  CountInv'
<1>1. CountTypes /\ HoldsRight(t) /\ t # NoTxn /\ Shelf(i) \in Rows
  BY CountTypesGive, CountRowsApart DEF CountInv
<1>2. PICK value : value = db[Shelf(i)] + delta
  OBVIOUS
<1>3. MayWrite(t, Shelf(i)) /\ Write(t, Shelf(i), value) /\ value >= 0
  BY <1>2 DEF Shelve
<1>4. value \in Nat
  BY <1>1, <1>2, <1>3 DEF CountTypes, ShelfRow
<1>5. /\ StepOf(t)
      /\ tx'[t].op = tx[t].op /\ tx'[t].pc = pc /\ tx'[t].row = tx[t].row
      /\ tx'[t].read = read /\ tx'[t].out = out
      /\ db'[Shelf(i)] = value /\ lock'[Shelf(i)] = t
      /\ \A r \in Rows \ {Shelf(i)} : db'[r] = db[r] /\ lock'[r] = lock[r]
  BY <1>1, <1>3, CountWrites
<1>6. \A c \in Counts : /\ db'[Count(c)] = db[Count(c)] /\ lock'[Count(c)] = lock[Count(c)]
                        /\ \A j \in Ingredients : /\ db'[Line(c, j)] = db[Line(c, j)]
                                                  /\ lock'[Line(c, j)] = lock[Line(c, j)]
  BY <1>5, CountRowsApart
<1>7. Claimant(t)' => Claimant(t) /\ tx[t].op = "approve"
  BY <1>5 DEF Claimant
<1>8. Claimant(t)' => ClaimStands(t)'
  <2>1. ASSUME Claimant(t), tx[t].op = "approve" PROVE ClaimStands(t)'
    <3>1. ClaimStands(t) /\ \E c \in Counts : tx[t].row = Count(c)
      BY <1>1, <2>1 DEF CountTypes, CountRequest
    <3> QED BY <1>5, <1>6, <2>1, <3>1 DEF ClaimStands, StepOf
  <2> QED BY <1>7, <2>1
<1>9. StatusRight(t)'
  BY <1>1, <1>5, StatusStays
<1>10. HoldsRight(t)'
  <2>1. \A j \in Ingredients : lock'[Shelf(j)] = t =>
          db'[Shelf(j)] \in Nat /\ tx'[t].op \in {"approve", "adjust", "complete"}
    BY <1>1, <1>4, <1>5, CountRowsApart DEF HoldsRight
  <2>2. \A c \in Counts : lock'[Count(c)] = t => Claimant(t)' /\ tx'[t].row = Count(c)
    BY <1>1, <1>5, <1>6 DEF HoldsRight, Claimant
  <2>3. \A c \in Counts, j \in Ingredients : lock'[Line(c, j)] # t
    BY <1>1, <1>6 DEF HoldsRight, OnCount
  <2> QED BY <2>1, <2>2, <2>3 DEF HoldsRight
<1>11. ASSUME NEW c \in Counts, Count(c) \notin raced', CountRight(c) PROVE PartRight(t, c)'
  <2>1. CASE tx[t].op # "approve" \/ tx[t].row # Count(c)
    BY <1>5, <2>1 DEF PartRight, OnCount
  <2>2. CASE OnCount(t, "approve", c)
    <3>1. PartRight(t, c)
      BY <1>11, CountRightGives
    <3>2. \A u \in Txns : ~(OnCount(u, "lines", c)' /\ tx'[u].pc = "commit")
      BY <1>5, <2>2, <3>1, OthersStill DEF OnCount
    <3> QED BY <1>5, <2>2, <3>1, <3>2 DEF PartRight, OnCount, StepOf
  <2> QED BY <2>1, <2>2 DEF OnCount
<1> QED BY <1>5, <1>8, <1>9, <1>10, <1>11, StepKeeps

LEMMA VarianceInt == ASSUME NEW x, IsLine(x) PROVE Variance(x) \in Int
BY StockCountsAssumption DEF IsLine, Variance

LEMMA ApplyVarianceKeeps ==
  ASSUME CountInv, desk = "stockroom", NEW t \in Txns, ApplyVariance(t), ~Throw(t) PROVE CountInv'
<1>1. CountTypes /\ tx[t].op = "approve" /\ tx[t].pc = "apply" /\ Claimant(t)
  BY DEF CountInv, ApplyVariance, Doing, Claimant
<1>2. PICK c \in Counts : tx[t].row = Count(c) /\ ApproveRequest(t, c)
  BY <1>1 DEF CountTypes, CountRequest, LinesRequest, SubmitRequest
<1>3. PICK lines : lines = tx[t].read.lines
  OBVIOUS
<1>4. /\ Differing(t) = ToApply(lines) /\ ToApply(lines) \subseteq Ingredients
      /\ \A i \in Ingredients : IsLine(lines[i])
  BY <1>2, <1>3 DEF Differing, ToApply, ApproveRequest
<1>5. Count(c)[2] = c
  BY CountRowsApart
<1>6. SumFunctionOnSet([j \in Ingredients |-> Cost[j] * Variance(tx[t].read.lines[j])], Differing(t))
        = NetOf(lines)
  BY <1>3, <1>4 DEF NetOf
<1>7. PICK i \in ToApply(lines) :
        LET done == {e.key[2] : e \in {x \in tx[t].out : x.kind = "adjust"}} \union {i}
            out == tx[t].out \union {Adjustment(c, i, Variance(lines[i]))}
        IN /\ Shelve(t, i, Variance(lines[i]))
           /\ UNCHANGED raced
           /\ IF done # ToApply(lines) THEN Continue(t, "apply", tx[t].read, out)
              ELSE Continue(t, "commit", tx[t].read, out \union Posted(<<"STOCKCOUNT", c>>, NetOf(lines)))
  <2>1. PICK net : net = SumFunctionOnSet([j \in Ingredients |->
                            Cost[j] * Variance(tx[t].read.lines[j])], Differing(t))
    OBVIOUS
  <2>2. \E i \in Differing(t) :
          LET k == tx[t].row[2]
              done == {e.key[2] : e \in {x \in tx[t].out : x.kind = "adjust"}} \union {i}
              out == tx[t].out \union {Adjustment(k, i, Variance(tx[t].read.lines[i]))}
          IN /\ Shelve(t, i, Variance(tx[t].read.lines[i]))
             /\ UNCHANGED raced
             /\ IF done # Differing(t) THEN Continue(t, "apply", tx[t].read, out)
                ELSE Continue(t, "commit", tx[t].read, out \union Posted(<<"STOCKCOUNT", k>>, net))
    BY <2>1 DEF ApplyVariance
  <2>3. Differing(t) = ToApply(lines) /\ tx[t].row[2] = c /\ net = NetOf(lines)
    BY <1>2, <1>4, <1>5, <1>6, <2>1
  <2>4. \E i \in ToApply(lines) :
          LET done == {e.key[2] : e \in {x \in tx[t].out : x.kind = "adjust"}} \union {i}
              out == tx[t].out \union {Adjustment(c, i, Variance(tx[t].read.lines[i]))}
          IN /\ Shelve(t, i, Variance(tx[t].read.lines[i]))
             /\ UNCHANGED raced
             /\ IF done # ToApply(lines) THEN Continue(t, "apply", tx[t].read, out)
                ELSE Continue(t, "commit", tx[t].read,
                              out \union Posted(<<"STOCKCOUNT", c>>, NetOf(lines)))
    BY ONLY <2>2, <2>3
  <2> QED BY ONLY <1>3, <2>4
<1>8. PICK D \in SUBSET ToApply(lines) : tx[t].out = Adjustments(c, lines, D)
  BY <1>1, <1>2, <1>3 DEF ApproveRequest
<1>9. {e.key[2] : e \in {x \in tx[t].out : x.kind = "adjust"}} = D
  <2>1. \A k : \A d : Adjustment(c, k, d).kind = "adjust" /\ Adjustment(c, k, d).key[2] = k
    BY DEF Adjustment
  <2>2. \A x \in tx[t].out : x.kind = "adjust"
    BY <1>8, <2>1 DEF Adjustments
  <2>3. \A x \in tx[t].out : x.key[2] \in D
    BY <1>8, <2>1 DEF Adjustments
  <2>4. \A k \in D : \E x \in tx[t].out : x.key[2] = k
    BY <1>8, <2>1 DEF Adjustments
  <2> QED BY <2>2, <2>3, <2>4
<1>10. PICK out : out = tx[t].out \union {Adjustment(c, i, Variance(lines[i]))}
  OBVIOUS
<1>11. out = Adjustments(c, lines, D \union {i})
  BY <1>8, <1>10 DEF Adjustments
<1>12. Variance(lines[i]) \in Int /\ i \in Ingredients
  BY <1>4, VarianceInt
<1>13. CASE D \union {i} # ToApply(lines)
  <2>1. Shelve(t, i, Variance(lines[i])) /\ UNCHANGED raced /\ Continue(t, "apply", tx[t].read, out)
    BY <1>7, <1>9, <1>10, <1>13
  <2>2. /\ tx'[t].op = tx[t].op /\ tx'[t].pc = "apply" /\ tx'[t].row = tx[t].row
        /\ tx'[t].read = tx[t].read /\ tx'[t].out = out
    BY <1>1, <2>1, ContinueDoes DEF CountTypes
  <2>3. D \union {i} \in SUBSET ToApply(lines)
    OBVIOUS
  <2>4. ApproveRequest(t, c)'
    BY <1>1, <1>3, <1>4, <1>11, <2>2, <2>3 DEF ApproveRequest
  <2>5. CountRequest(t)'
    BY <1>2, <2>2, <2>4 DEF CountRequest
  <2> QED BY <1>1, <1>12, <2>1, <2>5, ShelveKeeps
<1>14. CASE D \union {i} = ToApply(lines)
  <2>1. PICK all : all = out \union Posted(<<"STOCKCOUNT", c>>, NetOf(lines))
    OBVIOUS
  <2>2. Shelve(t, i, Variance(lines[i])) /\ UNCHANGED raced /\ Continue(t, "commit", tx[t].read, all)
    BY <1>7, <1>9, <1>10, <1>14, <2>1
  <2>3. /\ tx'[t].op = tx[t].op /\ tx'[t].pc = "commit" /\ tx'[t].row = tx[t].row
        /\ tx'[t].read = tx[t].read /\ tx'[t].out = all
    BY <1>1, <2>2, ContinueDoes DEF CountTypes
  <2>4. all = Approval(c, lines)
    BY <1>11, <1>14, <2>1 DEF Approval
  <2>5. ApproveRequest(t, c)'
    BY <1>1, <1>3, <1>4, <2>3, <2>4 DEF ApproveRequest
  <2>6. CountRequest(t)'
    BY <1>2, <2>3, <2>5 DEF CountRequest
  <2> QED BY <1>1, <1>12, <2>2, <2>6, ShelveKeeps
<1> QED BY <1>13, <1>14

\* A request about something else begins.
LEMMA AsideBegins ==
  ASSUME CountInv, desk = "stockroom", NEW t \in Txns, NEW op, NEW pc, NEW row, NEW read,
         BeginBeside(t, op, pc, row, read, {}),
         \/ op = "adjust" /\ read.delta \in Int /\ \E i \in Ingredients : row = Shelf(i)
         \/ op = "move" /\ \E j \in Jobs : row = Job(j)
         \/ /\ op = "complete" /\ \E j \in Jobs : row = Job(j)
            /\ read = [st |-> read.st, left |-> read.left] /\ read.left \subseteq Ingredients
  PROVE  CountInv'
<1>1. /\ StepOf(t) /\ HoldsRight(t)' /\ raced \subseteq raced'
      /\ tx'[t].op = op /\ tx'[t].row = row /\ tx'[t].read = read /\ tx'[t].out = {}
  BY CountBegins
<1>2. CountRequest(t)'
  BY <1>1 DEF CountRequest, Beside
<1>3. tx'[t].op \notin {"lines", "submit", "approve"}
  BY <1>1
<1>4. StatusRight(t)' /\ ~Claimant(t)'
  BY <1>3 DEF StatusRight, OnCount, Claimant
<1>5. \A c \in Counts : PartRight(t, c)'
  BY <1>3 DEF PartRight, OnCount
<1> QED BY <1>1, <1>2, <1>4, <1>5, StepKeeps

LEMMA AsideBeginsKeep ==
  ASSUME CountInv, desk = "stockroom", NEW t \in Txns, Adjust(t) \/ MoveJob(t) \/ Complete(t)
  PROVE  CountInv'
<1>1. CASE Adjust(t)
  <2>1. PICK i \in Ingredients : \E delta \in Deltas :
          Begin(t, "adjust", "apply", Shelf(i), [delta |-> delta, id |-> begun])
    BY <1>1 DEF Adjust
  <2>2. PICK delta \in Deltas : Begin(t, "adjust", "apply", Shelf(i), [delta |-> delta, id |-> begun])
    BY <2>1
  <2>3. PICK read : read = [delta |-> delta, id |-> begun]
    OBVIOUS
  <2>4. read.delta \in Int
    BY <2>3, StockCountsAssumption
  <2>5. BeginBeside(t, "adjust", "apply", Shelf(i), read, {})
    BY <2>2, <2>3 DEF Begin
  <2> QED BY <2>4, <2>5, AsideBegins
<1>2. CASE MoveJob(t)
  <2>1. PICK j \in Jobs : \E read : Begin(t, "move", "set", Job(j), read)
    BY <1>2 DEF MoveJob
  <2>2. PICK read : Begin(t, "move", "set", Job(j), read)
    BY <2>1
  <2> QED BY <2>2, AsideBegins DEF Begin
<1>3. CASE Complete(t)
  <2>1. PICK j \in Jobs :
          Begin(t, "complete", "raw", Job(j), [st |-> committed[Job(j)], left |-> RawOf(j)])
    BY <1>3 DEF Complete
  <2>2. PICK read : read = [st |-> committed[Job(j)], left |-> RawOf(j)]
    OBVIOUS
  <2>3. read = [st |-> read.st, left |-> read.left] /\ read.left \subseteq Ingredients
    BY <2>2 DEF RawOf
  <2>4. BeginBeside(t, "complete", "raw", Job(j), read, {})
    BY <2>1, <2>2 DEF Begin
  <2> QED BY <2>3, <2>4, AsideBegins
<1> QED BY <1>1, <1>2, <1>3

LEMMA NeededNat == ASSUME NEW j \in Jobs, NEW i \in Ingredients PROVE Needed(j, i) \in Nat
<1>1. PICK a : a = Recipe[Target[j]][i]
  OBVIOUS
<1>2. PICK b : b = Size[j]
  OBVIOUS
<1>3. a \in Nat /\ b \in Nat
  BY <1>1, <1>2, ProductionAssumption
<1>4. a * b \in Nat
  BY <1>3
<1> QED BY <1>1, <1>2, <1>4 DEF Needed

\* Adjustments and completions change shelves.
LEMMA AsideShelvesKeep ==
  ASSUME CountInv, desk = "stockroom", NEW t \in Txns, ApplyDelta(t) \/ TakeRaw(t) \/ AddFinished(t),
         ~Throw(t)
  PROVE  CountInv'
<1>1. CountTypes /\ CountRequest(t)
  BY DEF CountInv, CountTypes
<1>2. CASE ApplyDelta(t)
  <2>1. tx[t].op = "adjust"
    BY <1>2 DEF ApplyDelta, Doing
  <2>2. PICK i \in Ingredients : tx[t].row = Shelf(i)
    BY <1>1, <2>1 DEF CountRequest, LinesRequest, SubmitRequest, ApproveRequest
  <2>3. tx[t].read.delta \in Int /\ Shelf(i)[2] = i
    BY <1>1, <2>1, CountRowsApart DEF CountRequest, LinesRequest, SubmitRequest, ApproveRequest
  <2>4. PICK out : out = Posted(<<"ADJ", tx[t].read.id>>, Cost[i] * tx[t].read.delta)
    OBVIOUS
  <2>5. Shelve(t, i, tx[t].read.delta) /\ Continue(t, "commit", tx[t].read, out) /\ UNCHANGED raced
    BY <1>2, <2>2, <2>3, <2>4 DEF ApplyDelta
  <2>6. /\ tx'[t].op = tx[t].op /\ tx'[t].pc = "commit" /\ tx'[t].row = tx[t].row
        /\ tx'[t].read = tx[t].read /\ tx'[t].out = out
    BY <1>1, <2>5, ContinueDoes DEF CountTypes
  <2>7. Beside(out)
    <3>1. \A n, a : Event(<<"ADJ", n>>, a).kind = "event" /\ Event(<<"ADJ", n>>, a).key = <<"ADJ", n>>
      BY DEF Event
    <3>2. \A n : \A c : <<"ADJ", n>> # <<"STOCKCOUNT", c>>
      OBVIOUS
    <3> QED BY <2>4, <3>1, <3>2 DEF Posted, Beside
  <2>8. CountRequest(t)'
    BY <2>1, <2>2, <2>3, <2>6, <2>7 DEF CountRequest
  <2> QED BY <2>1, <2>3, <2>5, <2>8, ShelveKeeps
<1>3. CASE TakeRaw(t) \/ AddFinished(t)
  <2>1. tx[t].op = "complete"
    BY <1>3 DEF TakeRaw, AddFinished, Doing
  <2>2. PICK j \in Jobs : tx[t].row = Job(j)
    BY <1>1, <2>1 DEF CountRequest, LinesRequest, SubmitRequest, ApproveRequest
  <2>3. Job(j)[2] = j
    BY JobRowsApart
  <2>4. Beside(tx[t].out) /\ Beside({})
    BY <1>1, <2>1 DEF CountRequest, LinesRequest, SubmitRequest, ApproveRequest, Beside
  <2>5. CASE TakeRaw(t)
    <3>1. tx[t].pc = "raw"
      BY <2>5 DEF TakeRaw, Doing
    <3>2. PICK old : old = tx[t].read
      OBVIOUS
    <3>3. old = [st |-> old.st, left |-> old.left] /\ old.left \subseteq Ingredients
      BY <1>1, <2>1, <3>1, <3>2 DEF CountRequest, LinesRequest, SubmitRequest, ApproveRequest
    <3>4. PICK i \in old.left :
            /\ Shelve(t, i, 0 - Needed(j, i)) /\ UNCHANGED raced
            /\ Continue(t, IF old.left \ {i} = {} THEN "goods" ELSE "raw",
                        [old EXCEPT !.left = old.left \ {i}], {})
      BY <2>2, <2>3, <2>5, <3>2 DEF TakeRaw
    <3>5. PICK pc : pc = IF old.left \ {i} = {} THEN "goods" ELSE "raw"
      OBVIOUS
    <3>6. PICK read : read = [old EXCEPT !.left = old.left \ {i}]
      OBVIOUS
    <3>7. read = [st |-> old.st, left |-> old.left \ {i}]
      BY <3>3, <3>6
    <3>8. read = [st |-> read.st, left |-> read.left] /\ read.left \subseteq Ingredients
      BY <3>3, <3>7
    <3>9. i \in Ingredients /\ 0 - Needed(j, i) \in Int
      BY <3>3, NeededNat
    <3>10. Continue(t, pc, read, {})
      BY <3>4, <3>5, <3>6
    <3>11. /\ tx'[t].op = tx[t].op /\ tx'[t].row = tx[t].row /\ tx'[t].read = read /\ tx'[t].out = {}
      BY <1>1, <3>10, ContinueDoes DEF CountTypes
    <3>12. CountRequest(t)'
      BY <2>1, <2>2, <2>4, <3>8, <3>11 DEF CountRequest
    <3> QED BY <2>1, <3>4, <3>9, <3>10, <3>12, ShelveKeeps
  <2>6. CASE AddFinished(t)
    <3>1. Shelve(t, Target[j], Size[j]) /\ Continue(t, "set", tx[t].read, tx[t].out) /\ UNCHANGED raced
      BY <2>2, <2>3, <2>6 DEF AddFinished, GoTo
    <3>2. Target[j] \in Ingredients /\ Size[j] \in Int
      BY ProductionAssumption
    <3>3. /\ tx'[t].op = tx[t].op /\ tx'[t].pc = "set" /\ tx'[t].row = tx[t].row
          /\ tx'[t].read = tx[t].read /\ tx'[t].out = tx[t].out
      BY <1>1, <3>1, ContinueDoes DEF CountTypes
    <3>4. CountRequest(t)'
      BY <2>1, <2>2, <2>4, <3>3 DEF CountRequest
    <3> QED BY <2>1, <3>1, <3>2, <3>4, ShelveKeeps
  <2> QED BY <1>3, <2>5, <2>6
<1> QED BY <1>2, <1>3

LEMMA SetCompletedCounts ==
  ASSUME CountInv, desk = "stockroom", NEW t \in Txns, SetCompleted(t) PROVE CountInv'
<1>1. CountTypes /\ CountRequest(t) /\ HoldsRight(t) /\ t # NoTxn /\ tx[t].op = "complete"
  BY CountTypesGive DEF CountInv, CountTypes, SetCompleted, Doing
<1>2. PICK j \in Jobs : tx[t].row = Job(j)
  BY <1>1 DEF CountRequest, LinesRequest, SubmitRequest, ApproveRequest
<1>3. Job(j)[2] = j /\ Job(j) \in Rows
  BY JobRowsApart
<1>4. PICK done : done = [kind |-> "made", key |-> j, amount |-> Size[j]]
  OBVIOUS
<1>5. PICK out : out = {done} \union
        IF RawCost(j) > 0 THEN {Event(<<"PROD", j>>, FinishedValue(j) - RawCost(j))} ELSE {}
  OBVIOUS
<1>6. /\ MayWrite(t, Job(j)) /\ Write(t, Job(j), "COMPLETED") /\ Races(Job(j), tx[t].read.st)
      /\ Continue(t, "commit", tx[t].read, out)
  BY <1>2, <1>3, <1>4, <1>5 DEF SetCompleted
<1>7. /\ StepOf(t)
      /\ tx'[t].op = tx[t].op /\ tx'[t].pc = "commit" /\ tx'[t].row = tx[t].row
      /\ tx'[t].out = out
      /\ \A r \in Rows \ {Job(j)} : db'[r] = db[r] /\ lock'[r] = lock[r]
  BY <1>1, <1>3, <1>6, CountWrites
<1>8. Beside(out)
  <2>1. \A a : Event(<<"PROD", j>>, a).kind = "event" /\ Event(<<"PROD", j>>, a).key = <<"PROD", j>>
    BY DEF Event
  <2>2. \A c : <<"PROD", j>> # <<"STOCKCOUNT", c>>
    OBVIOUS
  <2>3. done.kind = "made"
    BY <1>4
  <2> QED BY <1>5, <2>1, <2>2, <2>3 DEF Beside
<1>9. CountRequest(t)'
  BY <1>1, <1>2, <1>7, <1>8 DEF CountRequest
<1>10. tx'[t].op \notin {"lines", "submit", "approve"}
  BY <1>1, <1>7
<1>11. StatusRight(t)' /\ ~Claimant(t)'
  BY <1>10 DEF StatusRight, OnCount, Claimant
<1>12. \A c \in Counts : PartRight(t, c)'
  BY <1>10 DEF PartRight, OnCount
<1>13. HoldsRight(t)'
  <2>1. /\ \A i \in Ingredients : db'[Shelf(i)] = db[Shelf(i)] /\ lock'[Shelf(i)] = lock[Shelf(i)]
        /\ \A c \in Counts : lock'[Count(c)] = lock[Count(c)]
        /\ \A c \in Counts, i \in Ingredients : lock'[Line(c, i)] = lock[Line(c, i)]
    BY <1>7, CountRowsApart, JobRowsApart
  <2> QED BY <1>1, <1>7, <2>1 DEF HoldsRight, Claimant, OnCount
<1>14. raced \subseteq raced'
  BY <1>6 DEF Races
<1> QED BY <1>7, <1>9, <1>11, <1>12, <1>13, <1>14, StepKeeps

\* What has been told of a count stays.
LEMMA ToldStays ==
  ASSUME NEW c \in Counts, ToldCount(c),
         log' = log \/ \E entries : Logged(entries) /\ \A e \in entries : ~AboutCount(e, c),
         committed'[Count(c)] = "APPROVED" <=> committed[Count(c)] = "APPROVED",
         committed[Count(c)] = "APPROVED" =>
           \A i \in Ingredients : committed'[Line(c, i)] = committed[Line(c, i)]
  PROVE  ToldCount(c)'
<1>1. {e \in DOMAIN log' : AboutCount(e, c)} = {e \in DOMAIN log : AboutCount(e, c)}
  BY DEF Logged
<1>2. \A e \in DOMAIN log' : AboutCount(e, c) => log'[e] = 1
  <2>1. CASE log' = log
    BY <2>1 DEF ToldCount
  <2>2. CASE log' # log
    <3>1. PICK entries : Logged(entries) /\ \A e \in entries : ~AboutCount(e, c)
      BY <2>2
    <3>2. /\ DOMAIN log' = DOMAIN log \union entries
          /\ \A e \in DOMAIN log' : log'[e] = Times(e) + (IF e \in entries THEN 1 ELSE 0)
      BY <3>1, LoggedDoes
    <3>3. \A e \in DOMAIN log : AboutCount(e, c) => log[e] = 1
      BY DEF ToldCount
    <3>4. ASSUME NEW e \in DOMAIN log', AboutCount(e, c) PROVE log'[e] = 1
      <4>1. e \notin entries /\ e \in DOMAIN log
        BY <3>1, <3>2, <3>4
      <4>2. log[e] = 1 /\ Times(e) = log[e]
        BY <3>3, <3>4, <4>1 DEF Times
      <4> QED BY <3>2, <4>1, <4>2
    <3> QED BY <3>4
  <2> QED BY <2>1, <2>2
<1>3. committed[Count(c)] = "APPROVED" => LinesNow(c)' = LinesNow(c)
  BY DEF LinesNow
<1>5. \A e : AboutCount(e, c)' <=> AboutCount(e, c)
  BY DEF AboutCount
<1>6. \A lines : Approval(c, lines)' = Approval(c, lines)
  BY DEF Approval, Adjustments, NetOf, ToApply
<1>7. committed[Count(c)] = "APPROVED" => Approval(c, LinesNow(c))' = Approval(c, LinesNow(c))
  BY <1>3 DEF Approval, Adjustments, NetOf, ToApply
<1> QED BY <1>1, <1>2, <1>5, <1>7 DEF ToldCount

\* The rows of one count stay as they are.
SameCount(c) ==
  /\ db'[Count(c)] = db[Count(c)] /\ committed'[Count(c)] = committed[Count(c)]
  /\ lock'[Count(c)] = lock[Count(c)]
  /\ \A i \in Ingredients : /\ db'[Line(c, i)] = db[Line(c, i)]
                            /\ committed'[Line(c, i)] = committed[Line(c, i)]
                            /\ lock'[Line(c, i)] = lock[Line(c, i)]

\* Does a request work on a count?
Counting(t) == tx[t].op \in {"lines", "submit", "approve"}

\* A step that leaves the rows of a count, and what works on it, as they are.
LEMMA CountStays ==
  ASSUME NEW c \in Counts, CountRight(c), SameCount(c),
         log' = log \/ \E entries : Logged(entries) /\ \A e \in entries : ~AboutCount(e, c),
         \A t \in Txns : \/ tx'[t] = tx[t]
                         \/ /\ ~(Counting(t) /\ tx[t].row = Count(c))
                            /\ ~(Counting(t)' /\ tx'[t].row = Count(c))
  PROVE  CountRight(c)'
<1>1. \A t \in Txns : \A op \in {"lines", "submit", "approve"} :
        /\ OnCount(t, op, c)' => OnCount(t, op, c) /\ tx'[t] = tx[t]
        /\ OnCount(t, op, c) => OnCount(t, op, c)' /\ tx'[t] = tx[t]
  BY DEF OnCount, Counting
<1>2. Untouched(c)'
  <2>1. \A t \in Txns : (OnCount(t, "lines", c) /\ tx[t].pc = "commit")' =>
          OnCount(t, "lines", c) /\ tx[t].pc = "commit"
    BY <1>1
  <2>2. \A u \in Txns : ~OnCount(u, "submit", c) /\ ~OnCount(u, "approve", c) =>
          ~OnCount(u, "submit", c)' /\ ~OnCount(u, "approve", c)'
    BY <1>1
  <2> QED BY <2>1, <2>2 DEF CountRight, Untouched, SameCount
<1>3. Expected(c)'
  BY <1>1 DEF CountRight, Expected, SameCount
<1>4. ReadRight(c)'
  BY <1>1 DEF CountRight, ReadRight, SameCount
<1>5. HasExpected(c)'
  BY DEF CountRight, HasExpected, SameCount
<1>6. ToldCount(c)'
  BY ToldStays DEF CountRight, SameCount
<1> QED BY <1>2, <1>3, <1>4, <1>5, <1>6 DEF CountRight

LEMMA CountsAside ==
  ASSUME CountInv, desk = "stockroom", desk' = desk, RowShape', RequestShape', raced \subseteq raced',
         \A c \in Counts : SameCount(c),
         \A i \in Ingredients : ShelfRow(i)',
         log' = log \/ \E entries : Logged(entries) /\ Beside(entries),
         \A t \in Txns : \/ tx'[t] = tx[t]
                         \/ ~Counting(t) /\ ~Counting(t)' /\ CountRequest(t)'
  PROVE  CountInv'
<1>1. CountTypes
  BY DEF CountInv
<1>2. \A t \in Txns : Counting(t) \/ Counting(t)' => tx'[t] = tx[t]
  OBVIOUS
<1>3. ASSUME NEW c \in Counts PROVE CountRow(c)' /\ \A i \in Ingredients : LineRow(c, i)'
  <2>1. CountRow(c)'
    <3>1. CountRow(c) /\ lock[Count(c)] \in Txns \union {NoTxn}
      BY <1>1, CountRowsApart DEF CountTypes, RowShape
    <3> QED BY <1>2, <3>1 DEF CountRow, SameCount, Claimant, Counting
  <2>2. ASSUME NEW i \in Ingredients PROVE LineRow(c, i)'
    <3>1. LineRow(c, i) /\ lock[Line(c, i)] \in Txns \union {NoTxn}
      BY <1>1, CountRowsApart DEF CountTypes, RowShape
    <3>2. \A t \in Txns : \A op \in {"lines", "submit"} :
            OnCount(t, op, c) => OnCount(t, op, c)' /\ tx'[t].pc = tx[t].pc
      BY <1>2 DEF OnCount, Counting
    <3> QED BY <3>1, <3>2 DEF LineRow, SameCount
  <2> QED BY <2>1, <2>2
<1>4. ASSUME NEW t \in Txns PROVE CountRequest(t)' /\ (Claimant(t)' => ClaimStands(t)')
  <2>1. CASE tx'[t] = tx[t]
    <3>1. CountRequest(t) /\ (Claimant(t) => ClaimStands(t))
      BY <1>1 DEF CountTypes
    <3>2. CountRequest(t)'
      BY <2>1, <3>1 DEF CountRequest, LinesRequest, SubmitRequest, ApproveRequest
    <3>3. ASSUME Claimant(t)' PROVE ClaimStands(t)'
      <4>1. Claimant(t) /\ ClaimStands(t)
        BY <2>1, <3>1, <3>3 DEF Claimant
      <4>2. PICK c \in Counts : tx[t].row = Count(c)
        BY <3>1, <4>1 DEF CountRequest, Claimant
      <4> QED BY <2>1, <4>1, <4>2 DEF ClaimStands, SameCount
    <3> QED BY <3>2, <3>3
  <2>2. CASE tx'[t] # tx[t]
    BY <2>2 DEF Counting, Claimant
  <2> QED BY <2>1, <2>2
<1>5. \A c \in Counts, t \in Txns :
        /\ OnCount(t, "lines", c)' \/ OnCount(t, "submit", c)' => committed'[Count(c)] # "none"
        /\ OnCount(t, "approve", c)' => committed'[Count(c)] \in {"SUBMITTED", "APPROVED", "CANCELLED"}
  BY <1>1, <1>2 DEF CountTypes, OnCount, Counting, SameCount
<1>6. CountTypes'
  BY <1>3, <1>4, <1>5 DEF CountTypes
<1>7. ASSUME NEW c \in Counts, Count(c) \notin raced' PROVE CountRight(c)'
  <2>1. CountRight(c) /\ SameCount(c)
    BY <1>7 DEF CountInv
  <2>2. \A entries : Beside(entries) => \A e \in entries : ~AboutCount(e, c)
    BY DEF Beside, AboutCount
  <2> QED BY <2>1, <2>2, CountStays
<1> QED BY <1>6, <1>7 DEF CountInv

\* A statement on the row of a job or of a shelf, outside transactions.
LEMMA PutKeepsCounts ==
  ASSUME CountInv, desk = "stockroom", desk' = desk, raced \subseteq raced', NEW row, NEW value,
         Put(row, value),
         \/ \E j \in Jobs : row = Job(j)
         \/ \E i \in Ingredients : row = Shelf(i) /\ value \in Nat,
         RequestShape',
         log' = log \/ \E entries : Logged(entries) /\ Beside(entries),
         \A t \in Txns : \/ tx'[t] = tx[t]
                         \/ tx[t].op = "move" /\ tx'[t].op = "none" /\ tx'[t].pc = "none"
  PROVE  CountInv'
<1>1. CountTypes /\ RowShape /\ row \in Rows
  BY CountRowsApart, JobRowsApart DEF CountInv, CountTypes
<1>2. /\ lock[row] = NoTxn /\ lock' = lock /\ db'[row] = value /\ committed'[row] = value
      /\ \A r \in Rows \ {row} : db'[r] = db[r] /\ committed'[r] = committed[r]
      /\ RowShape'
  BY <1>1, PutDoes
<1>3. \A c \in Counts : SameCount(c)
  <2>1. \A c \in Counts : Count(c) \in Rows \ {row} /\ \A i \in Ingredients : Line(c, i) \in Rows \ {row}
    BY CountRowsApart, JobRowsApart
  <2> QED BY <1>2, <2>1 DEF SameCount
<1>4. ASSUME NEW i \in Ingredients PROVE ShelfRow(i)'
  <2>1. ShelfRow(i) /\ Shelf(i) \in Rows /\ lock[Shelf(i)] \in Txns \union {NoTxn}
    BY <1>1, CountRowsApart DEF CountTypes, RowShape
  <2>2. db'[Shelf(i)] \in Nat /\ committed'[Shelf(i)] \in Nat
    <3>1. CASE row = Shelf(i)
      BY <1>2, <3>1, CountRowsApart, JobRowsApart
    <3>2. CASE row # Shelf(i)
      BY <1>2, <2>1, <3>2 DEF ShelfRow
    <3> QED BY <3>1, <3>2
  <2>3. lock'[Shelf(i)] # NoTxn => tx'[lock'[Shelf(i)]].op \in {"approve", "adjust", "complete"}
    BY <1>2, <2>1 DEF ShelfRow
  <2> QED BY <2>2, <2>3 DEF ShelfRow
<1>5. \A t \in Txns : \/ tx'[t] = tx[t]
                      \/ ~Counting(t) /\ ~Counting(t)' /\ CountRequest(t)'
  BY DEF Counting, CountRequest
<1> QED BY <1>2, <1>3, <1>4, <1>5, CountsAside

LEMMA PutsKeepCounts ==
  ASSUME CountInv, desk = "stockroom",
         Sell \/ CreateProductionOrder \/ \E t \in Txns : SetJob(t)
  PROVE  CountInv'
<1>1. CountTypes /\ RequestShape
  BY DEF CountInv, CountTypes
<1>2. CASE Sell
  <2>1. PICK i \in Ingredients : /\ Single /\ committed[Shelf(i)] > 0
                                 /\ Put(Shelf(i), committed[Shelf(i)] - 1)
                                 /\ Logged({Event(<<"SALE", begun>>, 0 - Cost[i])})
                                 /\ UNCHANGED raced
    BY <1>2 DEF Sell
  <2>2. committed[Shelf(i)] - 1 \in Nat
    BY <1>1, <2>1 DEF CountTypes, ShelfRow
  <2>3. desk' = desk /\ tx' = tx
    BY <2>1 DEF Single
  <2>4. RequestShape' /\ \A t \in Txns : tx'[t] = tx[t]
    BY <1>1, <2>3, SameRequests
  <2>5. Beside({Event(<<"SALE", begun>>, 0 - Cost[i])})
    <3>1. \A n, a : Event(<<"SALE", n>>, a).kind = "event" /\ Event(<<"SALE", n>>, a).key = <<"SALE", n>>
      BY DEF Event
    <3>2. \A n : \A c : <<"SALE", n>> # <<"STOCKCOUNT", c>>
      OBVIOUS
    <3> QED BY <3>1, <3>2 DEF Beside
  <2> QED BY <2>1, <2>2, <2>3, <2>4, <2>5, PutKeepsCounts
<1>3. CASE CreateProductionOrder
  <2>1. PICK j \in Jobs : Single /\ Put(Job(j), "PLANNED") /\ UNCHANGED <<log, raced>>
    BY <1>3 DEF CreateProductionOrder
  <2>2. desk' = desk /\ tx' = tx
    BY <2>1 DEF Single
  <2>3. RequestShape' /\ \A t \in Txns : tx'[t] = tx[t]
    BY <1>1, <2>2, SameRequests
  <2> QED BY <2>1, <2>2, <2>3, PutKeepsCounts
<1>4. ASSUME NEW t \in Txns, SetJob(t) PROVE CountInv'
  <2>1. tx[t].op = "move" /\ CountRequest(t)
    BY <1>1, <1>4 DEF SetJob, Doing, CountTypes
  <2>2. PICK j \in Jobs : tx[t].row = Job(j)
    BY <2>1 DEF CountRequest, LinesRequest, SubmitRequest, ApproveRequest
  <2>3. Put(Job(j), tx[t].read.to) /\ Races(Job(j), tx[t].read.st) /\ Finish(t) /\ UNCHANGED log
    BY <1>4, <2>2 DEF SetJob
  <2>4. tx'[t].op = "none" /\ tx'[t].pc = "none" /\ OthersWait(t) /\ RequestShape' /\ desk' = desk
    BY <1>1, <2>3, FinishDoes DEF Finish
  <2>5. raced \subseteq raced'
    BY <2>3 DEF Races
  <2> QED BY <2>1, <2>2, <2>3, <2>4, <2>5, PutKeepsCounts DEF OthersWait
<1> QED BY <1>2, <1>3, <1>4

\* A request that gives up leaves what is committed as it is.
LEMMA CountGivesUp ==
  ASSUME CountInv, desk = "stockroom", NEW t \in Txns, UndoWrites(t), Finish(t),
         UNCHANGED log, raced \subseteq raced'
  PROVE  CountInv'
<1>1. CountTypes /\ t # NoTxn /\ desk' = desk
  BY RequestsAssumption DEF CountInv, Finish
<1>2. /\ committed' = committed /\ RowShape'
      /\ \A r \in Rows : lock[r] = t => db'[r] = committed[r] /\ lock'[r] = NoTxn
      /\ \A r \in Rows : lock[r] # t => db'[r] = db[r] /\ lock'[r] = lock[r]
  BY <1>1, UndoDoes DEF CountTypes
<1>3. tx'[t].op = "none" /\ tx'[t].pc = "none" /\ RequestShape' /\ \A u \in Txns \ {t} : tx'[u] = tx[u]
  BY <1>1, FinishDoes DEF Finish, CountTypes, OthersWait
<1>4. ASSUME NEW i \in Ingredients PROVE ShelfRow(i)'
  <2>1. ShelfRow(i) /\ Shelf(i) \in Rows /\ lock[Shelf(i)] \in Txns \union {NoTxn}
    BY <1>1, CountRowsApart DEF CountTypes, RowShape
  <2> QED BY <1>2, <1>3, <2>1 DEF ShelfRow
<1>5. ASSUME NEW c \in Counts PROVE CountRow(c)' /\ \A i \in Ingredients : LineRow(c, i)'
  <2>1. CountRow(c) /\ Count(c) \in Rows /\ lock[Count(c)] \in Txns \union {NoTxn}
    BY <1>1, CountRowsApart DEF CountTypes, RowShape
  <2>2. CountRow(c)'
    BY <1>2, <1>3, <2>1 DEF CountRow, Claimant
  <2>3. ASSUME NEW i \in Ingredients PROVE LineRow(c, i)'
    <3>1. LineRow(c, i) /\ Line(c, i) \in Rows /\ lock[Line(c, i)] \in Txns \union {NoTxn}
      BY <1>1, CountRowsApart DEF CountTypes, RowShape
    <3> QED BY <1>2, <1>3, <3>1 DEF LineRow, OnCount
  <2> QED BY <2>2, <2>3
<1>6. ASSUME NEW u \in Txns PROVE CountRequest(u)' /\ (Claimant(u)' => ClaimStands(u)')
  <2>1. CASE u = t
    BY <1>3, <2>1 DEF CountRequest, Claimant
  <2>2. CASE u # t
    <3>1. tx'[u] = tx[u] /\ CountRequest(u) /\ (Claimant(u) => ClaimStands(u))
      BY <1>1, <1>3, <2>2 DEF CountTypes
    <3>2. CountRequest(u)'
      BY <3>1 DEF CountRequest, LinesRequest, SubmitRequest, ApproveRequest
    <3>3. ASSUME Claimant(u)' PROVE ClaimStands(u)'
      <4>1. Claimant(u) /\ ClaimStands(u)
        BY <3>1, <3>3 DEF Claimant
      <4>2. tx[u].row \in Rows
        BY <3>1, <4>1, CountRowsApart DEF CountRequest, Claimant
      <4> QED BY <1>2, <2>2, <3>1, <4>1, <4>2 DEF ClaimStands
    <3> QED BY <3>2, <3>3
  <2> QED BY <2>1, <2>2
<1>7. \A u \in Txns : \A op, c : OnCount(u, op, c)' /\ op # "none" => u # t /\ OnCount(u, op, c)
  BY <1>3 DEF OnCount
<1>8. \A c \in Counts, u \in Txns :
        /\ OnCount(u, "lines", c)' \/ OnCount(u, "submit", c)' => committed'[Count(c)] # "none"
        /\ OnCount(u, "approve", c)' => committed'[Count(c)] \in {"SUBMITTED", "APPROVED", "CANCELLED"}
  BY <1>1, <1>2, <1>7 DEF CountTypes
<1>9. CountTypes'
  BY <1>2, <1>3, <1>4, <1>5, <1>6, <1>8 DEF CountTypes
<1>10. ASSUME NEW c \in Counts, Count(c) \notin raced' PROVE CountRight(c)'
  <2>1. CountRight(c)
    BY <1>10 DEF CountInv
  <2>2. Untouched(c)'
    <3>1. \A u \in Txns : (OnCount(u, "lines", c) /\ tx[u].pc = "commit")' =>
            OnCount(u, "lines", c) /\ tx[u].pc = "commit"
      BY <1>3, <1>7
    <3> QED BY <1>2, <1>7, <2>1, <3>1 DEF CountRight, Untouched
  <2>3. Expected(c)'
    <3>1. \A i \in Ingredients : \A u \in Txns \ {t} :
            /\ lock[Line(c, i)] = u => lock'[Line(c, i)] = u /\ db'[Line(c, i)] = db[Line(c, i)]
            /\ lock'[Line(c, i)] = u => lock[Line(c, i)] = u
      BY <1>2, CountRowsApart, RequestsAssumption
    <3> QED BY <1>2, <1>3, <1>7, <2>1, <3>1 DEF CountRight, Expected
  <2>4. ReadRight(c)'
    BY <1>2, <1>3, <1>7, <2>1 DEF CountRight, ReadRight
  <2>5. HasExpected(c)'
    BY <1>2, <2>1 DEF CountRight, HasExpected
  <2>6. ToldCount(c)'
    BY <1>2, <2>1, ToldStays DEF CountRight
  <2> QED BY <2>2, <2>3, <2>4, <2>5, <2>6 DEF CountRight
<1> QED BY <1>1, <1>9, <1>10 DEF CountInv

\* The status of a count that nobody holds changes by itself.
LEMMA StatusChanges ==
  ASSUME CountInv, desk = "stockroom", desk' = desk, UNCHANGED <<tx, log, raced>>,
         NEW c \in Counts, NEW st, Put(Count(c), st),
         \/ committed[Count(c)] = "none" /\ st = "DRAFT"
         \/ committed[Count(c)] \in {"DRAFT", "SUBMITTED"} /\ st = "CANCELLED"
  PROVE  CountInv'
<1>1. CountTypes /\ RowShape /\ RequestShape /\ Count(c) \in Rows
  BY CountRowsApart DEF CountInv, CountTypes
<1>2. /\ lock[Count(c)] = NoTxn /\ lock' = lock /\ db'[Count(c)] = st /\ committed'[Count(c)] = st
      /\ \A r \in Rows \ {Count(c)} : db'[r] = db[r] /\ committed'[r] = committed[r]
      /\ RowShape'
  BY <1>1, PutDoes
<1>3. RequestShape' /\ \A t \in Txns : tx'[t] = tx[t]
  BY <1>1, SameRequests
<1>4. \A i \in Ingredients : ShelfRow(i)'
  <2>1. \A i \in Ingredients : ShelfRow(i) /\ Shelf(i) \in Rows \ {Count(c)}
    BY <1>1, CountRowsApart DEF CountTypes
  <2> QED BY <1>2, <2>1 DEF ShelfRow
<1>5. \A d \in Counts : \A i \in Ingredients : LineRow(d, i)'
  <2>1. \A d \in Counts : \A i \in Ingredients : LineRow(d, i) /\ Line(d, i) \in Rows \ {Count(c)}
    BY <1>1, CountRowsApart DEF CountTypes
  <2> QED BY <1>2, <2>1 DEF LineRow, OnCount
<1>6. ASSUME NEW d \in Counts PROVE CountRow(d)'
  <2>1. CASE d = c
    BY <1>2, <2>1 DEF CountRow
  <2>2. CASE d # c
    <3>1. CountRow(d) /\ Count(d) \in Rows \ {Count(c)}
      BY <1>1, <2>2, CountRowsApart DEF CountTypes
    <3> QED BY <1>2, <3>1 DEF CountRow, Claimant
  <2> QED BY <2>1, <2>2
<1>7. ASSUME NEW t \in Txns PROVE CountRequest(t)' /\ (Claimant(t)' => ClaimStands(t)')
  <2>1. CountRequest(t) /\ (Claimant(t) => ClaimStands(t)) /\ tx'[t] = tx[t]
    BY <1>1, <1>3 DEF CountTypes
  <2>2. CountRequest(t)'
    BY <2>1 DEF CountRequest, LinesRequest, SubmitRequest, ApproveRequest
  <2>3. ASSUME Claimant(t)' PROVE ClaimStands(t)'
    <3>1. Claimant(t) /\ ClaimStands(t)
      BY <2>1, <2>3 DEF Claimant
    <3>2. tx[t].row \in Rows \ {Count(c)}
      BY <1>2, <2>1, <3>1, CountRowsApart, RequestsAssumption DEF CountRequest, Claimant, ClaimStands
    <3> QED BY <1>2, <2>1, <3>1, <3>2 DEF ClaimStands
  <2> QED BY <2>2, <2>3
<1>8. \A t \in Txns : \A op, d : OnCount(t, op, d)' <=> OnCount(t, op, d)
  BY <1>3 DEF OnCount
<1>9. \A d \in Counts, t \in Txns :
        /\ OnCount(t, "lines", d)' \/ OnCount(t, "submit", d)' => committed'[Count(d)] # "none"
        /\ OnCount(t, "approve", d)' => committed'[Count(d)] \in {"SUBMITTED", "APPROVED", "CANCELLED"}
  <2>1. \A d \in Counts \ {c} : committed'[Count(d)] = committed[Count(d)]
    BY <1>2, CountRowsApart
  <2> QED BY <1>1, <1>2, <1>8, <2>1 DEF CountTypes
<1>10. CountTypes'
  BY <1>2, <1>3, <1>4, <1>5, <1>6, <1>7, <1>9 DEF CountTypes
<1>11. ASSUME NEW d \in Counts, CountRight(d) PROVE CountRight(d)'
  <2>1. \A i \in Ingredients : /\ db'[Line(d, i)] = db[Line(d, i)] /\ lock'[Line(d, i)] = lock[Line(d, i)]
                               /\ committed'[Line(d, i)] = committed[Line(d, i)]
    BY <1>2, CountRowsApart
  <2>2. d # c => committed'[Count(d)] = committed[Count(d)]
    BY <1>2, CountRowsApart
  <2>3. Untouched(d)'
    <3>1. \A t \in Txns : (OnCount(t, "lines", d) /\ tx[t].pc = "commit")' =>
            OnCount(t, "lines", d) /\ tx[t].pc = "commit"
      BY <1>3, <1>8
    <3> QED BY <1>2, <1>8, <1>11, <2>2, <3>1 DEF CountRight, Untouched
  <2>4. Expected(d)' /\ ReadRight(d)'
    BY <1>3, <1>8, <1>11, <2>1 DEF CountRight, Expected, ReadRight
  <2>5. HasExpected(d)'
    BY <1>2, <1>11, <2>1, <2>2 DEF CountRight, HasExpected
  <2>6. ToldCount(d)'
    BY <1>2, <1>11, <2>1, <2>2, ToldStays DEF CountRight
  <2> QED BY <2>3, <2>4, <2>5, <2>6 DEF CountRight
<1> QED BY <1>10, <1>11 DEF CountInv

LEMMA StatusChangesKeep ==
  ASSUME CountInv, desk = "stockroom", CreateStockCount \/ Cancel PROVE CountInv'
<1>1. UNCHANGED <<tx, desk, log, raced>>
  BY DEF CreateStockCount, Cancel, Single
<1>2. PICK c \in Counts :
        \/ committed[Count(c)] = "none" /\ Put(Count(c), "DRAFT")
        \/ committed[Count(c)] \in {"DRAFT", "SUBMITTED"} /\ Put(Count(c), "CANCELLED")
  BY DEF CreateStockCount, Cancel, Open
<1> QED BY <1>1, <1>2, StatusChanges

\* An approval depends on the lines of the ingredients, however they are written down.
LEMMA ApprovalAgrees ==
  ASSUME NEW c, NEW l, NEW m, \A i \in Ingredients : l[i] = m[i] PROVE Approval(c, l) = Approval(c, m)
<1>1. ToApply(l) = ToApply(m)
  BY DEF ToApply
<1>2. [j \in Ingredients |-> Cost[j] * Variance(l[j])] = [j \in Ingredients |-> Cost[j] * Variance(m[j])]
  OBVIOUS
<1>3. NetOf(l) = NetOf(m)
  BY <1>1, <1>2 DEF NetOf
<1>4. Adjustments(c, l, ToApply(l)) = Adjustments(c, m, ToApply(m))
  <2>1. \A i \in ToApply(l) : l[i] = m[i]
    BY DEF ToApply
  <2> QED BY <1>1, <2>1 DEF Adjustments
<1> QED BY <1>3, <1>4 DEF Approval

\* What an approval tells is about its count.
LEMMA ApprovalIsAbout ==
  ASSUME NEW c, NEW lines, NEW e \in Approval(c, lines)
  PROVE  AboutCount(e, c) /\ \A d : d # c => ~AboutCount(e, d)
<1>1. ToApply(lines) \subseteq Ingredients
  BY DEF ToApply
<1>2. /\ \A i, d : Adjustment(c, i, d).kind = "adjust" /\ Adjustment(c, i, d).key = <<c, i>>
      /\ \A a : Event(<<"STOCKCOUNT", c>>, a).kind = "event"
                /\ Event(<<"STOCKCOUNT", c>>, a).key = <<"STOCKCOUNT", c>>
  BY DEF Adjustment, Event
<1>3. /\ \A i, j, d : <<c, i>> = <<d, j>> => c = d
      /\ \A d : <<"STOCKCOUNT", c>> = <<"STOCKCOUNT", d>> => c = d
  OBVIOUS
<1>4. CASE e \in Adjustments(c, lines, ToApply(lines))
  <2>1. PICK i \in Ingredients : e.kind = "adjust" /\ e.key = <<c, i>>
    BY <1>1, <1>2, <1>4 DEF Adjustments
  <2> QED BY <1>3, <2>1 DEF AboutCount
<1>5. CASE e \in Posted(<<"STOCKCOUNT", c>>, NetOf(lines))
  <2>1. e.kind = "event" /\ e.key = <<"STOCKCOUNT", c>>
    BY <1>2, <1>5 DEF Posted
  <2> QED BY <1>3, <2>1 DEF AboutCount
<1> QED BY <1>4, <1>5 DEF Approval

\* The commit of a request, as it is seen by the counts.
CountCommit(t) ==
  /\ db' = db /\ RowShape' /\ RequestShape' /\ raced' = raced /\ desk' = desk
  /\ \A r \in Rows : lock[r] = t => committed'[r] = db[r] /\ lock'[r] = NoTxn
  /\ \A r \in Rows : lock[r] # t => committed'[r] = committed[r] /\ lock'[r] = lock[r]
  /\ tx'[t].op = "none" /\ tx'[t].pc = "none" /\ \A u \in Txns \ {t} : tx'[u] = tx[u]
  /\ Logged(tx[t].out) /\ tx[t].pc = "commit"

LEMMA CommitIs == ASSUME CountTypes, NEW t \in Txns, Commit(t) PROVE CountCommit(t)
<1>1. KeepWrites(t) /\ RowShape /\ RequestShape /\ Finish(t) /\ Logged(tx[t].out) /\ UNCHANGED raced
  BY DEF CountTypes, Commit
<1>2. /\ db' = db /\ RowShape'
      /\ \A r \in Rows : lock[r] = t => committed'[r] = db[r] /\ lock'[r] = NoTxn
      /\ \A r \in Rows : lock[r] # t => committed'[r] = committed[r] /\ lock'[r] = lock[r]
  BY <1>1, KeepDoes
<1>3. tx'[t].op = "none" /\ tx'[t].pc = "none" /\ OthersWait(t) /\ RequestShape' /\ desk' = desk
  BY <1>1, FinishDoes DEF Finish
<1> QED BY <1>1, <1>2, <1>3 DEF CountCommit, OthersWait, Commit

LEMMA CommitKeepsTypes ==
  ASSUME CountTypes, NEW t \in Txns, CountCommit(t) PROVE CountTypes'
<1>1. /\ db' = db /\ RowShape' /\ RequestShape' /\ t # NoTxn
      /\ \A r \in Rows : lock[r] = t => committed'[r] = db[r] /\ lock'[r] = NoTxn
      /\ \A r \in Rows : lock[r] # t => committed'[r] = committed[r] /\ lock'[r] = lock[r]
      /\ tx'[t].op = "none" /\ tx'[t].pc = "none" /\ \A u \in Txns \ {t} : tx'[u] = tx[u]
  BY RequestsAssumption DEF CountCommit
<1>2. ASSUME NEW i \in Ingredients PROVE ShelfRow(i)'
  <2>1. ShelfRow(i) /\ Shelf(i) \in Rows /\ lock[Shelf(i)] \in Txns \union {NoTxn}
    BY CountRowsApart DEF CountTypes, RowShape
  <2> QED BY <1>1, <2>1 DEF ShelfRow
<1>3. ASSUME NEW c \in Counts PROVE CountRow(c)'
  <2>1. CountRow(c) /\ Count(c) \in Rows /\ lock[Count(c)] \in Txns \union {NoTxn}
    BY CountRowsApart DEF CountTypes, RowShape
  <2> QED BY <1>1, <2>1 DEF CountRow, Claimant
<1>4. ASSUME NEW c \in Counts, NEW i \in Ingredients PROVE LineRow(c, i)'
  <2>1. LineRow(c, i) /\ Line(c, i) \in Rows /\ lock[Line(c, i)] \in Txns \union {NoTxn}
    BY CountRowsApart DEF CountTypes, RowShape
  <2> QED BY <1>1, <2>1 DEF LineRow, OnCount
<1>5. ASSUME NEW u \in Txns PROVE CountRequest(u)' /\ (Claimant(u)' => ClaimStands(u)')
  <2>1. CASE u = t
    BY <1>1, <2>1 DEF CountRequest, Claimant
  <2>2. CASE u # t
    <3>1. tx'[u] = tx[u] /\ CountRequest(u) /\ (Claimant(u) => ClaimStands(u))
      BY <1>1, <2>2 DEF CountTypes
    <3>2. CountRequest(u)'
      BY <3>1 DEF CountRequest, LinesRequest, SubmitRequest, ApproveRequest
    <3>3. ASSUME Claimant(u)' PROVE ClaimStands(u)'
      <4>1. Claimant(u) /\ ClaimStands(u)
        BY <3>1, <3>3 DEF Claimant
      <4>2. tx[u].row \in Rows
        BY <3>1, <4>1, CountRowsApart DEF CountRequest, Claimant
      <4> QED BY <1>1, <2>2, <3>1, <4>1, <4>2 DEF ClaimStands
    <3> QED BY <3>2, <3>3
  <2> QED BY <2>1, <2>2
<1>6. \A u \in Txns : \A op, c : OnCount(u, op, c)' /\ op # "none" => OnCount(u, op, c)
  BY <1>1 DEF OnCount
<1>7. ASSUME NEW c \in Counts
      PROVE  \/ committed'[Count(c)] = committed[Count(c)]
             \/ committed[Count(c)] = "DRAFT" /\ committed'[Count(c)] = "SUBMITTED"
             \/ committed[Count(c)] = "SUBMITTED" /\ committed'[Count(c)] = "APPROVED"
  <2>1. CASE lock[Count(c)] # t
    BY <1>1, <2>1, CountRowsApart
  <2>2. CASE lock[Count(c)] = t
    <3>1. Claimant(t) /\ tx[t].row = Count(c) /\ ClaimStands(t)
      BY <1>1, <2>2 DEF CountTypes, CountRow
    <3> QED BY <1>1, <2>2, <3>1, CountRowsApart DEF ClaimStands
  <2> QED BY <2>1, <2>2
<1>8. \A c \in Counts, u \in Txns :
        /\ OnCount(u, "lines", c)' \/ OnCount(u, "submit", c)' => committed'[Count(c)] # "none"
        /\ OnCount(u, "approve", c)' => committed'[Count(c)] \in {"SUBMITTED", "APPROVED", "CANCELLED"}
  BY <1>6, <1>7 DEF CountTypes
<1> QED BY <1>1, <1>2, <1>3, <1>4, <1>5, <1>8 DEF CountTypes

\* What nobody counted or approved stays as it is told.
LEMMA CommitElsewhere ==
  ASSUME CountTypes, NEW t \in Txns, CountCommit(t), NEW c \in Counts, CountRight(c),
         ~(Counting(t) /\ tx[t].row = Count(c))
  PROVE  CountRight(c)'
<1>1. t # NoTxn /\ HoldsRight(t) /\ CountRequest(t)
  BY CountTypesGive DEF CountTypes
<1>2. lock[Count(c)] # t /\ \A i \in Ingredients : lock[Line(c, i)] # t
  BY <1>1 DEF HoldsRight, Claimant, Counting, OnCount
<1>3. SameCount(c)
  BY <1>2, CountRowsApart DEF CountCommit, SameCount
<1>4. \A e \in tx[t].out : ~AboutCount(e, c)
  <2>1. CASE Beside(tx[t].out)
    BY <2>1 DEF Beside, AboutCount
  <2>2. CASE tx[t].op = "none" \/ tx[t].out = {}
    BY <1>1, <2>2 DEF CountCommit, CountRequest, LinesRequest, SubmitRequest, ApproveRequest
  <2>3. ASSUME NEW d \in Counts, tx[t].row = Count(d), ApproveRequest(t, d)
        PROVE  \A e \in tx[t].out : ~AboutCount(e, c)
    <3>1. tx[t].out = Approval(d, tx[t].read.lines) /\ c # d
      BY <2>3 DEF ApproveRequest, CountCommit, Counting
    <3> QED BY <3>1, ApprovalIsAbout
  <2> QED BY <1>1, <2>1, <2>2, <2>3 DEF CountRequest, LinesRequest, SubmitRequest
<1>5. Logged(tx[t].out)
  BY DEF CountCommit
<1>6. \A u \in Txns : \/ tx'[u] = tx[u]
                      \/ /\ ~(Counting(u) /\ tx[u].row = Count(c))
                         /\ ~(Counting(u)' /\ tx'[u].row = Count(c))
  BY DEF CountCommit, Counting
<1> QED BY <1>3, <1>4, <1>5, <1>6, CountStays

\* A line has been saved.
LEMMA LinesCommit ==
  ASSUME CountTypes, NEW t \in Txns, CountCommit(t), NEW c \in Counts, CountRight(c),
         OnCount(t, "lines", c)
  PROVE  CountRight(c)'
<1>1. t # NoTxn /\ HoldsRight(t) /\ CountRequest(t) /\ tx[t].pc = "commit"
  BY CountTypesGive DEF CountTypes, CountCommit
<1>2. /\ committed[Count(c)] \in {"DRAFT", "CANCELLED"}
      /\ \A u \in Txns : ~OnCount(u, "submit", c) /\ ~OnCount(u, "approve", c)
  BY <1>1 DEF CountRight, Untouched
<1>3. lock[Count(c)] # t
  BY <1>1 DEF HoldsRight, Claimant, OnCount
<1>4. committed'[Count(c)] = committed[Count(c)]
  BY <1>3, CountRowsApart DEF CountCommit
<1>5. \A u \in Txns : \A op : OnCount(u, op, c)' /\ op # "none" => OnCount(u, op, c)
  BY DEF OnCount, CountCommit
<1>6. Untouched(c)' /\ Expected(c)' /\ ReadRight(c)'
  BY <1>2, <1>4, <1>5 DEF Untouched, Expected, ReadRight
<1>7. HasExpected(c)'
  BY <1>2, <1>4 DEF HasExpected
<1>8. tx[t].out = {}
  BY <1>1 DEF CountRequest, LinesRequest, SubmitRequest, ApproveRequest, OnCount
<1>9. Logged({})
  BY <1>8 DEF CountCommit
<1>10. ToldCount(c)'
  BY <1>2, <1>4, <1>9, ToldStays DEF CountRight
<1> QED BY <1>6, <1>7, <1>10 DEF CountRight

\* A count has been submitted.
LEMMA SubmitCommits ==
  ASSUME CountTypes, NEW t \in Txns, CountCommit(t), NEW c \in Counts, CountRight(c),
         OnCount(t, "submit", c)
  PROVE  CountRight(c)'
<1>1. t # NoTxn /\ CountRequest(t) /\ tx[t].pc = "commit" /\ Claimant(t) /\ ClaimStands(t)
  BY CountTypesGive DEF CountTypes, CountCommit, Claimant, OnCount
<1>2. /\ tx[t].out = {} /\ tx[t].read.left = {} /\ tx[t].row = Count(c)
      /\ committed[Count(c)] = "DRAFT" /\ committed'[Count(c)] = "SUBMITTED"
  BY <1>1, CountRowsApart DEF CountRequest, LinesRequest, SubmitRequest, ApproveRequest, OnCount,
     ClaimStands, CountCommit
<1>3. \A u \in Txns : \A op : OnCount(u, op, c)' /\ op # "none" => OnCount(u, op, c) /\ u # t
  BY DEF OnCount, CountCommit
<1>4. Untouched(c)'
  <2>1. \A u \in Txns : ~(OnCount(u, "lines", c) /\ tx[u].pc = "commit")
    BY DEF CountRight, Untouched
  <2>2. \A u \in Txns : ~(OnCount(u, "lines", c) /\ tx[u].pc = "commit")'
    BY <1>3, <2>1 DEF CountCommit
  <2> QED BY <2>2 DEF Untouched
<1>5. ASSUME NEW i \in Ingredients
      PROVE  /\ committed'[Line(c, i)].counted = committed[Line(c, i)].counted
             /\ committed'[Line(c, i)].counted # Null => committed'[Line(c, i)].expected # Null
  <2>1. /\ \/ committed[Line(c, i)].counted = Null
           \/ i \in tx[t].read.left
           \/ lock[Line(c, i)] = t /\ db[Line(c, i)].expected # Null
        /\ lock[Line(c, i)] = t => db[Line(c, i)].counted = committed[Line(c, i)].counted
    BY DEF CountRight, Expected
  <2>2. CASE lock[Line(c, i)] = t
    <3>1. committed'[Line(c, i)] = db[Line(c, i)]
      BY <2>2, CountRowsApart DEF CountCommit
    <3> QED BY <1>2, <2>1, <2>2, <3>1
  <2>3. CASE lock[Line(c, i)] # t
    <3>1. committed'[Line(c, i)] = committed[Line(c, i)]
      BY <2>3, CountRowsApart DEF CountCommit
    <3> QED BY <1>2, <2>1, <2>3, <3>1
  <2> QED BY <2>2, <2>3
<1>6. Expected(c)'
  <2>1. ASSUME NEW u \in Txns, OnCount(u, "submit", c)', NEW i \in Ingredients
        PROVE  /\ \/ committed'[Line(c, i)].counted = Null
                  \/ i \in tx'[u].read.left
                  \/ lock'[Line(c, i)] = u /\ db'[Line(c, i)].expected # Null
               /\ lock'[Line(c, i)] = u => db'[Line(c, i)].counted = committed'[Line(c, i)].counted
    <3>1. OnCount(u, "submit", c) /\ u # t /\ tx'[u] = tx[u] /\ u # NoTxn
      BY <1>3, <2>1, RequestsAssumption DEF CountCommit
    <3>2. /\ \/ committed[Line(c, i)].counted = Null
             \/ i \in tx[u].read.left
             \/ lock[Line(c, i)] = u /\ db[Line(c, i)].expected # Null
          /\ lock[Line(c, i)] = u => db[Line(c, i)].counted = committed[Line(c, i)].counted
      BY <3>1 DEF CountRight, Expected
    <3>3. /\ db' = db
          /\ lock[Line(c, i)] = u => lock'[Line(c, i)] = u
          /\ lock'[Line(c, i)] = u => lock[Line(c, i)] = u
      BY <3>1, CountRowsApart DEF CountCommit
    <3> QED BY <1>5, <3>1, <3>2, <3>3
  <2> QED BY <2>1 DEF Expected
<1>7. ReadRight(c)'
  <2>1. \A u \in Txns : ~OnCount(u, "approve", c)
    BY <1>2 DEF CountTypes
  <2> QED BY <1>3, <2>1 DEF ReadRight
<1>8. HasExpected(c)'
  BY <1>5 DEF HasExpected
<1>9. Logged({})
  BY <1>2 DEF CountCommit
<1>10. ToldCount(c)'
  BY <1>2, <1>9, ToldStays DEF CountRight
<1> QED BY <1>4, <1>6, <1>7, <1>8, <1>10 DEF CountRight

\* A count has been approved.
LEMMA ApproveCommits ==
  ASSUME CountTypes, NEW t \in Txns, CountCommit(t), NEW c \in Counts, CountRight(c),
         OnCount(t, "approve", c)
  PROVE  CountRight(c)'
<1>1. /\ t # NoTxn /\ CountRequest(t) /\ tx[t].pc = "commit" /\ Claimant(t) /\ ClaimStands(t)
      /\ HoldsRight(t)
  BY CountTypesGive DEF CountTypes, CountCommit, Claimant, OnCount
<1>2. /\ ApproveRequest(t, c) /\ tx[t].row = Count(c)
      /\ committed[Count(c)] = "SUBMITTED" /\ committed'[Count(c)] = "APPROVED"
  BY <1>1, CountRowsApart DEF CountRequest, LinesRequest, SubmitRequest, OnCount, ClaimStands, CountCommit
<1>3. \A u \in Txns : \A op : OnCount(u, op, c)' /\ op # "none" => OnCount(u, op, c) /\ u # t
  BY DEF OnCount, CountCommit
<1>4. Untouched(c)'
  <2>1. \A u \in Txns : ~(OnCount(u, "lines", c) /\ tx[u].pc = "commit")
    BY DEF CountRight, Untouched
  <2>2. \A u \in Txns : ~(OnCount(u, "lines", c) /\ tx[u].pc = "commit")'
    BY <1>3, <2>1 DEF CountCommit
  <2> QED BY <2>2 DEF Untouched
<1>5. \A i \in Ingredients : lock[Line(c, i)] # t
  BY <1>1 DEF HoldsRight, OnCount
<1>6. \A i \in Ingredients : /\ committed'[Line(c, i)] = committed[Line(c, i)]
                             /\ lock'[Line(c, i)] = lock[Line(c, i)] /\ db'[Line(c, i)] = db[Line(c, i)]
  BY <1>5, CountRowsApart DEF CountCommit
<1>7. Expected(c)' /\ ReadRight(c)' /\ HasExpected(c)'
  BY <1>2, <1>3, <1>6 DEF CountRight, Expected, ReadRight, HasExpected, CountCommit
<1>8. ToldCount(c)'
  <2>1. tx[t].out = Approval(c, tx[t].read.lines)
    BY <1>1, <1>2 DEF ApproveRequest
  <2>2. PICK now : now = [i \in Ingredients |-> committed'[Line(c, i)]]
    OBVIOUS
  <2>3. \A i \in Ingredients : tx[t].read.lines[i] = now[i]
    BY <1>6, <2>2 DEF CountRight, ReadRight
  <2>4. tx[t].out = Approval(c, now)
    BY <2>1, <2>3, ApprovalAgrees
  <2>5. /\ DOMAIN log' = DOMAIN log \union tx[t].out
        /\ \A e \in DOMAIN log' : log'[e] = Times(e) + (IF e \in tx[t].out THEN 1 ELSE 0)
    BY LoggedDoes DEF CountCommit
  <2>6. \A e \in DOMAIN log : ~AboutCount(e, c)
    BY <1>2 DEF CountRight, ToldCount
  <2>7. \A e \in tx[t].out : AboutCount(e, c)
    BY <2>1, ApprovalIsAbout
  <2>8. {e \in DOMAIN log' : AboutCount(e, c)} = tx[t].out
    BY <2>5, <2>6, <2>7
  <2>9. \A e \in DOMAIN log' : AboutCount(e, c) => log'[e] = 1
    BY <2>5, <2>6 DEF Times
  <2>10. now = LinesNow(c)'
    BY <2>2 DEF LinesNow
  <2>11. \A e : AboutCount(e, c)' <=> AboutCount(e, c)
    BY DEF AboutCount
  <2>12. Approval(c, LinesNow(c))' = Approval(c, now)
    BY <2>10 DEF Approval, Adjustments, NetOf, ToApply
  <2> QED BY <1>2, <2>4, <2>8, <2>9, <2>11, <2>12 DEF ToldCount
<1> QED BY <1>4, <1>7, <1>8 DEF CountRight

LEMMA CountCommits ==
  ASSUME CountInv, desk = "stockroom", NEW t \in Txns, Commit(t) PROVE CountInv'
<1>1. CountTypes /\ CountCommit(t)
  BY CommitIs DEF CountInv
<1>2. CountTypes'
  BY <1>1, CommitKeepsTypes
<1>3. ASSUME NEW c \in Counts, Count(c) \notin raced' PROVE CountRight(c)'
  <2>1. CountRight(c)
    BY <1>1, <1>3 DEF CountInv, CountCommit
  <2>2. \/ ~(Counting(t) /\ tx[t].row = Count(c))
        \/ OnCount(t, "lines", c) \/ OnCount(t, "submit", c) \/ OnCount(t, "approve", c)
    BY DEF Counting, OnCount
  <2> QED BY <1>1, <2>1, <2>2, CommitElsewhere, LinesCommit, SubmitCommits, ApproveCommits
<1> QED BY <1>1, <1>2, <1>3 DEF CountInv, CountCommit

LEMMA CountsSame == ASSUME CountInv, desk = "stockroom", UNCHANGED serviceVars PROVE CountInv'
<1>1. CountTypes
  BY DEF CountInv
<1>2. RowShape' /\ RequestShape' /\ \A t \in Txns : tx'[t] = tx[t]
  BY <1>1, SameRows, SameRequests DEF CountTypes, serviceVars
<1>3. (\A c \in Counts : SameCount(c)) /\ raced \subseteq raced' /\ desk' = desk /\ log' = log
  BY DEF SameCount, serviceVars
<1>4. \A i \in Ingredients : ShelfRow(i)'
  BY <1>1 DEF CountTypes, ShelfRow, serviceVars
<1> QED BY <1>2, <1>3, <1>4, CountsAside

LEMMA CountNextInv == ASSUME CountInv, [Next]_serviceVars PROVE CountInv'
<1>1. desk' = desk
  BY DeskStays
<1>2. CASE desk # "stockroom"
  BY <1>1, <1>2 DEF CountInv
<1>3. CASE desk = "stockroom"
  <2>1. ASSUME NEW t \in Txns, Abort(t, Lost(t)) PROVE CountInv'
    BY <1>3, <2>1, CountGivesUp DEF Abort
  <2>2. ASSUME NEW t \in Txns, Throw(t) PROVE CountInv'
    BY <1>3, <2>2, CountGivesUp DEF Throw
  <2>3. \/ UNCHANGED serviceVars \/ Sell \/ CreateStockCount \/ Cancel \/ CreateProductionOrder
        \/ \E t \in Txns : StockCountStep(t)
        \/ \E t \in Txns : ProductionStep(t)
        \/ \E t \in Txns : Commit(t) \/ Abort(t, Lost(t))
    BY <1>3 DEF Next, StockCountNext, ProductionNext
  <2>4. ASSUME NEW t \in Txns, StockCountStep(t) PROVE CountInv'
    BY <1>3, <2>2, <2>4, UpdateLinesKeeps, WriteLineKeeps, SubmitKeeps, ReadBalancesKeeps, ExpectKeeps,
       ClaimDraftKeeps, ApproveKeeps, ClaimSubmittedKeeps, ApplyVarianceKeeps, AsideBeginsKeep,
       AsideShelvesKeep DEF StockCountStep
  <2>5. ASSUME NEW t \in Txns, ProductionStep(t) PROVE CountInv'
    BY <1>3, <2>2, <2>5, AsideBeginsKeep, AsideShelvesKeep, PutsKeepCounts, SetCompletedCounts
       DEF ProductionStep
  <2> QED BY <1>3, <2>1, <2>3, <2>4, <2>5, CountsSame, PutsKeepCounts, StatusChangesKeep, CountCommits
<1> QED BY <1>2, <1>3

LEMMA CountEnough == ASSUME CountInv PROVE VarianceAppliedOnce
<1> SUFFICES ASSUME desk = "stockroom", NEW c \in Counts, Count(c) \notin raced
             PROVE  /\ \A i \in Ingredients :
                         TotalOf(Entries("adjust", <<c, i>>)) =
                           IF committed[Count(c)] = "APPROVED" /\ committed[Line(c, i)].counted # Null
                             THEN committed[Line(c, i)].counted - committed[Line(c, i)].expected ELSE 0
                    /\ TotalOf(Entries("event", <<"STOCKCOUNT", c>>)) =
                         SumFunctionOnSet([i \in Ingredients |->
                           Cost[i] * TotalOf(Entries("adjust", <<c, i>>))], Ingredients)
  BY DEF VarianceAppliedOnce
<1>1. CountTypes /\ HasExpected(c) /\ ToldCount(c)
  BY DEF CountInv, CountRight
<1>2. PICK lines : lines = LinesNow(c)
  OBVIOUS
<1>3. \A i \in Ingredients : lines[i] = committed[Line(c, i)] /\ IsLine(lines[i])
  BY <1>1, <1>2 DEF LinesNow, CountTypes, LineRow
<1>4. PICK v : v = [i \in Ingredients |-> IF committed[Count(c)] = "APPROVED" THEN Variance(lines[i]) ELSE 0]
  OBVIOUS
<1>5. \A i \in Ingredients : v[i] \in Int
  BY <1>3, <1>4, VarianceInt
<1>6. TotalOf({}) = 0
  BY SumEmpty DEF TotalOf
<1>7. \A i \in Ingredients : \A d : /\ Adjustment(c, i, d).kind = "adjust"
                                    /\ Adjustment(c, i, d).key = <<c, i>>
                                    /\ Adjustment(c, i, d).amount = d
  BY DEF Adjustment
<1>8. \A a : /\ Event(<<"STOCKCOUNT", c>>, a).kind = "event"
             /\ Event(<<"STOCKCOUNT", c>>, a).key = <<"STOCKCOUNT", c>>
             /\ Event(<<"STOCKCOUNT", c>>, a).amount = a
  BY DEF Event
<1>9. \A i, j : <<c, i>> = <<c, j>> => i = j
  OBVIOUS
<1>10. ASSUME NEW i \in Ingredients PROVE TotalOf(Entries("adjust", <<c, i>>)) = v[i]
  <2>1. Entries("adjust", <<c, i>>) =
          {e \in {x \in DOMAIN log : AboutCount(x, c)} : e.kind = "adjust" /\ e.key = <<c, i>>}
    BY DEF Entries, AboutCount
  <2>2. CASE committed[Count(c)] # "APPROVED"
    BY <1>1, <1>4, <1>6, <2>1, <2>2 DEF ToldCount
  <2>3. CASE committed[Count(c)] = "APPROVED"
    <3>1. {x \in DOMAIN log : AboutCount(x, c)} = Approval(c, lines)
      BY <1>1, <1>2, <2>3 DEF ToldCount
    <3>2. v[i] = Variance(lines[i])
      BY <1>4, <2>3
    <3>3. PICK adj : adj = Adjustment(c, i, Variance(lines[i]))
      OBVIOUS
    <3>4. {e \in Adjustments(c, lines, ToApply(lines)) : e.key = <<c, i>>} =
            IF v[i] = 0 THEN {} ELSE {adj}
      BY <1>7, <1>9, <3>2, <3>3 DEF Adjustments, ToApply
    <3>5. \A e \in Posted(<<"STOCKCOUNT", c>>, NetOf(lines)) : e.kind # "adjust"
      BY <1>8 DEF Posted
    <3>6. \A e \in Adjustments(c, lines, ToApply(lines)) : e.kind = "adjust"
      BY <1>7 DEF Adjustments, ToApply
    <3>7. Entries("adjust", <<c, i>>) = IF v[i] = 0 THEN {} ELSE {adj}
      BY <2>1, <3>1, <3>4, <3>5, <3>6 DEF Approval
    <3>8. CASE v[i] = 0
      BY <1>6, <3>7, <3>8
    <3>9. CASE v[i] # 0
      <4>1. log[adj] = 1
        <5>1. adj \in Entries("adjust", <<c, i>>)
          BY <3>7, <3>9
        <5>2. adj \in DOMAIN log /\ AboutCount(adj, c)
          BY <2>1, <5>1
        <5> QED BY <1>1, <5>2 DEF ToldCount
      <4>2. adj.amount = v[i] /\ adj.amount \in Int
        BY <1>5, <1>7, <3>2, <3>3
      <4>3. TotalOf({adj}) = adj.amount
        BY <4>1, <4>2, TotalOfOne
      <4> QED BY <3>7, <3>9, <4>2, <4>3
    <3> QED BY <3>8, <3>9
  <2> QED BY <2>2, <2>3
<1>11. ASSUME NEW i \in Ingredients
       PROVE  v[i] = IF committed[Count(c)] = "APPROVED" /\ committed[Line(c, i)].counted # Null
                       THEN committed[Line(c, i)].counted - committed[Line(c, i)].expected ELSE 0
  BY <1>1, <1>3, <1>4 DEF HasExpected, Variance
<1>12. PICK g : g = [i \in Ingredients |-> Cost[i] * v[i]]
  OBVIOUS
<1>13. [i \in Ingredients |-> Cost[i] * TotalOf(Entries("adjust", <<c, i>>))] = g
  BY <1>10, <1>12
<1>14. \A i \in Ingredients : g[i] \in Int
  <2>1. ASSUME NEW i \in Ingredients PROVE g[i] \in Int
    <3>1. PICK a \in Int, b \in Int : a = Cost[i] /\ b = v[i]
      BY <1>5, StockCountsAssumption
    <3>2. a * b \in Int
      OBVIOUS
    <3> QED BY <1>12, <3>1, <3>2
  <2> QED BY <2>1
<1>15. IsFiniteSet(Ingredients)
  BY StockCountsAssumption
<1>16. Entries("event", <<"STOCKCOUNT", c>>) =
         {e \in {x \in DOMAIN log : AboutCount(x, c)} : e.kind = "event"}
  BY DEF Entries, AboutCount
<1>17. TotalOf(Entries("event", <<"STOCKCOUNT", c>>)) = SumFunctionOnSet(g, Ingredients)
  <2>1. CASE committed[Count(c)] # "APPROVED"
    <3>1. Entries("event", <<"STOCKCOUNT", c>>) = {}
      BY <1>1, <1>16, <2>1 DEF ToldCount
    <3>2. \A i \in Ingredients : g[i] = 0
      BY <1>4, <1>12, <2>1, StockCountsAssumption
    <3> QED BY <1>6, <1>15, <3>1, <3>2, SumZero
  <2>2. CASE committed[Count(c)] = "APPROVED"
    <3>1. {x \in DOMAIN log : AboutCount(x, c)} = Approval(c, lines)
      BY <1>1, <1>2, <2>2 DEF ToldCount
    <3>2. PICK net : net = NetOf(lines)
      OBVIOUS
    <3>3. \A e \in Adjustments(c, lines, ToApply(lines)) : e.kind = "adjust"
      BY <1>7 DEF Adjustments, ToApply
    <3>4. PICK ev : ev = Event(<<"STOCKCOUNT", c>>, net)
      OBVIOUS
    <3>5. Posted(<<"STOCKCOUNT", c>>, net) = (IF net = 0 THEN {} ELSE {ev}) /\ ev.kind = "event"
          /\ ev.amount = net
      BY <1>8, <3>4 DEF Posted
    <3>6. Entries("event", <<"STOCKCOUNT", c>>) = IF net = 0 THEN {} ELSE {ev}
      BY <1>16, <3>1, <3>2, <3>3, <3>5 DEF Approval
    <3>7. net = SumFunctionOnSet(g, Ingredients)
      <4>1. PICK h : h = [j \in Ingredients |-> Cost[j] * Variance(lines[j])]
        OBVIOUS
      <4>2. net = SumFunctionOnSet(h, ToApply(lines))
        BY <3>2, <4>1 DEF NetOf
      <4>3. \A j \in Ingredients : h[j] = g[j]
        BY <1>4, <1>12, <2>2, <4>1
      <4>4. ToApply(lines) \in SUBSET Ingredients
        BY DEF ToApply
      <4>5. \A j \in Ingredients : j \notin ToApply(lines) => g[j] = 0
        BY <1>4, <1>12, <2>2, StockCountsAssumption DEF ToApply
      <4>6. \A j \in Ingredients : g[j] = IF j \in ToApply(lines) THEN h[j] ELSE 0
        BY <4>3, <4>5
      <4>7. SumFunctionOnSet(h, ToApply(lines)) = SumFunctionOnSet(g, Ingredients)
        BY <1>14, <1>15, <4>3, <4>4, <4>6, SumPart
      <4> QED BY <4>2, <4>7
    <3>8. CASE net = 0
      BY <1>6, <3>6, <3>7, <3>8
    <3>9. CASE net # 0
      <4>1. ev \in Entries("event", <<"STOCKCOUNT", c>>)
        BY <3>6, <3>9
      <4>2. log[ev] = 1
        BY <1>1, <1>16, <4>1 DEF ToldCount
      <4>3. net \in Int
        BY <1>14, <1>15, <3>7, SumInt
      <4>4. TotalOf({ev}) = ev.amount
        BY <3>5, <4>2, <4>3, TotalOfOne
      <4> QED BY <3>5, <3>6, <3>7, <3>9, <4>4
    <3> QED BY <3>8, <3>9
  <2> QED BY <2>1, <2>2
<1> QED BY <1>10, <1>11, <1>13, <1>17

\* However counting, submitting, approving and cancelling interleave with adjustments,
\* sales and production, abort or crash, for all ingredients, counts and quantities: the
\* variance of every counted line is applied once, by the approval and by nothing else,
\* and its event carries the value, as long as no line was filled in beside a submission.
THEOREM VarianceAppliedOnceHolds == Spec => []VarianceAppliedOnce
<1>1. Init => CountInv
  BY CountInitInv
<1>2. CountInv /\ [Next]_serviceVars => CountInv'
  BY CountNextInv
<1>3. CountInv => VarianceAppliedOnce
  BY CountEnough
<1> QED BY <1>1, <1>2, <1>3, PTL DEF Spec
===============================================================================
