-------------------------------- MODULE Journal --------------------------------
(***************************************************************************)
(* The journal: every paper of the business that moves money announces an  *)
(* event, whose listener posts the lines of one entry under the reference  *)
(* of the event.  The statements (trial balance, balance sheet, VAT        *)
(* report) are sums.  How papers are written and events delivered is the   *)
(* subject of Orders, Purchasing, Staff and Outbox; here a paper changes   *)
(* in one step, and an event is delivered in any order, again, or lost.    *)
(***************************************************************************)
EXTENDS Service

CONSTANTS
  Papers,  \* orders, purchase and production orders, payrolls, expenses, adjustments
  Terms,   \* per paper its kind, branch and amounts, in satang
  Rates    \* VAT percentages

ASSUME JournalAssumption == /\ DOMAIN Terms = Papers
                            /\ IsFiniteSet(Papers)
                            /\ Rates \subseteq Nat
                            /\ 7 \in Rates

Paper(p) == <<"paper", p>>
Rate == <<"rate">>

\* The account of each method of payment.
MoneyAccount == [CASH |-> "1010", CREDIT_CARD |-> "1040", QR_PROMPTPAY |-> "1050"]

\* Prices, costs and pay are not negative (the DTOs see to it), and nobody is paid
\* more than the gross; an adjustment goes either way.
Priced(paper) ==
  CASE paper.kind = "sale"       -> /\ paper.net \in Nat /\ paper.cogs \in Nat
                                    /\ paper.method \in DOMAIN MoneyAccount
    [] paper.kind = "purchase"   -> paper.total \in Nat /\ paper.standard \in Nat
    [] paper.kind = "job"        -> paper.raw \in Nat /\ paper.finished \in Nat
    [] paper.kind = "payroll"    -> paper.gross \in Nat /\ paper.net \in 0 .. paper.gross
    [] paper.kind = "expense"    -> paper.amount \in Nat
    [] paper.kind = "adjustment" -> paper.value \in Int

\* What may happen to each kind of paper: prefix of the reference, from, to.
Course == [sale       |-> {<<"ORD", "none", "SOLD">>, <<"VOID", "SOLD", "CANCELLED">>,
                           <<"REFUND", "SOLD", "REFUNDED">>},
           purchase   |-> {<<"PO", "none", "UNPAID">>, <<"PAY", "UNPAID", "PAID">>},
           job        |-> {<<"PROD", "none", "COMPLETED">>},
           payroll    |-> {<<"PAYROLL", "none", "APPROVED">>},
           expense    |-> {<<"EXP", "none", "PAID">>},
           adjustment |-> {<<"ADJ", "none", "APPLIED">>}]
Turns(p) == Course[Terms[p].kind]

ASSUME TermsAssumption == \A p \in Papers : Terms[p].kind \in DOMAIN Course /\ Priced(Terms[p])

JournalRows == {Paper(p) : p \in Papers} \union {Rate}

Unwritten == [st |-> "none", tax |-> 0]
JournalInitial(r) == IF r = Rate THEN 7    \* parseVatRatePercent of no setting
                     ELSE Unwritten

-------------------------------------------------------------------------------
(* The papers.                                                             *)

\* inclusiveTaxAmount, rounded half up to a satang.
TaxIn(net, rate) == (2 * net * rate + 100 + rate) \div (2 * (100 + rate))

\* Is the event of this step enqueued?  A receipt or a job that cost nothing tells nobody.
Announced(p) ==
  LET paper == Terms[p]
  IN CASE paper.kind = "purchase"   -> paper.total > 0
       [] paper.kind = "job"        -> paper.raw > 0
       [] paper.kind = "payroll"    -> paper.gross > 0
       [] paper.kind = "expense"    -> paper.amount > 0
       [] paper.kind = "adjustment" -> paper.value # 0
       [] OTHER -> TRUE

Fact(ref, tax) == [kind |-> "fact", key |-> ref, tax |-> tax]

\* A sale takes the rate of the day; every later step keeps the paper's tax.
Proceed(p, turn) ==
  LET was == committed[Paper(p)]
      tax == IF turn[1] = "ORD" THEN TaxIn(Terms[p].net, committed[Rate]) ELSE was.tax
  IN /\ was.st = turn[2]
     /\ turn[1] = "PAY" => Terms[p].total > 0   \* payPO refuses to pay nothing
     /\ Single
     /\ Put(Paper(p), [st |-> turn[3], tax |-> tax])
     /\ Logged(IF Announced(p) THEN {Fact(<<turn[1], p>>, tax)} ELSE {})
     /\ UNCHANGED raced

\* updateSettings with another VAT rate.
ChangeRate == \E rate \in Rates \ {committed[Rate]} :
  /\ Single
  /\ Put(Rate, rate)
  /\ UNCHANGED <<log, raced>>

-------------------------------------------------------------------------------
(* The listeners: the lines of an entry, debits positive.                  *)

Dr(account, amount) == [account |-> account, amount |-> amount]
Cr(account, amount) == Dr(account, 0 - amount)

Sold(paper, tax) == {Dr(MoneyAccount[paper.method], paper.net), Cr("4010", paper.net - tax),
                     Cr("2020", tax), Dr("5010", paper.cogs), Cr("1030", paper.cogs)}

\* Mutant: a reversal works out the tax at the rate of the day.
ReversedAtTodaysRate(paper, tax) ==
  {Cr(l.account, l.amount) : l \in Sold(paper, TaxIn(paper.net, committed[Rate]))}

\* postOrderSaleReversal: the lines of the sale, the other way round.
Reversed(paper, tax) == {Cr(l.account, l.amount) : l \in Sold(paper, tax)}

Received(paper) == {Dr("1030", paper.standard), Dr("5035", paper.total - paper.standard),
                    Cr("2010", paper.total)}

Produced(paper) ==
  IF paper.finished = paper.raw THEN {}
  ELSE {Dr("1030", paper.finished), Cr("1030", paper.raw), Cr("5030", paper.finished - paper.raw)}

SupplierPaid(paper) == {Dr("2010", paper.total), Cr("1010", paper.total)}
WagesPaid(paper) == {Dr("5020", paper.gross), Cr("1010", paper.net),
                     Cr("2030", paper.gross - paper.net)}
ExpensePaid(paper) == {Dr("5050", paper.amount), Cr("1010", paper.amount)}
StockAdjusted(paper) == {Dr("1030", paper.value), Cr("5040", paper.value)}

\* The handlers leave out what is zero, and everything if the main amounts are.
LinesOfFact(e) ==
  LET paper == Terms[e.key[2]]
      prefix == e.key[1]
      lines == CASE prefix = "ORD"     -> Sold(paper, e.tax)
                 [] prefix \in {"VOID", "REFUND"} -> Reversed(paper, e.tax)
                 [] prefix = "PO"      -> Received(paper)
                 [] prefix = "PAY"     -> SupplierPaid(paper)
                 [] prefix = "PROD"    -> Produced(paper)
                 [] prefix = "PAYROLL" -> WagesPaid(paper)
                 [] prefix = "EXP"     -> ExpensePaid(paper)
                 [] prefix = "ADJ"     -> StockAdjusted(paper)
  IN {l \in lines : l.amount # 0}

SumOf(lines) == SumFunctionOnSet([l \in lines |-> l.amount], lines)
Facts == {e \in DOMAIN log : e.kind = "fact"}
Handled(ref) == [kind |-> "handled", key |-> ref, tax |-> 0]

Entry(ref, lines) == [kind |-> "entry", key |-> ref, lines |-> lines]
JournalEntries == {e \in DOMAIN log : e.kind = "entry"}

\* createJournalEntry: debits equal credits, and a reference posted already stays as
\* it is (the unique index refuses a second; the first is returned).
PostEntry(e) ==
  LET lines == LinesOfFact(e)
  IN IF /\ lines # {}
        /\ SumOf(lines) = 0
        /\ \A posted \in JournalEntries : posted.key # e.key
       THEN {Entry(e.key, lines)} ELSE {}

\* An event reaches the listener, now or once more.
Deliver(e) == /\ Single
              /\ Logged({Handled(e.key)} \union PostEntry(e))
              /\ UNCHANGED <<db, committed, lock, raced>>

\* The listener dies before it posts (Outbox says what becomes of the event).
Miss(e) == /\ Single
           /\ Times(Handled(e.key)) = 0
           /\ raced' = raced \union {Paper(e.key[2])}
           /\ UNCHANGED <<db, committed, lock, log>>

JournalNext == \/ \E p \in Papers : \E turn \in Turns(p) : Proceed(p, turn)
               \/ ChangeRate
               \/ \E e \in Facts : Deliver(e) \/ Miss(e)

-------------------------------------------------------------------------------
(* The statements.                                                         *)

At(branch) == {p \in Papers : Terms[p].branch = branch}
Scopes == {Papers} \union {At(Terms[p].branch) : p \in Papers}

PostedFor(scope) == {e \in JournalEntries : e.key[2] \in scope}

\* getTrialBalance: what the posted lines of these accounts sum to.
Balance(accounts, scope) ==
  SumFunctionOnSet([e \in PostedFor(scope) |-> SumOf({l \in e.lines : l.account \in accounts})],
                   PostedFor(scope))

\* DEFAULT_CHART_OF_ACCOUNTS, by type; what was earned is revenue less expenses.
Assets == {"1010", "1020", "1030", "1040", "1050"}
Liabilities == {"2010", "2020", "2030"}
Equity == {"3010"}
Earnings == {"4010", "5010", "5020", "5030", "5035", "5040", "5050"}
Accounts == Assets \union Liabilities \union Equity \union Earnings

\* getBalanceSheet, and isBalanced of it.
SheetBalances(scope) ==
  Balance(Assets, scope) = 0 - Balance(Liabilities \union Equity \union Earnings, scope)

In(scope, kind, statuses) ==
  {p \in scope : Terms[p].kind = kind /\ committed[Paper(p)].st \in statuses}
Standing(scope) == In(scope, "sale", {"SOLD"})

\* getVatReport sums the orders that stand.
OutputVat(scope) ==
  SumFunctionOnSet([p \in Standing(scope) |-> committed[Paper(p)].tax], Standing(scope))

NetOfAll(papers) == SumFunctionOnSet([p \in papers |-> Terms[p].net], papers)
TotalOfAll(papers) == SumFunctionOnSet([p \in papers |-> Terms[p].total], papers)
AmountOfAll(papers) == SumFunctionOnSet([p \in papers |-> Terms[p].amount], papers)

GrossSales(scope, methods) == NetOfAll({p \in Standing(scope) : Terms[p].method \in methods})

\* getApAging sums the orders received and not paid.
Payables(scope) == TotalOfAll(In(scope, "purchase", {"UNPAID"}))

\* What a paper puts onto the shelves, less what it takes off them, at standard cost.
Moved(p) == LET paper == Terms[p]
            IN CASE paper.kind = "purchase"   -> paper.standard
                 [] paper.kind = "job"        -> paper.finished - paper.raw
                 [] paper.kind = "adjustment" -> paper.value
                 [] paper.kind = "sale"       -> 0 - paper.cogs

\* The papers announced that moved goods, and did not move them back.
MovedGoods(scope) == {p \in scope : Announced(p) /\ Terms[p].kind \notin {"payroll", "expense"}
                                   /\ committed[Paper(p)].st \notin {"none", "CANCELLED", "REFUNDED"}}
ShelfValue(scope) == SumFunctionOnSet([p \in MovedGoods(scope) |-> Moved(p)], MovedGoods(scope))

Disbursed(scope) == TotalOfAll(In(scope, "purchase", {"PAID"}))
                    + NetOfAll(In(scope, "payroll", {"APPROVED"}))
                    + AmountOfAll(In(scope, "expense", {"PAID"}))

-------------------------------------------------------------------------------
(* Properties.                                                             *)

PaperStatuses == {"none"} \union {turn[3] : turn \in UNION {Turns(p) : p \in Papers}}

JournalTypeOK(v) ==
  /\ v[Rate] \in Rates
  /\ \A p \in Papers : v[Paper(p)].st \in PaperStatuses /\ v[Paper(p)].tax \in Nat
  /\ \A e \in JournalEntries : \A l \in e.lines : l.account \in Accounts /\ l.amount \in Int

\* Has every event of these papers been delivered, and none been lost?
AllTold(scope) == \A e \in Facts : e.key[2] \in scope =>
                    Times(Handled(e.key)) > 0 /\ Paper(e.key[2]) \notin raced

\* docs/architecture.md: "the operational numbers and the accounting numbers agree by
\* construction".  For the chain and for each branch, the balance sheet balances at
\* all times, and once every event has been delivered, in whatever order and however
\* often, output VAT is that of the VAT report, revenue that of the orders, payables
\* the unpaid purchase orders, inventory what moved on the shelves, and each money
\* account what came in and went out, whatever the VAT rate became meanwhile.
StatementsAgree == desk = "journal" => \A scope \in Scopes :
  /\ SheetBalances(scope)
  /\ AllTold(scope) =>
       /\ Balance({"2020"}, scope) = 0 - OutputVat(scope)
       /\ Balance({"4010"}, scope) = OutputVat(scope) - GrossSales(scope, DOMAIN MoneyAccount)
       /\ Balance({"2010"}, scope) = 0 - Payables(scope)
       /\ Balance({"1030"}, scope) = ShelfValue(scope)
       /\ \A method \in DOMAIN MoneyAccount :
            Balance({MoneyAccount[method]}, scope) =
              GrossSales(scope, {method}) - (IF method = "CASH" THEN Disbursed(scope) ELSE 0)
===============================================================================
