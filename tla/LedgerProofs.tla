------------------------------ MODULE LedgerProofs ------------------------------
(***************************************************************************)
(* Theorems about the books of the back office: the statements of the      *)
(* journal, for every set of papers and any prices, rates and order of     *)
(* events; the types of every row and request, which rest on the           *)
(* invariants of all departments; and the value of the shelves, which      *)
(* rests on those types.                                                   *)
(***************************************************************************)
EXTENDS BackOfficeProofs

-------------------------------------------------------------------------------
(* The journal.                                                            *)

Stages(kind) == CASE kind = "sale"       -> {"none", "SOLD", "CANCELLED", "REFUNDED"}
                  [] kind = "purchase"   -> {"none", "UNPAID", "PAID"}
                  [] kind = "job"        -> {"none", "COMPLETED"}
                  [] kind = "payroll"    -> {"none", "APPROVED"}
                  [] kind = "expense"    -> {"none", "PAID"}
                  [] kind = "adjustment" -> {"none", "APPLIED"}

Prefixes == {"ORD", "VOID", "REFUND", "PO", "PAY", "PROD", "PAYROLL", "EXP", "ADJ"}

\* Which steps may a paper of this kind go through?
Suits(kind, x) == \/ kind = "sale" /\ x \in {"ORD", "VOID", "REFUND"}
                  \/ kind = "purchase" /\ x \in {"PO", "PAY"}
                  \/ kind = "job" /\ x = "PROD"
                  \/ kind = "payroll" /\ x = "PAYROLL"
                  \/ kind = "expense" /\ x = "EXP"
                  \/ kind = "adjustment" /\ x = "ADJ"

\* Has a paper of this kind, by now st, been through the step of this prefix?
Tells(kind, x, st) ==
  \/ kind = "sale" /\ x = "ORD" /\ st # "none"
  \/ kind = "sale" /\ x = "VOID" /\ st = "CANCELLED"
  \/ kind = "sale" /\ x = "REFUND" /\ st = "REFUNDED"
  \/ kind = "purchase" /\ x = "PO" /\ st # "none"
  \/ kind = "purchase" /\ x = "PAY" /\ st = "PAID"
  \/ kind = "job" /\ x = "PROD" /\ st # "none"
  \/ kind = "payroll" /\ x = "PAYROLL" /\ st # "none"
  \/ kind = "expense" /\ x = "EXP" /\ st # "none"
  \/ kind = "adjustment" /\ x = "ADJ" /\ st # "none"

Stage(p) == committed[Paper(p)].st
TaxOf(p) == committed[Paper(p)].tax
FactOf(x, p) == Fact(<<x, p>>, TaxOf(p))
Happened(x, p) == Tells(Terms[p].kind, x, Stage(p)) /\ Announced(p)
EntryOf(f) == Entry(f.key, LinesOfFact(f))

\* The papers, one at a time; nobody has a transaction of several statements.
JournalTypes ==
  /\ RowShape /\ RequestShape
  /\ \A t \in Txns : tx[t].op = "none" /\ tx[t].pc = "none"
  /\ db = committed /\ \A r \in Rows : lock[r] = NoTxn
  /\ committed[Rate] \in Rates
  /\ \A p \in Papers : /\ committed[Paper(p)] = [st |-> Stage(p), tax |-> TaxOf(p)]
                       /\ Stage(p) \in Stages(Terms[p].kind) /\ TaxOf(p) \in Nat
  /\ IsFiniteSet(DOMAIN log)

\* The events are those of the steps the papers have been through, each with the tax
\* of its paper; what was posted are entries of them; an event that was handled has
\* posted its entry, if it has lines at all.
FactsTold ==
  /\ \A f \in Facts : \E p \in Papers, x \in Prefixes : Happened(x, p) /\ f = FactOf(x, p)
  /\ \A p \in Papers, x \in Prefixes : Happened(x, p) => FactOf(x, p) \in DOMAIN log
EntriesPosted == \A e \in JournalEntries :
                   \E f \in Facts : LinesOfFact(f) # {} /\ e = EntryOf(f)
HandledPosted == \A e \in DOMAIN log : e.kind = "handled" =>
  \E f \in Facts : /\ e = Handled(f.key)
                   /\ LinesOfFact(f) = {} \/ EntryOf(f) \in DOMAIN log

JournalBooks == JournalTypes /\ FactsTold /\ EntriesPosted /\ HandledPosted
JournalInv == desk = "journal" => JournalBooks

-------------------------------------------------------------------------------
(* What a set of lines puts on some accounts.                              *)

\* A line puts its amount on its own account.
On(A, account, amount) == IF account \in A THEN amount ELSE 0

Weighed(A, S) == SumFunctionOnSet([l \in S |-> On(A, l.account, l.amount)], S)
Lines(S) == IsFiniteSet(S) /\ \A l \in S : l.amount \in Int

LEMMA LineIs ==
  ASSUME NEW account, NEW amount
  PROVE  /\ Dr(account, amount).account = account /\ Dr(account, amount).amount = amount
         /\ Cr(account, amount).account = account /\ Cr(account, amount).amount = 0 - amount
BY DEF Dr, Cr

LEMMA NoLines == ASSUME NEW A PROVE Lines({}) /\ Weighed(A, {}) = 0
BY FS_EmptySet, SumEmpty DEF Lines, Weighed

\* One line more.
LEMMA OneLineMore ==
  ASSUME NEW S, Lines(S), NEW l, l.amount \in Int, l \notin S, NEW A
  PROVE  /\ Lines(S \union {l})
         /\ Weighed(A, S \union {l}) = Weighed(A, S) + On(A, l.account, l.amount)
<1> DEFINE T == S \union {l}
           g == [k \in T |-> On(A, k.account, k.amount)]
           h == [k \in S |-> On(A, k.account, k.amount)]
<1>1. l \notin S /\ IsFiniteSet(S)
  BY DEF Lines
<1>2. Lines(T)
  BY <1>1, FS_AddElement DEF Lines
<1>3. \A k \in T : g[k] = On(A, k.account, k.amount) /\ g[k] \in Int
  BY DEF Lines, On
<1>4. \A k \in S : h[k] = g[k] /\ h[k] \in Int
  BY <1>3
<1> HIDE DEF g, h
<1>5. SumFunctionOnSet(g, T) = g[l] + SumFunctionOnSet(g, S)
  BY <1>1, <1>3, SumInsert
<1>6. SumFunctionOnSet(h, S) = SumFunctionOnSet(g, S) /\ SumFunctionOnSet(h, S) \in Int
  BY <1>1, <1>4, SumAgrees, SumInt
<1>7. g[l] \in Int /\ g[l] = On(A, l.account, l.amount)
  BY <1>3
<1>8. SumFunctionOnSet(g, T) = SumFunctionOnSet(h, S) + On(A, l.account, l.amount)
  BY <1>5, <1>6, <1>7
<1> QED BY <1>2, <1>8 DEF Weighed, g, h

\* The lines on some accounts, the empty ones left out, sum to what the set weighs there.
LEMMA LinesWeigh ==
  ASSUME NEW S, Lines(S), NEW A
  PROVE  SumOf({l \in {k \in S : k.amount # 0} : l.account \in A}) = Weighed(A, S)
<1> DEFINE T == {l \in {k \in S : k.amount # 0} : l.account \in A}
           g == [l \in T |-> l.amount]
           h == [l \in S |-> On(A, l.account, l.amount)]
<1>1. T \in SUBSET S /\ IsFiniteSet(S)
  BY DEF Lines
<1>2. \A l \in T : g[l] \in Int
  BY DEF Lines
<1>3. \A l \in S : h[l] = IF l \in T THEN g[l] ELSE 0
  BY DEF On
<1> HIDE DEF T, g, h
<1>4. SumFunctionOnSet(g, T) = SumFunctionOnSet(h, S)
  BY <1>1, <1>2, <1>3, SumPart
<1> QED BY <1>4 DEF SumOf, Weighed, T, g, h

\* What a set of lines on known accounts puts on all of them is the sum of its amounts.
LEMMA AllLines ==
  ASSUME NEW S, Lines(S), NEW A, \A l \in S : l.account \in A
  PROVE  SumOf({l \in S : l.amount # 0}) = Weighed(A, S)
<1>1. {l \in {k \in S : k.amount # 0} : l.account \in A} = {l \in S : l.amount # 0}
  OBVIOUS
<1> QED BY <1>1, LinesWeigh

LEMMA OnInt == ASSUME NEW A, NEW account, NEW amount \in Int PROVE On(A, account, amount) \in Int
BY DEF On

\* Lines of two, three and five accounts.
LEMMA TwoLines ==
  ASSUME NEW a, NEW b, a.amount \in Int, b.amount \in Int, a # b, NEW A
  PROVE  /\ Lines({a, b})
         /\ Weighed(A, {a, b}) = On(A, a.account, a.amount) + On(A, b.account, b.amount)
<1>1. Lines({}) /\ Weighed(A, {}) = 0
  BY NoLines
<1>2. Lines({} \union {a}) /\ Weighed(A, {} \union {a}) = 0 + On(A, a.account, a.amount)
  BY <1>1, OneLineMore
<1>3. {} \union {a} = {a} /\ {a} \union {b} = {a, b}
  OBVIOUS
<1>4. Lines({a} \union {b}) /\ Weighed(A, {a} \union {b}) = Weighed(A, {a}) + On(A, b.account, b.amount)
  BY <1>2, <1>3, OneLineMore
<1>5. On(A, a.account, a.amount) \in Int
  BY OnInt
<1> QED BY <1>2, <1>3, <1>4, <1>5

ThreeApart(a, b, c) ==
  a.amount \in Int /\ b.amount \in Int /\ c.amount \in Int /\ a # b /\ c \notin {a, b}
ThreeWeigh(A, a, b, c) ==
  Lines({a, b, c}) /\ Weighed(A, {a, b, c}) =
    On(A, a.account, a.amount) + On(A, b.account, b.amount) + On(A, c.account, c.amount)

LEMMA ThreeLines ==
  ASSUME NEW a, NEW b, NEW c, ThreeApart(a, b, c), NEW A
  PROVE  ThreeWeigh(A, a, b, c)
<1>0. a.amount \in Int /\ b.amount \in Int /\ c.amount \in Int /\ a # b /\ c \notin {a, b}
  BY DEF ThreeApart
<1>1. Lines({a, b})
  BY <1>0, TwoLines
<1>2. Weighed(A, {a, b}) = On(A, a.account, a.amount) + On(A, b.account, b.amount)
  BY <1>0, TwoLines
<1>3. {a, b} \union {c} = {a, b, c}
  OBVIOUS
<1>4. Lines({a, b} \union {c}) /\ Weighed(A, {a, b} \union {c}) = Weighed(A, {a, b}) + On(A, c.account, c.amount)
  BY <1>0, <1>1, OneLineMore
<1> QED BY <1>2, <1>3, <1>4 DEF ThreeWeigh

\* Five lines on five accounts, and what they put on A.
FiveApart(a, b, c, d, e) ==
  /\ a.amount \in Int /\ b.amount \in Int /\ c.amount \in Int /\ d.amount \in Int /\ e.amount \in Int
  /\ a.account # b.account /\ c.account \notin {a.account, b.account}
  /\ d.account \notin {a.account, b.account, c.account}
  /\ e.account \notin {a.account, b.account, c.account, d.account}
FiveWeigh(A, a, b, c, d, e) ==
  Lines({a, b, c, d, e}) /\ Weighed(A, {a, b, c, d, e}) =
    On(A, a.account, a.amount) + On(A, b.account, b.amount) + On(A, c.account, c.amount)
      + On(A, d.account, d.amount) + On(A, e.account, e.amount)

LEMMA FiveLines ==
  ASSUME NEW a, NEW b, NEW c, NEW d, NEW e, FiveApart(a, b, c, d, e), NEW A
  PROVE  FiveWeigh(A, a, b, c, d, e)
<1>1. a.amount \in Int /\ b.amount \in Int /\ a # b
  BY DEF FiveApart
<1>2. Lines({a, b}) /\ Weighed(A, {a, b}) = On(A, a.account, a.amount) + On(A, b.account, b.amount)
  BY <1>1, TwoLines
<1>3. c.amount \in Int /\ c \notin {a, b}
  BY DEF FiveApart
<1>4. /\ Lines({a, b} \union {c})
      /\ Weighed(A, {a, b} \union {c}) = Weighed(A, {a, b}) + On(A, c.account, c.amount)
  BY <1>2, <1>3, OneLineMore
<1>5. {a, b} \union {c} = {a, b, c} /\ {a, b, c} \union {d} = {a, b, c, d}
      /\ {a, b, c, d} \union {e} = {a, b, c, d, e}
  OBVIOUS
<1>6. d.amount \in Int /\ d \notin {a, b, c}
  BY DEF FiveApart
<1>7. Lines({a, b, c})
  BY <1>4, <1>5
<1>8. /\ Lines({a, b, c} \union {d})
      /\ Weighed(A, {a, b, c} \union {d}) = Weighed(A, {a, b, c}) + On(A, d.account, d.amount)
  BY <1>6, <1>7, OneLineMore
<1>9. e.amount \in Int /\ e \notin {a, b, c, d}
  BY DEF FiveApart
<1>10. Lines({a, b, c, d})
  BY <1>5, <1>8
<1>11. /\ Lines({a, b, c, d} \union {e})
       /\ Weighed(A, {a, b, c, d} \union {e}) = Weighed(A, {a, b, c, d}) + On(A, e.account, e.amount)
  BY <1>9, <1>10, OneLineMore
<1>12. Lines({a, b, c, d, e})
  BY <1>5, <1>11
<1>13. Weighed(A, {a, b, c, d, e}) = Weighed(A, {a, b, c, d}) + On(A, e.account, e.amount)
  BY <1>5, <1>11
<1>14. Weighed(A, {a, b, c, d}) = Weighed(A, {a, b, c}) + On(A, d.account, d.amount)
  BY <1>5, <1>8
<1>15. Weighed(A, {a, b, c}) = Weighed(A, {a, b}) + On(A, c.account, c.amount)
  BY <1>4, <1>5
<1>16. Weighed(A, {a, b, c, d, e}) =
         On(A, a.account, a.amount) + On(A, b.account, b.amount) + On(A, c.account, c.amount)
           + On(A, d.account, d.amount) + On(A, e.account, e.amount)
  BY <1>2, <1>13, <1>14, <1>15
<1> QED BY <1>12, <1>16 DEF FiveWeigh

-------------------------------------------------------------------------------
(* What each kind of event puts on the accounts.                           *)

\* The tax on a net price at a rate of the day.
LEMMA TaxNat == ASSUME NEW net \in Nat, NEW rate \in Nat PROVE TaxIn(net, rate) \in Nat
<1>1. net * rate \in Nat
  OBVIOUS
<1>2. PICK m \in Nat : m = net * rate
  BY <1>1
<1>3. 2 * net * rate = 2 * m
  BY <1>2
<1>4. (2 * m + 100 + rate) \div (2 * (100 + rate)) \in Nat
  BY <1>2
<1> QED BY <1>3, <1>4 DEF TaxIn

LEMMA MoneyIs == ASSUME NEW method \in DOMAIN MoneyAccount
                 PROVE  MoneyAccount[method] \in {"1010", "1040", "1050"}
BY DEF MoneyAccount

\* What a sale that stands puts on some accounts.
SaleOn(A, paper, tax) ==
  On(A, MoneyAccount[paper.method], paper.net) + On(A, "4010", tax - paper.net)
    + On(A, "2020", 0 - tax) + On(A, "5010", paper.cogs) + On(A, "1030", 0 - paper.cogs)

LEMMA SoldWeighs ==
  ASSUME NEW paper, paper.net \in Nat, paper.cogs \in Nat, paper.method \in DOMAIN MoneyAccount,
         NEW tax \in Nat, NEW A
  PROVE  /\ Lines(Sold(paper, tax)) /\ Weighed(A, Sold(paper, tax)) = SaleOn(A, paper, tax)
         /\ \A l \in Sold(paper, tax) : l.account \in Accounts
<1> DEFINE M == MoneyAccount[paper.method]
           a == Dr(M, paper.net)
           b == Cr("4010", paper.net - tax)
           c == Cr("2020", tax)
           d == Dr("5010", paper.cogs)
           e == Cr("1030", paper.cogs)
<1>1. M \in {"1010", "1040", "1050"}
  BY MoneyIs
<1>2. /\ a.account = M /\ a.amount = paper.net
      /\ b.account = "4010" /\ b.amount = 0 - (paper.net - tax)
      /\ c.account = "2020" /\ c.amount = 0 - tax
      /\ d.account = "5010" /\ d.amount = paper.cogs
      /\ e.account = "1030" /\ e.amount = 0 - paper.cogs
  BY LineIs
<1>3. Sold(paper, tax) = {a, b, c, d, e}
  BY DEF Sold
<1> HIDE DEF M, a, b, c, d, e
<1>4. a.amount \in Int /\ b.amount \in Int /\ c.amount \in Int /\ d.amount \in Int /\ e.amount \in Int
  BY <1>2
<1>5. FiveApart(a, b, c, d, e)
  BY <1>1, <1>2, <1>4 DEF FiveApart
<1>6. FiveWeigh(A, a, b, c, d, e)
  BY <1>5, FiveLines
<1>7. /\ Lines({a, b, c, d, e})
      /\ Weighed(A, {a, b, c, d, e}) = On(A, a.account, a.amount) + On(A, b.account, b.amount)
           + On(A, c.account, c.amount) + On(A, d.account, d.amount) + On(A, e.account, e.amount)
  BY <1>6 DEF FiveWeigh
<1>8. b.amount = tax - paper.net
  BY <1>2
<1>9. Weighed(A, {a, b, c, d, e}) = SaleOn(A, paper, tax)
  BY <1>2, <1>7, <1>8 DEF SaleOn, M
<1>10. \A l \in {a, b, c, d, e} : l.account \in Accounts
  BY <1>1, <1>2 DEF Accounts, Assets, Liabilities, Earnings
<1> QED BY <1>3, <1>7, <1>9, <1>10

\* A reversal takes back what the sale put there.
LEMMA ReversedWeighs ==
  ASSUME NEW paper, paper.net \in Nat, paper.cogs \in Nat, paper.method \in DOMAIN MoneyAccount,
         NEW tax \in Nat, NEW A
  PROVE  /\ Lines(Reversed(paper, tax)) /\ Weighed(A, Reversed(paper, tax)) = 0 - SaleOn(A, paper, tax)
         /\ \A l \in Reversed(paper, tax) : l.account \in Accounts
<1> DEFINE M == MoneyAccount[paper.method]
           was == {Dr(M, paper.net), Cr("4010", paper.net - tax), Cr("2020", tax),
                   Dr("5010", paper.cogs), Cr("1030", paper.cogs)}
           a == Cr(M, paper.net)
           b == Cr("4010", 0 - (paper.net - tax))
           c == Cr("2020", 0 - tax)
           d == Cr("5010", paper.cogs)
           e == Cr("1030", 0 - paper.cogs)
<1>1. M \in {"1010", "1040", "1050"}
  BY MoneyIs
<1>2. /\ a.account = M /\ a.amount = 0 - paper.net
      /\ b.account = "4010" /\ b.amount = 0 - (0 - (paper.net - tax))
      /\ c.account = "2020" /\ c.amount = 0 - (0 - tax)
      /\ d.account = "5010" /\ d.amount = 0 - paper.cogs
      /\ e.account = "1030" /\ e.amount = 0 - (0 - paper.cogs)
  BY LineIs
<1>3. Reversed(paper, tax) = {a, b, c, d, e}
  <2>1. Sold(paper, tax) = was
    BY DEF Sold
  <2>2. /\ \A account, amount : Dr(account, amount).account = account
        /\ \A account, amount : Dr(account, amount).amount = amount
        /\ \A account, amount : Cr(account, amount).account = account
        /\ \A account, amount : Cr(account, amount).amount = 0 - amount
    BY DEF Dr, Cr
  <2>3. {Cr(l.account, l.amount) : l \in was} =
          {Cr(Dr(M, paper.net).account, Dr(M, paper.net).amount),
           Cr(Cr("4010", paper.net - tax).account, Cr("4010", paper.net - tax).amount),
           Cr(Cr("2020", tax).account, Cr("2020", tax).amount),
           Cr(Dr("5010", paper.cogs).account, Dr("5010", paper.cogs).amount),
           Cr(Cr("1030", paper.cogs).account, Cr("1030", paper.cogs).amount)}
    OBVIOUS
  <2>4. {Cr(l.account, l.amount) : l \in was} = {a, b, c, d, e}
    BY <2>2, <2>3
  <2> QED BY <2>1, <2>4 DEF Reversed
<1> HIDE DEF M, a, b, c, d, e
<1>4. a.amount \in Int /\ b.amount \in Int /\ c.amount \in Int /\ d.amount \in Int /\ e.amount \in Int
  BY <1>2
<1>5. FiveApart(a, b, c, d, e)
  BY <1>1, <1>2, <1>4 DEF FiveApart
<1>6. FiveWeigh(A, a, b, c, d, e)
  BY <1>5, FiveLines
<1>7. /\ Lines({a, b, c, d, e})
      /\ Weighed(A, {a, b, c, d, e}) = On(A, a.account, a.amount) + On(A, b.account, b.amount)
           + On(A, c.account, c.amount) + On(A, d.account, d.amount) + On(A, e.account, e.amount)
  BY <1>6 DEF FiveWeigh
<1>8. /\ On(A, M, 0 - paper.net) = 0 - On(A, M, paper.net)
      /\ On(A, "4010", b.amount) = 0 - On(A, "4010", tax - paper.net)
      /\ On(A, "2020", c.amount) = 0 - On(A, "2020", 0 - tax)
      /\ On(A, "5010", 0 - paper.cogs) = 0 - On(A, "5010", paper.cogs)
      /\ On(A, "1030", e.amount) = 0 - On(A, "1030", 0 - paper.cogs)
  BY <1>2 DEF On
<1>9. /\ On(A, M, paper.net) \in Int /\ On(A, "4010", tax - paper.net) \in Int
      /\ On(A, "2020", 0 - tax) \in Int /\ On(A, "5010", paper.cogs) \in Int
      /\ On(A, "1030", 0 - paper.cogs) \in Int
  BY OnInt
<1>10. Weighed(A, {a, b, c, d, e}) = 0 - SaleOn(A, paper, tax)
  BY <1>2, <1>7, <1>8, <1>9 DEF SaleOn, M
<1>11. \A l \in {a, b, c, d, e} : l.account \in Accounts
  BY <1>1, <1>2 DEF Accounts, Assets, Liabilities, Earnings
<1> QED BY <1>3, <1>7, <1>10, <1>11

\* What the event of a step puts on some accounts.
EventOn(A, x, paper, tax) ==
  CASE x = "ORD"     -> SaleOn(A, paper, tax)
    [] x \in {"VOID", "REFUND"} -> 0 - SaleOn(A, paper, tax)
    [] x = "PO"      -> On(A, "1030", paper.standard) + On(A, "5035", paper.total - paper.standard)
                          + On(A, "2010", 0 - paper.total)
    [] x = "PAY"     -> On(A, "2010", paper.total) + On(A, "1010", 0 - paper.total)
    [] x = "PROD"    -> On(A, "1030", paper.finished - paper.raw)
                          + On(A, "5030", paper.raw - paper.finished)
    [] x = "PAYROLL" -> On(A, "5020", paper.gross) + On(A, "1010", 0 - paper.net)
                          + On(A, "2030", paper.net - paper.gross)
    [] x = "EXP"     -> On(A, "5050", paper.amount) + On(A, "1010", 0 - paper.amount)
    [] x = "ADJ"     -> On(A, "1030", paper.value) + On(A, "5040", 0 - paper.value)

LinesOfStep(x, paper, tax) ==
  CASE x = "ORD"     -> Sold(paper, tax)
    [] x \in {"VOID", "REFUND"} -> Reversed(paper, tax)
    [] x = "PO"      -> Received(paper)
    [] x = "PAY"     -> SupplierPaid(paper)
    [] x = "PROD"    -> Produced(paper)
    [] x = "PAYROLL" -> WagesPaid(paper)
    [] x = "EXP"     -> ExpensePaid(paper)
    [] x = "ADJ"     -> StockAdjusted(paper)

\* The lines S are in order, and put this much on A.
Puts(S, A, amount) == Lines(S) /\ Weighed(A, S) = amount /\ \A l \in S : l.account \in Accounts

LEMMA ReceivedPuts ==
  ASSUME NEW paper, paper.total \in Nat, paper.standard \in Nat, NEW A
  PROVE  Puts(Received(paper), A, EventOn(A, "PO", paper, 0))
<1>1. PICK a : a = Dr("1030", paper.standard)
  OBVIOUS
<1>2. PICK b : b = Dr("5035", paper.total - paper.standard)
  OBVIOUS
<1>3. PICK c : c = Cr("2010", paper.total)
  OBVIOUS
<1>4. /\ a.account = "1030" /\ a.amount = paper.standard
      /\ b.account = "5035" /\ b.amount = paper.total - paper.standard
      /\ c.account = "2010" /\ c.amount = 0 - paper.total
  BY <1>1, <1>2, <1>3, LineIs
<1>5. Received(paper) = {a, b, c}
  BY <1>1, <1>2, <1>3 DEF Received
<1>6. ThreeApart(a, b, c)
  BY <1>4 DEF ThreeApart
<1>11. ThreeWeigh(A, a, b, c)
  BY <1>6, ThreeLines
<1>7. /\ Lines({a, b, c})
      /\ Weighed(A, {a, b, c}) = On(A, a.account, a.amount) + On(A, b.account, b.amount)
                                    + On(A, c.account, c.amount)
  BY <1>11 DEF ThreeWeigh
<1>8. Weighed(A, {a, b, c}) = EventOn(A, "PO", paper, 0)
  BY <1>4, <1>7 DEF EventOn
<1>9. \A l \in {a, b, c} : l.account \in Accounts
  BY <1>4 DEF Accounts, Assets, Liabilities, Earnings
<1> QED BY <1>5, <1>7, <1>8, <1>9 DEF Puts

LEMMA WagesPut ==
  ASSUME NEW paper, paper.gross \in Nat, paper.net \in Nat, NEW A
  PROVE  Puts(WagesPaid(paper), A, EventOn(A, "PAYROLL", paper, 0))
<1>1. PICK a : a = Dr("5020", paper.gross)
  OBVIOUS
<1>2. PICK b : b = Cr("1010", paper.net)
  OBVIOUS
<1>3. PICK c : c = Cr("2030", paper.gross - paper.net)
  OBVIOUS
<1>4. /\ a.account = "5020" /\ a.amount = paper.gross
      /\ b.account = "1010" /\ b.amount = 0 - paper.net
      /\ c.account = "2030" /\ c.amount = 0 - (paper.gross - paper.net)
  BY <1>1, <1>2, <1>3, LineIs
<1>5. WagesPaid(paper) = {a, b, c}
  BY <1>1, <1>2, <1>3 DEF WagesPaid
<1>6. ThreeApart(a, b, c)
  BY <1>4 DEF ThreeApart
<1>11. ThreeWeigh(A, a, b, c)
  BY <1>6, ThreeLines
<1>7. /\ Lines({a, b, c})
      /\ Weighed(A, {a, b, c}) = On(A, a.account, a.amount) + On(A, b.account, b.amount)
                                    + On(A, c.account, c.amount)
  BY <1>11 DEF ThreeWeigh
<1>8. c.amount = paper.net - paper.gross
  BY <1>4
<1>9. Weighed(A, {a, b, c}) = EventOn(A, "PAYROLL", paper, 0)
  BY <1>4, <1>7, <1>8 DEF EventOn
<1>10. \A l \in {a, b, c} : l.account \in Accounts
  BY <1>4 DEF Accounts, Assets, Liabilities, Earnings
<1> QED BY <1>5, <1>7, <1>9, <1>10 DEF Puts

\* A job at cost has no lines; any other has two on the stock account.
LEMMA ProducedPuts ==
  ASSUME NEW paper, paper.raw \in Nat, paper.finished \in Nat, NEW A
  PROVE  Puts(Produced(paper), A, EventOn(A, "PROD", paper, 0))
<1>1. EventOn(A, "PROD", paper, 0) = On(A, "1030", paper.finished - paper.raw)
                                       + On(A, "5030", paper.raw - paper.finished)
  BY DEF EventOn
<1>2. CASE paper.finished = paper.raw
  <2>1. Produced(paper) = {}
    BY <1>2 DEF Produced
  <2>2. On(A, "1030", paper.finished - paper.raw) = 0 /\ On(A, "5030", paper.raw - paper.finished) = 0
    BY <1>2 DEF On
  <2> QED BY <1>1, <2>1, <2>2, NoLines DEF Puts
<1>3. CASE paper.finished # paper.raw
  <2>1. PICK a : a = Dr("1030", paper.finished)
    OBVIOUS
  <2>2. PICK b : b = Cr("1030", paper.raw)
    OBVIOUS
  <2>3. PICK c : c = Cr("5030", paper.finished - paper.raw)
    OBVIOUS
  <2>4. /\ a.account = "1030" /\ a.amount = paper.finished
        /\ b.account = "1030" /\ b.amount = 0 - paper.raw
        /\ c.account = "5030" /\ c.amount = 0 - (paper.finished - paper.raw)
    BY <2>1, <2>2, <2>3, LineIs
  <2>5. Produced(paper) = {a, b, c}
    BY <1>3, <2>1, <2>2, <2>3 DEF Produced
  <2>6. ThreeApart(a, b, c)
    BY <1>3, <2>4 DEF ThreeApart
  <2>11. ThreeWeigh(A, a, b, c)
    BY <2>6, ThreeLines
  <2>7. /\ Lines({a, b, c})
        /\ Weighed(A, {a, b, c}) = On(A, a.account, a.amount) + On(A, b.account, b.amount)
                                      + On(A, c.account, c.amount)
    BY <2>11 DEF ThreeWeigh
  <2>8. /\ c.amount = paper.raw - paper.finished
        /\ On(A, "1030", paper.finished - paper.raw) =
             On(A, "1030", paper.finished) + On(A, "1030", 0 - paper.raw)
    BY <2>4 DEF On
  <2>9. Weighed(A, {a, b, c}) = EventOn(A, "PROD", paper, 0)
    BY <1>1, <2>4, <2>7, <2>8
  <2>10. \A l \in {a, b, c} : l.account \in Accounts
    BY <2>4 DEF Accounts, Assets, Liabilities, Earnings
  <2> QED BY <2>5, <2>7, <2>9, <2>10 DEF Puts
<1> QED BY <1>2, <1>3

\* The entries of two lines.
LEMMA PairPuts ==
  ASSUME NEW to \in Accounts, NEW from \in Accounts, to # from, NEW amount \in Int, NEW A
  PROVE  Puts({Dr(to, amount), Cr(from, amount)}, A, On(A, to, amount) + On(A, from, 0 - amount))
<1>1. PICK a : a = Dr(to, amount)
  OBVIOUS
<1>2. PICK b : b = Cr(from, amount)
  OBVIOUS
<1>3. a.account = to /\ a.amount = amount /\ b.account = from /\ b.amount = 0 - amount
  BY <1>1, <1>2, LineIs
<1>4. a.amount \in Int /\ b.amount \in Int /\ a # b
  BY <1>3
<1>5. /\ Lines({a, b})
      /\ Weighed(A, {a, b}) = On(A, a.account, a.amount) + On(A, b.account, b.amount)
  BY <1>4, TwoLines
<1> QED BY <1>1, <1>2, <1>3, <1>5 DEF Puts

LEMMA StepPuts ==
  ASSUME NEW p \in Papers, NEW x, Suits(Terms[p].kind, x), NEW tax \in Nat, NEW A
  PROVE  Puts(LinesOfStep(x, Terms[p], tax), A, EventOn(A, x, Terms[p], tax))
<1>1. PICK paper : paper = Terms[p]
  OBVIOUS
<1>2. Priced(paper)
  BY <1>1, TermsAssumption
<1>3. CASE paper.kind = "sale" /\ x = "ORD"
  <2>1. paper.net \in Nat /\ paper.cogs \in Nat /\ paper.method \in DOMAIN MoneyAccount
    BY <1>2, <1>3 DEF Priced
  <2>2. Puts(Sold(paper, tax), A, SaleOn(A, paper, tax))
    BY <2>1, SoldWeighs DEF Puts
  <2> QED BY <1>1, <1>3, <2>2 DEF LinesOfStep, EventOn
<1>4. CASE paper.kind = "sale" /\ x \in {"VOID", "REFUND"}
  <2>1. paper.net \in Nat /\ paper.cogs \in Nat /\ paper.method \in DOMAIN MoneyAccount
    BY <1>2, <1>4 DEF Priced
  <2>2. Puts(Reversed(paper, tax), A, 0 - SaleOn(A, paper, tax))
    BY <2>1, ReversedWeighs DEF Puts
  <2> QED BY <1>1, <1>4, <2>2 DEF LinesOfStep, EventOn
<1>5. CASE paper.kind = "purchase" /\ x = "PO"
  <2>1. paper.total \in Nat /\ paper.standard \in Nat
    BY <1>2, <1>5 DEF Priced
  <2>2. Puts(Received(paper), A, EventOn(A, "PO", paper, 0))
    BY <2>1, ReceivedPuts
  <2> QED BY <1>1, <1>5, <2>2 DEF LinesOfStep, EventOn
<1>6. CASE paper.kind = "purchase" /\ x = "PAY"
  <2>1. paper.total \in Int
    BY <1>2, <1>6 DEF Priced
  <2>2. Puts(SupplierPaid(paper), A, On(A, "2010", paper.total) + On(A, "1010", 0 - paper.total))
    BY <2>1, PairPuts DEF SupplierPaid, Accounts, Assets, Liabilities
  <2> QED BY <1>1, <1>6, <2>2 DEF LinesOfStep, EventOn
<1>7. CASE paper.kind = "job" /\ x = "PROD"
  <2>1. paper.raw \in Nat /\ paper.finished \in Nat
    BY <1>2, <1>7 DEF Priced
  <2>2. Puts(Produced(paper), A, EventOn(A, "PROD", paper, 0))
    BY <2>1, ProducedPuts
  <2> QED BY <1>1, <1>7, <2>2 DEF LinesOfStep, EventOn
<1>8. CASE paper.kind = "payroll" /\ x = "PAYROLL"
  <2>1. paper.gross \in Nat /\ paper.net \in Nat
    BY <1>2, <1>8 DEF Priced
  <2>2. Puts(WagesPaid(paper), A, EventOn(A, "PAYROLL", paper, 0))
    BY <2>1, WagesPut
  <2> QED BY <1>1, <1>8, <2>2 DEF LinesOfStep, EventOn
<1>9. CASE paper.kind = "expense" /\ x = "EXP"
  <2>1. paper.amount \in Int
    BY <1>2, <1>9 DEF Priced
  <2>2. Puts(ExpensePaid(paper), A, On(A, "5050", paper.amount) + On(A, "1010", 0 - paper.amount))
    BY <2>1, PairPuts DEF ExpensePaid, Accounts, Assets, Earnings
  <2> QED BY <1>1, <1>9, <2>2 DEF LinesOfStep, EventOn
<1>10. CASE paper.kind = "adjustment" /\ x = "ADJ"
  <2>1. paper.value \in Int
    BY <1>2, <1>10 DEF Priced
  <2>2. Puts(StockAdjusted(paper), A, On(A, "1030", paper.value) + On(A, "5040", 0 - paper.value))
    BY <2>1, PairPuts DEF StockAdjusted, Accounts, Assets, Earnings
  <2> QED BY <1>1, <1>10, <2>2 DEF LinesOfStep, EventOn
<1> QED BY <1>1, <1>3, <1>4, <1>5, <1>6, <1>7, <1>8, <1>9, <1>10 DEF Suits

\* Over the whole chart of accounts, an event puts nothing.
LEMMA StepBalances ==
  ASSUME NEW p \in Papers, NEW x, Suits(Terms[p].kind, x), NEW tax \in Nat
  PROVE  EventOn(Accounts, x, Terms[p], tax) = 0
<1>1. PICK paper : paper = Terms[p]
  OBVIOUS
<1>2. Priced(paper)
  BY <1>1, TermsAssumption
<1>3. \A account \in Accounts : \A amount : On(Accounts, account, amount) = amount
  BY DEF On
<1>4. {"1010", "1030", "1040", "1050", "2010", "2020", "2030", "4010", "5010", "5020", "5030", "5035",
       "5040", "5050"} \subseteq Accounts
  BY DEF Accounts, Assets, Liabilities, Earnings
<1>5. CASE paper.kind = "sale"
  <2>1. paper.net \in Nat /\ paper.cogs \in Nat /\ paper.method \in DOMAIN MoneyAccount
    BY <1>2, <1>5 DEF Priced
  <2>2. MoneyAccount[paper.method] \in Accounts
    BY <2>1, <1>4, MoneyIs
  <2>3. SaleOn(Accounts, paper, tax) = paper.net + (tax - paper.net) + (0 - tax) + paper.cogs + (0 - paper.cogs)
    BY <1>3, <1>4, <2>2 DEF SaleOn
  <2>4. SaleOn(Accounts, paper, tax) = 0
    BY <2>1, <2>3
  <2> QED BY <1>1, <1>5, <2>4 DEF EventOn, Suits
<1>6. CASE paper.kind = "purchase"
  <2>1. paper.total \in Nat /\ paper.standard \in Nat
    BY <1>2, <1>6 DEF Priced
  <2>2. /\ On(Accounts, "1030", paper.standard) = paper.standard
        /\ On(Accounts, "5035", paper.total - paper.standard) = paper.total - paper.standard
        /\ On(Accounts, "2010", 0 - paper.total) = 0 - paper.total
        /\ On(Accounts, "2010", paper.total) = paper.total
        /\ On(Accounts, "1010", 0 - paper.total) = 0 - paper.total
    BY <1>3, <1>4
  <2> QED BY <1>1, <1>6, <2>1, <2>2 DEF EventOn, Suits
<1>7. CASE paper.kind = "job"
  <2>1. paper.raw \in Nat /\ paper.finished \in Nat
    BY <1>2, <1>7 DEF Priced
  <2>2. /\ On(Accounts, "1030", paper.finished - paper.raw) = paper.finished - paper.raw
        /\ On(Accounts, "5030", paper.raw - paper.finished) = paper.raw - paper.finished
    BY <1>3, <1>4
  <2> QED BY <1>1, <1>7, <2>1, <2>2 DEF EventOn, Suits
<1>8. CASE paper.kind = "payroll"
  <2>1. paper.gross \in Nat /\ paper.net \in Nat
    BY <1>2, <1>8 DEF Priced
  <2>2. /\ On(Accounts, "5020", paper.gross) = paper.gross
        /\ On(Accounts, "1010", 0 - paper.net) = 0 - paper.net
        /\ On(Accounts, "2030", paper.net - paper.gross) = paper.net - paper.gross
    BY <1>3, <1>4
  <2> QED BY <1>1, <1>8, <2>1, <2>2 DEF EventOn, Suits
<1>9. CASE paper.kind = "expense"
  <2>1. paper.amount \in Nat
    BY <1>2, <1>9 DEF Priced
  <2>2. /\ On(Accounts, "5050", paper.amount) = paper.amount
        /\ On(Accounts, "1010", 0 - paper.amount) = 0 - paper.amount
    BY <1>3, <1>4
  <2> QED BY <1>1, <1>9, <2>1, <2>2 DEF EventOn, Suits
<1>10. CASE paper.kind = "adjustment"
  <2>1. paper.value \in Int
    BY <1>2, <1>10 DEF Priced
  <2>2. /\ On(Accounts, "1030", paper.value) = paper.value
        /\ On(Accounts, "5040", 0 - paper.value) = 0 - paper.value
    BY <1>3, <1>4
  <2> QED BY <1>1, <1>10, <2>1, <2>2 DEF EventOn, Suits
<1> QED BY <1>1, <1>5, <1>6, <1>7, <1>8, <1>9, <1>10 DEF Suits

\* The lines of an event: what they put on some accounts, and that they balance.
LEMMA FactLines ==
  ASSUME NEW p \in Papers, NEW x, Suits(Terms[p].kind, x), NEW tax \in Nat, NEW A
  PROVE  /\ SumOf({l \in LinesOfFact(Fact(<<x, p>>, tax)) : l.account \in A}) = EventOn(A, x, Terms[p], tax)
         /\ SumOf(LinesOfFact(Fact(<<x, p>>, tax))) = 0
         /\ IsFiniteSet(LinesOfFact(Fact(<<x, p>>, tax)))
         /\ \A l \in LinesOfFact(Fact(<<x, p>>, tax)) : l.account \in Accounts /\ l.amount \in Int
<1> DEFINE S == LinesOfStep(x, Terms[p], tax)
           T == LinesOfFact(Fact(<<x, p>>, tax))
<1>1. T = {l \in S : l.amount # 0}
  <2>1. PICK f : f = Fact(<<x, p>>, tax)
    OBVIOUS
  <2>2. f.key[1] = x /\ f.key[2] = p /\ f.tax = tax
    BY <2>1 DEF Fact
  <2> QED BY <2>1, <2>2 DEF LinesOfFact, LinesOfStep
<1>2. Puts(S, A, EventOn(A, x, Terms[p], tax)) /\ Puts(S, Accounts, EventOn(Accounts, x, Terms[p], tax))
  BY StepPuts
<1> HIDE DEF S, T
<1>3. SumOf({l \in T : l.account \in A}) = EventOn(A, x, Terms[p], tax)
  BY <1>1, <1>2, LinesWeigh DEF Puts
<1>4. SumOf(T) = 0
  BY <1>1, <1>2, AllLines, StepBalances DEF Puts
<1>5. IsFiniteSet(T) /\ \A l \in T : l.account \in Accounts /\ l.amount \in Int
  BY <1>1, <1>2, FS_Subset DEF Puts, Lines
<1> QED BY <1>3, <1>4, <1>5 DEF T

-------------------------------------------------------------------------------
(* The papers and their events, step by step.                              *)

LEMMA JournalRowsApart ==
  ASSUME NEW p \in Papers
  PROVE  /\ Paper(p) \in Rows /\ Rate \in Rows /\ Paper(p) # Rate /\ Paper(p)[2] = p
         /\ \A q \in Papers : Paper(p) = Paper(q) => p = q
<1>1. Paper(p) \in Rows /\ Rate \in Rows
  BY RowsAssumption DEF AllRows, JournalRows
<1>2. <<"paper", p>> # <<"rate">> /\ <<"paper", p>>[2] = p
  OBVIOUS
<1>3. \A q \in Papers : <<"paper", p>> = <<"paper", q>> => p = q
  OBVIOUS
<1> QED BY <1>1, <1>2, <1>3 DEF Paper, Rate

LEMMA RateRow == Rate \in Rows
BY RowsAssumption DEF AllRows, JournalRows

LEMMA TellsSuits ==
  ASSUME NEW kind, NEW x, NEW st, Tells(kind, x, st) PROVE Suits(kind, x) /\ x \in Prefixes /\ st # "none"
BY DEF Tells, Suits, Prefixes

\* A step tells of itself, and of nothing else anew.
LEMMA CourseTells ==
  ASSUME NEW p \in Papers, NEW turn \in Turns(p)
  PROVE  /\ turn[2] \in Stages(Terms[p].kind) /\ turn[3] \in Stages(Terms[p].kind)
         /\ Tells(Terms[p].kind, turn[1], turn[3])
         /\ \A x : Tells(Terms[p].kind, x, turn[3]) => x = turn[1] \/ Tells(Terms[p].kind, x, turn[2])
         /\ \A x : Tells(Terms[p].kind, x, turn[2]) => Tells(Terms[p].kind, x, turn[3])
         /\ turn[1] = "ORD" => Terms[p].kind = "sale" /\ turn[2] = "none"
<1>1. PICK kind : kind = Terms[p].kind
  OBVIOUS
<1>2. kind \in DOMAIN Course /\ turn \in Course[kind]
  BY <1>1, TermsAssumption DEF Turns
<1>3. kind \in {"sale", "purchase", "job", "payroll", "expense", "adjustment"}
  BY <1>2 DEF Course
<1>4. CASE kind = "sale"
  <2>1. turn \in {<<"ORD", "none", "SOLD">>, <<"VOID", "SOLD", "CANCELLED">>, <<"REFUND", "SOLD", "REFUNDED">>}
    BY <1>2, <1>4 DEF Course
  <2> QED BY <1>1, <1>4, <2>1 DEF Stages, Tells
<1>5. CASE kind = "purchase"
  <2>1. turn \in {<<"PO", "none", "UNPAID">>, <<"PAY", "UNPAID", "PAID">>}
    BY <1>2, <1>5 DEF Course
  <2> QED BY <1>1, <1>5, <2>1 DEF Stages, Tells
<1>6. CASE kind = "job"
  <2>1. turn \in {<<"PROD", "none", "COMPLETED">>}
    BY <1>2, <1>6 DEF Course
  <2> QED BY <1>1, <1>6, <2>1 DEF Stages, Tells
<1>7. CASE kind = "payroll"
  <2>1. turn \in {<<"PAYROLL", "none", "APPROVED">>}
    BY <1>2, <1>7 DEF Course
  <2> QED BY <1>1, <1>7, <2>1 DEF Stages, Tells
<1>8. CASE kind = "expense"
  <2>1. turn \in {<<"EXP", "none", "PAID">>}
    BY <1>2, <1>8 DEF Course
  <2> QED BY <1>1, <1>8, <2>1 DEF Stages, Tells
<1>9. CASE kind = "adjustment"
  <2>1. turn \in {<<"ADJ", "none", "APPLIED">>}
    BY <1>2, <1>9 DEF Course
  <2> QED BY <1>1, <1>9, <2>1 DEF Stages, Tells
<1> QED BY <1>3, <1>4, <1>5, <1>6, <1>7, <1>8, <1>9

LEMMA JournalInitInv == ASSUME Init PROVE JournalInv
<1>1. RowShape /\ RequestShape
  BY StartShape
<1>2. ASSUME NEW r \in JournalRows PROVE committed[r] = JournalInitial(r)
  <2>1. /\ r \notin StockCountRows /\ r \notin ProductionRows /\ r \notin ReorderRows
        /\ r \notin SettlementRows /\ r \notin StaffRows /\ r \notin LoyaltyRows
    BY <1>2, RowKinds
  <2>2. InitialOf(r) = JournalInitial(r)
    BY <1>2, <2>1 DEF InitialOf
  <2>3. r \in Rows
    BY <1>2, RowsAssumption DEF AllRows
  <2> QED BY <2>2, <2>3 DEF Init, ServiceInit, Initial
<1>3. committed[Rate] \in Rates
  BY <1>2, JournalAssumption DEF JournalRows, JournalInitial
<1>4. ASSUME NEW p \in Papers PROVE committed[Paper(p)] = Unwritten
  BY <1>2, JournalRowsApart DEF JournalRows, JournalInitial
<1>5. ASSUME NEW p \in Papers PROVE Stage(p) = "none" /\ TaxOf(p) = 0
  BY <1>4 DEF Stage, TaxOf, Unwritten
<1>6. ASSUME NEW p \in Papers
      PROVE  /\ committed[Paper(p)] = [st |-> Stage(p), tax |-> TaxOf(p)]
             /\ Stage(p) \in Stages(Terms[p].kind) /\ TaxOf(p) \in Nat
  <2>1. committed[Paper(p)] = [st |-> "none", tax |-> 0]
    BY <1>4 DEF Unwritten
  <2>2. Terms[p].kind \in {"sale", "purchase", "job", "payroll", "expense", "adjustment"}
    BY TermsAssumption DEF Course
  <2>3. "none" \in Stages(Terms[p].kind)
    BY <2>2 DEF Stages
  <2> QED BY <1>5, <2>1, <2>3
<1>7. DOMAIN log = {}
  BY DEF Init, ServiceInit
<1>8. JournalTypes
  <2>1. \A t \in Txns : tx[t].op = "none" /\ tx[t].pc = "none"
    BY DEF Init, ServiceInit, Idle
  <2>2. db = committed /\ \A r \in Rows : lock[r] = NoTxn
    BY DEF Init, ServiceInit
  <2> QED BY <1>1, <1>3, <1>6, <1>7, <2>1, <2>2, FS_EmptySet DEF JournalTypes
<1>9. FactsTold
  BY <1>5, <1>7, TellsSuits DEF FactsTold, Facts, Happened
<1>10. EntriesPosted /\ HandledPosted
  BY <1>7 DEF EntriesPosted, JournalEntries, HandledPosted
<1> QED BY <1>8, <1>9, <1>10 DEF JournalInv, JournalBooks

\* An event is that of one step of one paper, and is told by its key.
LEMMA FactIs ==
  ASSUME JournalBooks, NEW f \in Facts
  PROVE  \E p \in Papers, x \in Prefixes :
           /\ Happened(x, p) /\ Suits(Terms[p].kind, x) /\ TaxOf(p) \in Nat
           /\ f = Fact(<<x, p>>, TaxOf(p)) /\ f.key = <<x, p>>
           /\ \A g \in Facts : g.key = f.key => g = f
<1>1. PICK p \in Papers, x \in Prefixes : Happened(x, p) /\ f = FactOf(x, p)
  BY DEF JournalBooks, FactsTold
<1>2. f = Fact(<<x, p>>, TaxOf(p)) /\ f.key = <<x, p>>
  BY <1>1 DEF FactOf, Fact
<1>3. Suits(Terms[p].kind, x) /\ TaxOf(p) \in Nat
  BY <1>1, TellsSuits DEF Happened, JournalBooks, JournalTypes
<1>4. ASSUME NEW g \in Facts, g.key = f.key PROVE g = f
  <2>1. PICK q \in Papers, y \in Prefixes : Happened(y, q) /\ g = FactOf(y, q)
    BY DEF JournalBooks, FactsTold
  <2>2. g.key = <<y, q>>
    BY <2>1 DEF FactOf, Fact
  <2>3. y = x /\ q = p
    BY <1>2, <1>4, <2>2
  <2> QED BY <1>1, <2>1, <2>3
<1> QED BY <1>1, <1>2, <1>3, <1>4

\* A step that leaves the papers as they are, and logs no event.
LEMMA PapersSame ==
  ASSUME JournalBooks, \A p \in Papers : committed'[Paper(p)] = committed[Paper(p)],
         NEW entries, \A e \in entries : e.kind # "fact", DOMAIN log' = DOMAIN log \union entries
  PROVE  /\ FactsTold' /\ Facts' = Facts
         /\ \A p \in Papers : Stage(p)' = Stage(p) /\ TaxOf(p)' = TaxOf(p)
<1>1. \A p \in Papers : Stage(p)' = Stage(p) /\ TaxOf(p)' = TaxOf(p)
  BY DEF Stage, TaxOf
<1>2. \A p \in Papers : \A x : FactOf(x, p)' = FactOf(x, p) /\ (Happened(x, p)' <=> Happened(x, p))
  BY <1>1 DEF FactOf, Happened
<1>3. Facts' = Facts
  BY DEF Facts
<1>4. \A f \in Facts' : \E p \in Papers, x \in Prefixes : Happened(x, p)' /\ f = FactOf(x, p)'
  BY <1>2, <1>3 DEF JournalBooks, FactsTold
<1>5. \A p \in Papers, x \in Prefixes : Happened(x, p)' => FactOf(x, p)' \in DOMAIN log'
  BY <1>2 DEF JournalBooks, FactsTold
<1> QED BY <1>1, <1>3, <1>4, <1>5 DEF FactsTold

LEMMA RateKeeps == ASSUME JournalBooks, ChangeRate PROVE JournalBooks'
<1>1. PICK rate \in Rates : Single /\ Put(Rate, rate) /\ UNCHANGED <<log, raced>>
  BY DEF ChangeRate
<1>2. JournalTypes
  BY DEF JournalBooks
<1>3. /\ lock' = lock /\ RowShape' /\ db'[Rate] = rate /\ committed'[Rate] = rate
      /\ \A r \in Rows \ {Rate} : db'[r] = db[r] /\ committed'[r] = committed[r]
  BY <1>1, <1>2, RateRow, PutDoes DEF JournalTypes
<1>4. \A p \in Papers : committed'[Paper(p)] = committed[Paper(p)]
  BY <1>3, JournalRowsApart
<1>5. /\ FactsTold' /\ Facts' = Facts
      /\ \A p \in Papers : Stage(p)' = Stage(p) /\ TaxOf(p)' = TaxOf(p)
  <2>1. PICK none : none = {}
    OBVIOUS
  <2>2. DOMAIN log' = DOMAIN log \union none /\ \A e \in none : e.kind # "fact"
    BY <1>1, <2>1
  <2> QED BY <1>4, <2>2, PapersSame
<1>6. EntriesPosted' /\ HandledPosted'
  BY <1>1, <1>5 DEF JournalBooks, EntriesPosted, HandledPosted, JournalEntries
<1>7. RequestShape' /\ \A t \in Txns : tx'[t] = tx[t]
  BY <1>1, <1>2, SameRequests DEF JournalTypes, Single
<1>8. db' = committed'
  BY <1>2, <1>3, RateRow DEF JournalTypes, RowShape
<1>9. JournalTypes'
  BY <1>1, <1>2, <1>3, <1>4, <1>5, <1>7, <1>8 DEF JournalTypes
<1> QED BY <1>5, <1>6, <1>9 DEF JournalBooks

\* A paper goes on: one event is new, those of its earlier steps stay true.
LEMMA ProceedKeeps ==
  ASSUME JournalBooks, NEW p \in Papers, NEW turn \in Turns(p), Proceed(p, turn)
  PROVE  JournalBooks'
<1> DEFINE kind == Terms[p].kind
           x == turn[1]
<1>1. JournalTypes
  BY DEF JournalBooks
<1>2. PICK tax : /\ tax = IF x = "ORD" THEN TaxIn(Terms[p].net, committed[Rate]) ELSE TaxOf(p)
  OBVIOUS
<1>3. PICK new : new = [st |-> turn[3], tax |-> tax]
  OBVIOUS
<1>4. PICK entries : entries = IF Announced(p) THEN {Fact(<<x, p>>, tax)} ELSE {}
  OBVIOUS
<1>5. /\ Stage(p) = turn[2] /\ Single /\ Put(Paper(p), new) /\ Logged(entries)
  BY <1>2, <1>3, <1>4 DEF Proceed, Stage, TaxOf
<1>6. /\ lock' = lock /\ RowShape' /\ db'[Paper(p)] = new /\ committed'[Paper(p)] = new
      /\ \A r \in Rows \ {Paper(p)} : db'[r] = db[r] /\ committed'[r] = committed[r]
  BY <1>1, <1>5, JournalRowsApart, PutDoes DEF JournalTypes
<1>7. DOMAIN log' = DOMAIN log \union entries
  BY <1>5, LoggedDoes
<1>8. /\ turn[3] \in Stages(kind) /\ Tells(kind, x, turn[3])
      /\ \A y : Tells(kind, y, turn[3]) => y = x \/ Tells(kind, y, turn[2])
      /\ \A y : Tells(kind, y, turn[2]) => Tells(kind, y, turn[3])
      /\ x = "ORD" => kind = "sale" /\ turn[2] = "none"
  BY CourseTells
<1> HIDE DEF kind, x
<1>9. tax \in Nat
  <2>1. CASE x = "ORD"
    <3>1. Terms[p].net \in Nat
      BY <1>8, <2>1, TermsAssumption DEF Priced, kind
    <3>2. committed[Rate] \in Nat
      BY <1>1, JournalAssumption DEF JournalTypes
    <3> QED BY <1>2, <2>1, <3>1, <3>2, TaxNat
  <2>2. CASE x # "ORD"
    BY <1>1, <1>2, <2>2 DEF JournalTypes
  <2> QED BY <2>1, <2>2
<1>10. Stage(p)' = turn[3] /\ TaxOf(p)' = tax
  BY <1>3, <1>6 DEF Stage, TaxOf
<1>11. ASSUME NEW q \in Papers, q # p
       PROVE  committed'[Paper(q)] = committed[Paper(q)] /\ Stage(q)' = Stage(q) /\ TaxOf(q)' = TaxOf(q)
  <2>1. Paper(q) \in Rows \ {Paper(p)}
    BY <1>11, JournalRowsApart
  <2> QED BY <1>6, <2>1 DEF Stage, TaxOf
<1>12. ASSUME NEW q \in Papers, NEW y \in Prefixes, Happened(y, q)
       PROVE  Happened(y, q)' /\ FactOf(y, q)' = FactOf(y, q)
  <2>1. CASE q # p
    BY <1>11, <1>12, <2>1 DEF Happened, FactOf
  <2>2. CASE q = p
    <3>1. Tells(kind, y, turn[2]) /\ Announced(p)
      BY <1>5, <1>12, <2>2 DEF Happened, kind
    <3>2. turn[2] # "none"
      BY <3>1, TellsSuits
    <3>3. tax = TaxOf(p)
      BY <1>2, <1>8, <3>2
    <3> QED BY <1>8, <1>10, <2>2, <3>1, <3>3 DEF Happened, FactOf, kind
  <2> QED BY <2>1, <2>2
<1>13. x \in Prefixes
  BY <1>8, TellsSuits
<1>14. Announced(p) => Happened(x, p)' /\ FactOf(x, p)' \in entries
  BY <1>4, <1>8, <1>10 DEF Happened, FactOf, kind
<1>15. Facts' = Facts \union entries
  BY <1>4, <1>7 DEF Facts, Fact
<1>16. FactsTold'
  <2>1. ASSUME NEW f \in Facts' PROVE \E q \in Papers, y \in Prefixes : Happened(y, q)' /\ f = FactOf(y, q)'
    <3>1. CASE f \in Facts
      BY <1>12, <3>1 DEF JournalBooks, FactsTold
    <3>2. CASE f \in entries
      <4>1. Announced(p) /\ f = Fact(<<x, p>>, tax)
        BY <1>4, <3>2
      <4>2. f = FactOf(x, p)'
        BY <1>10, <4>1 DEF FactOf
      <4> QED BY <1>13, <1>14, <4>1, <4>2
    <3> QED BY <1>15, <3>1, <3>2
  <2>2. ASSUME NEW q \in Papers, NEW y \in Prefixes, Happened(y, q)' PROVE FactOf(y, q)' \in DOMAIN log'
    <3>1. CASE Happened(y, q)
      BY <1>7, <1>12, <3>1 DEF JournalBooks, FactsTold
    <3>2. CASE ~Happened(y, q)
      <4>1. q = p
        BY <1>11, <2>2, <3>2 DEF Happened
      <4>2. Tells(kind, y, turn[3]) /\ Announced(p)
        BY <1>10, <2>2, <4>1 DEF Happened, kind
      <4>3. ~Tells(kind, y, turn[2])
        BY <1>5, <3>2, <4>1, <4>2 DEF Happened, kind
      <4>4. y = x
        BY <1>8, <4>2, <4>3
      <4> QED BY <1>7, <1>14, <4>1, <4>2, <4>4
    <3> QED BY <3>1, <3>2
  <2> QED BY <2>1, <2>2 DEF FactsTold
<1>17. \A e \in entries : e.kind = "fact"
  BY <1>4 DEF Fact
<1>18. EntriesPosted'
  <2>1. JournalEntries' = JournalEntries
    BY <1>7, <1>17 DEF JournalEntries
  <2> QED BY <1>15, <2>1 DEF JournalBooks, EntriesPosted
<1>19. HandledPosted'
  <2>1. ASSUME NEW e \in DOMAIN log', e.kind = "handled"
        PROVE  \E f \in Facts' : e = Handled(f.key) /\ (LinesOfFact(f) = {} \/ EntryOf(f) \in DOMAIN log')
    <3>1. e \in DOMAIN log
      BY <1>7, <1>17, <2>1
    <3>2. PICK f \in Facts : e = Handled(f.key) /\ (LinesOfFact(f) = {} \/ EntryOf(f) \in DOMAIN log)
      BY <2>1, <3>1 DEF JournalBooks, HandledPosted
    <3> QED BY <1>7, <1>15, <3>2
  <2> QED BY <2>1 DEF HandledPosted
<1>20. RequestShape' /\ \A t \in Txns : tx'[t] = tx[t]
  BY <1>1, <1>5, SameRequests DEF JournalTypes, Single
<1>21. JournalTypes'
  <2>1. db' = committed'
    BY <1>1, <1>6, JournalRowsApart DEF JournalTypes, RowShape
  <2>2. committed'[Rate] \in Rates
    BY <1>1, <1>6, JournalRowsApart DEF JournalTypes
  <2>3. ASSUME NEW q \in Papers
        PROVE  /\ committed'[Paper(q)] = [st |-> Stage(q)', tax |-> TaxOf(q)']
               /\ Stage(q)' \in Stages(Terms[q].kind) /\ TaxOf(q)' \in Nat
    <3>1. CASE q = p
      BY <1>3, <1>6, <1>8, <1>9, <1>10, <3>1 DEF kind
    <3>2. CASE q # p
      BY <1>1, <1>11, <3>2 DEF JournalTypes
    <3> QED BY <3>1, <3>2
  <2>4. IsFiniteSet(DOMAIN log')
    <3>1. IsFiniteSet(entries)
      BY <1>4, FS_EmptySet, FS_Singleton
    <3> QED BY <1>1, <1>7, <3>1, FS_Union DEF JournalTypes
  <2> QED BY <1>1, <1>6, <1>20, <2>1, <2>2, <2>3, <2>4 DEF JournalTypes
<1> QED BY <1>16, <1>18, <1>19, <1>21 DEF JournalBooks

\* An event delivered once more adds nothing; delivered first, it posts its entry.
LEMMA DeliverKeeps == ASSUME JournalBooks, NEW f \in Facts, Deliver(f) PROVE JournalBooks'
<1>1. JournalTypes
  BY DEF JournalBooks
<1>2. PICK entries : entries = {Handled(f.key)} \union PostEntry(f)
  OBVIOUS
<1>3. Single /\ Logged(entries) /\ UNCHANGED <<db, committed, lock>>
  BY <1>2 DEF Deliver
<1>4. DOMAIN log' = DOMAIN log \union entries
  BY <1>3, LoggedDoes
<1>5. PICK p \in Papers, x \in Prefixes :
        /\ Suits(Terms[p].kind, x) /\ TaxOf(p) \in Nat /\ f = Fact(<<x, p>>, TaxOf(p))
        /\ \A g \in Facts : g.key = f.key => g = f
  BY FactIs
<1>6. SumOf(LinesOfFact(f)) = 0
  BY <1>5, FactLines
<1>7. PostEntry(f) = IF LinesOfFact(f) # {} /\ \A posted \in JournalEntries : posted.key # f.key
                       THEN {EntryOf(f)} ELSE {}
  BY <1>6 DEF PostEntry, EntryOf
<1>8. EntryOf(f).kind = "entry" /\ Handled(f.key).kind = "handled"
  BY DEF EntryOf, Entry, Handled
<1>9. \A e \in entries : e.kind # "fact"
  BY <1>2, <1>7, <1>8
<1>10. FactsTold' /\ Facts' = Facts /\ \A q \in Papers : Stage(q)' = Stage(q) /\ TaxOf(q)' = TaxOf(q)
  BY <1>3, <1>4, <1>9, PapersSame
<1>11. LinesOfFact(f) = {} \/ EntryOf(f) \in DOMAIN log'
  <2>1. CASE LinesOfFact(f) # {} /\ \A posted \in JournalEntries : posted.key # f.key
    BY <1>2, <1>4, <1>7, <2>1
  <2>2. CASE \E posted \in JournalEntries : posted.key = f.key
    <3>1. PICK posted \in JournalEntries : posted.key = f.key
      BY <2>2
    <3>2. PICK g \in Facts : posted = EntryOf(g)
      BY DEF JournalBooks, EntriesPosted
    <3>3. g.key = f.key
      BY <3>1, <3>2 DEF EntryOf, Entry
    <3>4. posted = EntryOf(f)
      BY <1>5, <3>2, <3>3
    <3> QED BY <1>4, <3>4 DEF JournalEntries
  <2> QED BY <2>1, <2>2
<1>12. EntriesPosted'
  <2>1. ASSUME NEW e \in JournalEntries' PROVE \E g \in Facts' : LinesOfFact(g) # {} /\ e = EntryOf(g)
    <3>1. CASE e \in JournalEntries
      BY <1>10, <3>1 DEF JournalBooks, EntriesPosted
    <3>2. CASE e \notin JournalEntries
      <4>1. e \in entries /\ e.kind = "entry"
        BY <1>4, <2>1, <3>2 DEF JournalEntries
      <4>2. e \in PostEntry(f)
        BY <1>2, <1>8, <4>1
      <4> QED BY <1>7, <1>10, <4>2
    <3> QED BY <3>1, <3>2
  <2> QED BY <2>1 DEF EntriesPosted
<1>13. HandledPosted'
  <2>1. ASSUME NEW e \in DOMAIN log', e.kind = "handled"
        PROVE  \E g \in Facts' : e = Handled(g.key) /\ (LinesOfFact(g) = {} \/ EntryOf(g) \in DOMAIN log')
    <3>1. CASE e \in DOMAIN log
      <4>1. PICK g \in Facts : e = Handled(g.key) /\ (LinesOfFact(g) = {} \/ EntryOf(g) \in DOMAIN log)
        BY <2>1, <3>1 DEF JournalBooks, HandledPosted
      <4> QED BY <1>4, <1>10, <4>1
    <3>2. CASE e \in entries
      <4>1. e = Handled(f.key)
        BY <1>2, <1>7, <1>8, <2>1, <3>2
      <4> QED BY <1>10, <1>11, <4>1
    <3> QED BY <1>4, <3>1, <3>2
  <2> QED BY <2>1 DEF HandledPosted
<1>14. JournalTypes'
  <2>1. RowShape' /\ RequestShape' /\ \A t \in Txns : tx'[t] = tx[t]
    BY <1>1, <1>3, SameRows, SameRequests DEF JournalTypes, Single
  <2>2. IsFiniteSet(DOMAIN log')
    <3>1. IsFiniteSet({Handled(f.key)}) /\ IsFiniteSet(PostEntry(f))
      BY <1>7, FS_EmptySet, FS_Singleton
    <3>2. IsFiniteSet(entries)
      BY <1>2, <3>1, FS_Union
    <3> QED BY <1>1, <1>4, <3>2, FS_Union DEF JournalTypes
  <2> QED BY <1>1, <1>3, <1>10, <2>1, <2>2 DEF JournalTypes
<1> QED BY <1>10, <1>12, <1>13, <1>14 DEF JournalBooks

\* A step that changes no row, no request and no entry.
LEMMA BooksSame ==
  ASSUME JournalBooks, UNCHANGED <<db, committed, lock, log, tx>> PROVE JournalBooks'
<1>1. JournalTypes
  BY DEF JournalBooks
<1>2. \A p \in Papers : committed'[Paper(p)] = committed[Paper(p)]
  OBVIOUS
<1>3. PICK none : none = {}
  OBVIOUS
<1>4. DOMAIN log' = DOMAIN log \union none /\ \A e \in none : e.kind # "fact"
  BY <1>3
<1>5. FactsTold' /\ Facts' = Facts /\ \A p \in Papers : Stage(p)' = Stage(p) /\ TaxOf(p)' = TaxOf(p)
  BY <1>2, <1>4, PapersSame
<1>6. EntriesPosted' /\ HandledPosted'
  BY <1>5 DEF JournalBooks, EntriesPosted, HandledPosted, JournalEntries
<1>7. RowShape' /\ RequestShape' /\ \A t \in Txns : tx'[t] = tx[t]
  BY <1>1, SameRows, SameRequests DEF JournalTypes
<1>8. JournalTypes'
  BY <1>1, <1>5, <1>7 DEF JournalTypes
<1> QED BY <1>5, <1>6, <1>8 DEF JournalBooks

LEMMA JournalNextInv == ASSUME JournalInv, [Next]_serviceVars PROVE JournalInv'
<1>1. CASE desk # "journal"
  BY <1>1, DeskStays DEF JournalInv
<1>2. CASE desk = "journal" /\ UNCHANGED serviceVars
  BY <1>2, BooksSame DEF JournalInv, serviceVars
<1>3. CASE desk = "journal" /\ Next
  <2>1. JournalBooks /\ JournalTypes
    BY <1>3 DEF JournalInv, JournalBooks
  <2>2. ASSUME NEW t \in Txns, Commit(t) \/ Abort(t, Lost(t)) PROVE FALSE
    BY <2>1, <2>2 DEF JournalTypes, Commit, Abort
  <2>3. JournalNext
    BY <1>3, <2>2 DEF Next
  <2>4. ASSUME NEW f \in Facts, Miss(f) PROVE JournalBooks'
    BY <2>1, <2>4, BooksSame DEF Miss, Single
  <2>5. JournalBooks'
    BY <2>1, <2>3, <2>4, RateKeeps, ProceedKeeps, DeliverKeeps DEF JournalNext
  <2> QED BY <2>5 DEF JournalInv
<1> QED BY <1>1, <1>2, <1>3

-------------------------------------------------------------------------------
(* The statements are sums over the papers.                                *)

PostedOn(A, e) == SumOf({l \in e.lines : l.account \in A})

LEMMA EntryIs ==
  ASSUME JournalBooks, NEW e \in JournalEntries
  PROVE  \E p \in Papers, x \in Prefixes :
           /\ Happened(x, p) /\ Suits(Terms[p].kind, x) /\ TaxOf(p) \in Nat
           /\ e = EntryOf(FactOf(x, p)) /\ e.key = <<x, p>>
           /\ e.lines = LinesOfFact(FactOf(x, p)) /\ e.lines # {}
<1>1. PICK f \in Facts : LinesOfFact(f) # {} /\ e = EntryOf(f)
  BY DEF JournalBooks, EntriesPosted
<1>2. PICK p \in Papers, x \in Prefixes :
        /\ Happened(x, p) /\ Suits(Terms[p].kind, x) /\ TaxOf(p) \in Nat
        /\ f = Fact(<<x, p>>, TaxOf(p)) /\ f.key = <<x, p>>
  BY FactIs
<1>3. f = FactOf(x, p)
  BY <1>2 DEF FactOf
<1>4. e.key = f.key /\ e.lines = LinesOfFact(f)
  BY <1>1 DEF EntryOf, Entry
<1> QED BY <1>1, <1>2, <1>3, <1>4

\* The lines of every entry posted balance, and are on accounts of the chart.
LEMMA EntryBalances ==
  ASSUME JournalBooks, NEW e \in JournalEntries
  PROVE  /\ IsFiniteSet(e.lines) /\ SumOf(e.lines) = 0
         /\ \A l \in e.lines : l.account \in Accounts /\ l.amount \in Int
<1>1. PICK p \in Papers, x \in Prefixes :
        /\ Suits(Terms[p].kind, x) /\ TaxOf(p) \in Nat
        /\ e.lines = LinesOfFact(FactOf(x, p))
  BY EntryIs
<1>2. e.lines = LinesOfFact(Fact(<<x, p>>, TaxOf(p)))
  BY <1>1 DEF FactOf
<1>3. PICK f : f = Fact(<<x, p>>, TaxOf(p))
  OBVIOUS
<1>4. /\ SumOf({l \in LinesOfFact(f) : l.account \in {}}) = EventOn({}, x, Terms[p], TaxOf(p))
      /\ SumOf(LinesOfFact(f)) = 0 /\ IsFiniteSet(LinesOfFact(f))
      /\ \A l \in LinesOfFact(f) : l.account \in Accounts /\ l.amount \in Int
  BY <1>1, <1>3, FactLines
<1> QED BY <1>2, <1>3, <1>4

LEMMA PostedInt ==
  ASSUME JournalBooks, NEW e \in JournalEntries, NEW A PROVE PostedOn(A, e) \in Int
<1> DEFINE T == {l \in e.lines : l.account \in A}
           g == [l \in T |-> l.amount]
<1>1. IsFiniteSet(e.lines) /\ \A l \in e.lines : l.amount \in Int
  BY EntryBalances
<1>2. IsFiniteSet(T) /\ \A l \in T : g[l] \in Int
  BY <1>1, FS_Subset
<1> HIDE DEF T, g
<1>3. SumFunctionOnSet(g, T) \in Int
  BY <1>2, SumInt
<1> QED BY <1>3 DEF PostedOn, SumOf, T, g

\* An entry splits over two halves of the chart.
LEMMA EntrySplits ==
  ASSUME JournalBooks, NEW e \in JournalEntries, NEW A, NEW B, A \intersect B = {}, A \union B = Accounts
  PROVE  PostedOn(A, e) + PostedOn(B, e) = 0
<1> DEFINE T == e.lines
           S == {l \in T : l.account \in A}
           R == {l \in T : l.account \in B}
           g == [l \in T |-> l.amount]
           gS == [l \in S |-> l.amount]
           gR == [l \in R |-> l.amount]
<1>1. IsFiniteSet(T) /\ SumOf(T) = 0 /\ \A l \in T : l.account \in Accounts /\ l.amount \in Int
  BY EntryBalances
<1>2. S \union R = T /\ S \intersect R = {}
  BY <1>1
<1>3. IsFiniteSet(S) /\ IsFiniteSet(R)
  BY <1>1, FS_Subset
<1>4. \A l \in T : g[l] \in Int
  BY <1>1
<1>5. (\A l \in S : gS[l] = g[l]) /\ (\A l \in R : gR[l] = g[l])
  OBVIOUS
<1>6. SumOf(T) = SumFunctionOnSet(g, T)
  BY DEF SumOf
<1>7. PostedOn(A, e) = SumFunctionOnSet(gS, S) /\ PostedOn(B, e) = SumFunctionOnSet(gR, R)
  BY DEF PostedOn, SumOf
<1> HIDE DEF T, S, R, g, gS, gR
<1>8. SumFunctionOnSet(g, S \union R) = SumFunctionOnSet(g, S) + SumFunctionOnSet(g, R)
  BY <1>2, <1>3, <1>4, SumUnion
<1>9. SumFunctionOnSet(gS, S) = SumFunctionOnSet(g, S) /\ SumFunctionOnSet(gR, R) = SumFunctionOnSet(g, R)
  BY <1>3, <1>5, SumAgrees
<1> QED BY <1>1, <1>2, <1>6, <1>7, <1>8, <1>9

\* A balance is the sum of one function of the entries, whatever the scope.
LEMMA BalanceIs ==
  ASSUME JournalBooks, NEW A, NEW scope, NEW g, g = [e \in JournalEntries |-> PostedOn(A, e)]
  PROVE  /\ IsFiniteSet(PostedFor(scope)) /\ \A e \in PostedFor(scope) : g[e] \in Int
         /\ Balance(A, scope) = SumFunctionOnSet(g, PostedFor(scope)) /\ Balance(A, scope) \in Int
<1> DEFINE S == PostedFor(scope)
           h == [e \in S |-> PostedOn(A, e)]
<1>1. S \subseteq JournalEntries
  BY DEF PostedFor
<1>2. IsFiniteSet(S)
  BY <1>1, FS_Subset DEF JournalBooks, JournalTypes, JournalEntries
<1>3. \A e \in S : h[e] = g[e] /\ g[e] \in Int
  BY <1>1, PostedInt
<1>4. Balance(A, scope) = SumFunctionOnSet(h, S)
  BY DEF Balance, PostedOn
<1> HIDE DEF S, h
<1>5. SumFunctionOnSet(h, S) = SumFunctionOnSet(g, S) /\ SumFunctionOnSet(g, S) \in Int
  BY <1>2, <1>3, SumAgrees, SumInt
<1> QED BY <1>2, <1>3, <1>4, <1>5 DEF S

\* The balance sheet balances at all times.
LEMMA SheetHolds == ASSUME JournalBooks, NEW scope PROVE SheetBalances(scope)
<1> DEFINE Rest == Liabilities \union Equity \union Earnings
           S == PostedFor(scope)
           zero == [e \in S |-> 0]
<1>1. Assets \intersect Rest = {} /\ Assets \union Rest = Accounts
  BY DEF Assets, Liabilities, Equity, Earnings, Accounts
<1>2. PICK g : g = [e \in JournalEntries |-> PostedOn(Assets, e)]
  OBVIOUS
<1>3. PICK h : h = [e \in JournalEntries |-> PostedOn(Rest, e)]
  OBVIOUS
<1> HIDE DEF Rest
<1>4. /\ IsFiniteSet(S) /\ \A e \in S : g[e] \in Int
      /\ Balance(Assets, scope) = SumFunctionOnSet(g, S) /\ Balance(Assets, scope) \in Int
  BY <1>2, BalanceIs
<1>5. /\ \A e \in S : h[e] \in Int
      /\ Balance(Rest, scope) = SumFunctionOnSet(h, S) /\ Balance(Rest, scope) \in Int
  BY <1>3, BalanceIs
<1>6. \A e \in S : zero[e] = 0 /\ zero[e] = g[e] + h[e]
  BY <1>1, <1>2, <1>3, EntrySplits DEF PostedFor
<1> HIDE DEF S, zero
<1>7. SumFunctionOnSet(zero, S) = 0
  BY <1>4, <1>6, SumZero
<1>8. SumFunctionOnSet(zero, S) = SumFunctionOnSet(g, S) + SumFunctionOnSet(h, S)
  <2>1. IsFiniteSet(S) /\ \A e \in S : g[e] \in Int /\ h[e] \in Int /\ zero[e] = g[e] + h[e]
    BY <1>4, <1>5, <1>6
  <2> QED BY <2>1, SumPlus
<1>9. Balance(Assets, scope) = 0 - Balance(Rest, scope)
  BY <1>4, <1>5, <1>7, <1>8
<1> QED BY <1>9 DEF SheetBalances, Rest

\* A balance is the sum of what each paper of the scope put there.
LEMMA BalanceByPaper ==
  ASSUME JournalBooks, NEW A, NEW scope \in SUBSET Papers,
         NEW G, G = [p \in Papers |-> Balance(A, {p})]
  PROVE  Balance(A, scope) = SumFunctionOnSet(G, scope)
<1>1. PICK g : g = [e \in JournalEntries |-> PostedOn(A, e)]
  OBVIOUS
<1> DEFINE F == {s \in SUBSET Papers : Balance(A, s) = SumFunctionOnSet(G, s)}
<1>2. \A s : /\ IsFiniteSet(PostedFor(s)) /\ \A e \in PostedFor(s) : g[e] \in Int
             /\ Balance(A, s) = SumFunctionOnSet(g, PostedFor(s)) /\ Balance(A, s) \in Int
  BY <1>1, BalanceIs
<1>3. \A p \in Papers : G[p] = Balance(A, {p}) /\ G[p] \in Int
  BY <1>2
<1>4. IsFiniteSet(Papers)
  BY JournalAssumption
<1>5. {} \in F
  <2>1. PostedFor({}) = {}
    BY DEF PostedFor
  <2>2. Balance(A, {}) = SumFunctionOnSet(g, {})
    BY <1>2, <2>1
  <2> QED BY <2>2, SumEmpty
<1>6. ASSUME NEW s \in SUBSET Papers, s # {}, \A p \in s : s \ {p} \in F PROVE s \in F
  <2>1. PICK p \in s : TRUE
    BY <1>6
  <2>2. PICK R : R = s \ {p}
    OBVIOUS
  <2>3. Balance(A, R) = SumFunctionOnSet(G, R)
    BY <1>6, <2>1, <2>2
  <2>4. PostedFor(s) = PostedFor(R) \union PostedFor({p}) /\ PostedFor(R) \intersect PostedFor({p}) = {}
    BY <2>1, <2>2 DEF PostedFor
  <2>5. /\ IsFiniteSet(PostedFor(R)) /\ IsFiniteSet(PostedFor({p}))
        /\ \A e \in PostedFor(R) \union PostedFor({p}) : g[e] \in Int
    BY <1>2
  <2>6. SumFunctionOnSet(g, PostedFor(R) \union PostedFor({p})) =
          SumFunctionOnSet(g, PostedFor(R)) + SumFunctionOnSet(g, PostedFor({p}))
    BY <2>4, <2>5, SumUnion
  <2>7. Balance(A, s) = Balance(A, R) + Balance(A, {p})
    <3>1. Balance(A, s) = SumFunctionOnSet(g, PostedFor(s))
      BY <1>2
    <3>2. Balance(A, R) = SumFunctionOnSet(g, PostedFor(R))
      BY <1>2
    <3>3. Balance(A, {p}) = SumFunctionOnSet(g, PostedFor({p}))
      BY <1>2
    <3> QED BY <2>4, <2>6, <3>1, <3>2, <3>3
  <2>8. IsFiniteSet(s)
    BY <1>4, FS_Subset
  <2>9. SumFunctionOnSet(G, s) = G[p] + SumFunctionOnSet(G, s \ {p})
    BY <1>3, <2>1, <2>8, SumRemove
  <2>10. SumFunctionOnSet(G, s) = G[p] + Balance(A, R)
    BY <2>2, <2>3, <2>9
  <2>11. G[p] = Balance(A, {p}) /\ G[p] \in Int /\ Balance(A, R) \in Int
    BY <1>2, <1>3, <2>1
  <2>12. Balance(A, s) = SumFunctionOnSet(G, s)
    BY <2>7, <2>10, <2>11
  <2> QED BY <2>12
<1> HIDE DEF F
<1>7. SUBSET Papers \subseteq F
  BY <1>4, <1>5, <1>6, SubsetInduction
<1> QED BY <1>7 DEF F

-------------------------------------------------------------------------------
(* What each paper has put on the accounts, once its events are told.      *)

\* Is everything that happened to the paper posted?
PaperPosted(p) == \A x \in Prefixes : Happened(x, p) =>
  LinesOfFact(FactOf(x, p)) = {} \/ EntryOf(FactOf(x, p)) \in JournalEntries

LEMMA TimesHandled ==
  ASSUME NEW ref, Times(Handled(ref)) > 0 PROVE Handled(ref) \in DOMAIN log
BY DEF Times

LEMMA ToldIsPosted ==
  ASSUME JournalBooks, NEW scope, AllTold(scope), NEW p \in Papers, p \in scope PROVE PaperPosted(p)
<1>1. SUFFICES ASSUME NEW x \in Prefixes, Happened(x, p), LinesOfFact(FactOf(x, p)) # {}
               PROVE  EntryOf(FactOf(x, p)) \in JournalEntries
  BY DEF PaperPosted
<1>2. PICK f : f = FactOf(x, p)
  OBVIOUS
<1>3. f \in Facts
  BY <1>1, <1>2 DEF JournalBooks, FactsTold, Facts, FactOf, Fact
<1>4. f.key = <<x, p>> /\ f.key[2] = p
  BY <1>2 DEF FactOf, Fact
<1>5. Handled(f.key) \in DOMAIN log
  BY <1>3, <1>4, TimesHandled DEF AllTold
<1>6. PICK g \in Facts : /\ Handled(f.key) = Handled(g.key)
                         /\ LinesOfFact(g) = {} \/ EntryOf(g) \in DOMAIN log
  BY <1>5 DEF JournalBooks, HandledPosted, Handled
<1>7. g.key = f.key
  BY <1>6 DEF Handled
<1>8. g = f
  BY <1>3, <1>7, FactIs
<1>9. EntryOf(f).kind = "entry"
  BY DEF EntryOf, Entry
<1> QED BY <1>1, <1>2, <1>6, <1>8, <1>9 DEF JournalEntries

StepOn(A, x, p) == IF Happened(x, p) THEN EventOn(A, x, Terms[p], TaxOf(p)) ELSE 0

\* What the entry of a step adds to a balance of its paper.
LEMMA StepIs ==
  ASSUME JournalBooks, NEW p \in Papers, PaperPosted(p), NEW x \in Prefixes, NEW A,
         NEW e, e = EntryOf(FactOf(x, p))
  PROVE  /\ e \in PostedFor({p}) => PostedOn(A, e) = StepOn(A, x, p)
         /\ e \notin PostedFor({p}) => StepOn(A, x, p) = 0
<1>1. e.key = <<x, p>> /\ e.key[2] = p /\ e.lines = LinesOfFact(FactOf(x, p))
  BY DEF EntryOf, Entry, FactOf, Fact
<1>2. ASSUME Happened(x, p) PROVE PostedOn(A, e) = EventOn(A, x, Terms[p], TaxOf(p))
  <2>1. Suits(Terms[p].kind, x) /\ TaxOf(p) \in Nat
    BY <1>2, TellsSuits DEF Happened, JournalBooks, JournalTypes
  <2>2. SumOf({l \in LinesOfFact(Fact(<<x, p>>, TaxOf(p))) : l.account \in A}) = EventOn(A, x, Terms[p], TaxOf(p))
    <3>1. PICK tax \in Nat : tax = TaxOf(p)
      BY <2>1
    <3>2. SumOf({l \in LinesOfFact(Fact(<<x, p>>, tax)) : l.account \in A}) = EventOn(A, x, Terms[p], tax)
      BY <2>1, <3>1, FactLines
    <3> QED BY <3>1, <3>2
  <2> QED BY <1>1, <2>2 DEF PostedOn, FactOf
<1>3. ASSUME e \in PostedFor({p}) PROVE PostedOn(A, e) = StepOn(A, x, p)
  <2>1. e \in JournalEntries
    BY <1>3 DEF PostedFor
  <2>2. PICK q \in Papers, y \in Prefixes : Happened(y, q) /\ e.key = <<y, q>>
    BY <2>1, EntryIs
  <2>3. y = x /\ q = p
    BY <1>1, <2>2
  <2> QED BY <1>2, <2>2, <2>3 DEF StepOn
<1>4. ASSUME e \notin PostedFor({p}) PROVE StepOn(A, x, p) = 0
  <2>1. CASE ~Happened(x, p)
    BY <2>1 DEF StepOn
  <2>2. CASE Happened(x, p)
    <3>1. e \notin JournalEntries
      BY <1>1, <1>4 DEF PostedFor
    <3>2. e.lines = {}
      BY <1>1, <2>2, <3>1 DEF PaperPosted
    <3>3. {l \in e.lines : l.account \in A} = {}
      BY <3>2
    <3>4. PostedOn(A, e) = 0
      BY <3>3, SumEmpty DEF PostedOn, SumOf
    <3> QED BY <1>2, <2>2, <3>4 DEF StepOn
  <2> QED BY <2>1, <2>2
<1> QED BY <1>3, <1>4

\* No paper takes more than two steps: its balance is what these put there.
LEMMA PaperBalance ==
  ASSUME JournalBooks, NEW p \in Papers, PaperPosted(p), NEW A,
         NEW x \in Prefixes, NEW y \in Prefixes, x # y,
         \A z \in Prefixes : Happened(z, p) => z \in {x, y}
  PROVE  Balance(A, {p}) = StepOn(A, x, p) + StepOn(A, y, p)
<1>1. PICK a : a = EntryOf(FactOf(x, p))
  OBVIOUS
<1>2. PICK b : b = EntryOf(FactOf(y, p))
  OBVIOUS
<1>3. PICK S : S = PostedFor({p})
  OBVIOUS
<1>4. a # b
  <2>1. a.key = <<x, p>> /\ b.key = <<y, p>>
    BY <1>1, <1>2 DEF EntryOf, Entry, FactOf, Fact
  <2> QED BY <2>1
<1>5. S \in SUBSET {a, b}
  <2>1. ASSUME NEW e \in S PROVE e \in {a, b}
    <3>1. e \in JournalEntries /\ e.key[2] = p
      BY <1>3 DEF PostedFor
    <3>2. PICK q \in Papers, z \in Prefixes : Happened(z, q) /\ e = EntryOf(FactOf(z, q)) /\ e.key = <<z, q>>
      BY <3>1, EntryIs
    <3>3. q = p
      BY <3>1, <3>2
    <3> QED BY <1>1, <1>2, <3>2, <3>3
  <2> QED BY <2>1
<1>6. PICK g : g = [e \in JournalEntries |-> PostedOn(A, e)]
  OBVIOUS
<1>7. Balance(A, {p}) = SumFunctionOnSet(g, S) /\ \A e \in S : g[e] \in Int
  BY <1>3, <1>6, BalanceIs
<1>8. \A e \in S : g[e] = PostedOn(A, e)
  BY <1>3, <1>6 DEF PostedFor
<1>9. PICK h : h = [e \in {a, b} |-> IF e \in S THEN g[e] ELSE 0]
  OBVIOUS
<1>10. IsFiniteSet({a, b})
  <2>1. IsFiniteSet({a}) /\ {a, b} = {a} \union {b}
    BY FS_Singleton
  <2> QED BY <2>1, FS_AddElement
<1>11. SumFunctionOnSet(g, S) = SumFunctionOnSet(h, {a, b})
  BY <1>5, <1>7, <1>9, <1>10, SumPart
<1>12. \A e \in {a, b} : h[e] \in Int
  BY <1>7, <1>9
<1>13. SumFunctionOnSet(h, {a, b}) = h[a] + h[b]
  <2>1. SumFunctionOnSet(h, {a, b}) = h[a] + SumFunctionOnSet(h, {a, b} \ {a})
    BY <1>10, <1>12, SumRemove
  <2>2. {a, b} \ {a} = {b}
    BY <1>4
  <2>3. IsFiniteSet({b}) /\ {b} \ {b} = {}
    BY FS_Singleton
  <2>4. SumFunctionOnSet(h, {b}) = h[b] + SumFunctionOnSet(h, {b} \ {b})
    BY <1>12, <2>3, SumRemove
  <2>5. SumFunctionOnSet(h, {b} \ {b}) = 0
    BY <2>3, SumEmpty
  <2>6. h[b] \in Int
    BY <1>12
  <2>7. SumFunctionOnSet(h, {b}) = h[b]
    BY <2>4, <2>5, <2>6
  <2> QED BY <2>1, <2>2, <2>7
<1>14. h[a] = StepOn(A, x, p)
  <2>1. CASE a \in S
    BY <1>1, <1>3, <1>8, <1>9, <2>1, StepIs
  <2>2. CASE a \notin S
    BY <1>1, <1>3, <1>9, <2>2, StepIs
  <2> QED BY <2>1, <2>2
<1>15. h[b] = StepOn(A, y, p)
  <2>1. CASE b \in S
    BY <1>2, <1>3, <1>8, <1>9, <2>1, StepIs
  <2>2. CASE b \notin S
    BY <1>2, <1>3, <1>9, <2>2, StepIs
  <2> QED BY <2>1, <2>2
<1> QED BY <1>7, <1>11, <1>13, <1>14, <1>15

LEMMA StageIs ==
  ASSUME JournalBooks, NEW p \in Papers
  PROVE  /\ Stage(p) \in Stages(Terms[p].kind) /\ TaxOf(p) \in Nat /\ Priced(Terms[p])
         /\ Terms[p].kind \in {"sale", "purchase", "job", "payroll", "expense", "adjustment"}
BY TermsAssumption DEF JournalBooks, JournalTypes, Course

\* A sale that stands has put its lines there; one taken back, nothing.
LEMMA SaleBalance ==
  ASSUME JournalBooks, NEW p \in Papers, PaperPosted(p), Terms[p].kind = "sale", NEW A
  PROVE  Balance(A, {p}) = IF Stage(p) = "SOLD" THEN SaleOn(A, Terms[p], TaxOf(p)) ELSE 0
<1>1. Stage(p) \in {"none", "SOLD", "CANCELLED", "REFUNDED"}
  BY StageIs DEF Stages
<1>2. Announced(p)
  BY DEF Announced
<1>3. \A z \in Prefixes : Happened(z, p) <=> \/ z = "ORD" /\ Stage(p) # "none"
                                             \/ z = "VOID" /\ Stage(p) = "CANCELLED"
                                             \/ z = "REFUND" /\ Stage(p) = "REFUNDED"
  BY <1>2 DEF Happened, Tells
<1>4. "ORD" \in Prefixes /\ "VOID" \in Prefixes /\ "REFUND" \in Prefixes
  BY DEF Prefixes
<1>5. PICK v : v = SaleOn(A, Terms[p], TaxOf(p))
  OBVIOUS
<1>6. v \in Int
  <2>0. Priced(Terms[p])
    BY StageIs
  <2>1. Terms[p].net \in Nat /\ Terms[p].cogs \in Nat /\ TaxOf(p) \in Nat
    BY <2>0, StageIs DEF Priced
  <2>2. /\ On(A, MoneyAccount[Terms[p].method], Terms[p].net) \in Int
        /\ On(A, "4010", TaxOf(p) - Terms[p].net) \in Int /\ On(A, "2020", 0 - TaxOf(p)) \in Int
        /\ On(A, "5010", Terms[p].cogs) \in Int /\ On(A, "1030", 0 - Terms[p].cogs) \in Int
    BY <2>1, OnInt
  <2> QED BY <1>5, <2>2 DEF SaleOn
<1>7. /\ StepOn(A, "ORD", p) = IF Stage(p) # "none" THEN v ELSE 0
      /\ StepOn(A, "VOID", p) = IF Stage(p) = "CANCELLED" THEN 0 - v ELSE 0
      /\ StepOn(A, "REFUND", p) = IF Stage(p) = "REFUNDED" THEN 0 - v ELSE 0
  BY <1>3, <1>4, <1>5 DEF StepOn, EventOn
<1>8. CASE Stage(p) = "REFUNDED"
  <2>1. \A z \in Prefixes : Happened(z, p) => z \in {"ORD", "REFUND"}
    BY <1>3, <1>8
  <2>2. Balance(A, {p}) = StepOn(A, "ORD", p) + StepOn(A, "REFUND", p)
    BY <1>4, <2>1, PaperBalance
  <2> QED BY <1>6, <1>7, <1>8, <2>2
<1>9. CASE Stage(p) # "REFUNDED"
  <2>1. \A z \in Prefixes : Happened(z, p) => z \in {"ORD", "VOID"}
    BY <1>3, <1>9
  <2>2. Balance(A, {p}) = StepOn(A, "ORD", p) + StepOn(A, "VOID", p)
    BY <1>4, <2>1, PaperBalance
  <2> QED BY <1>1, <1>5, <1>6, <1>7, <1>9, <2>2
<1> QED BY <1>8, <1>9

LEMMA PurchaseBalance ==
  ASSUME JournalBooks, NEW p \in Papers, PaperPosted(p), Terms[p].kind = "purchase", NEW A
  PROVE  Balance(A, {p}) =
           (IF Terms[p].total > 0 /\ Stage(p) # "none" THEN EventOn(A, "PO", Terms[p], TaxOf(p)) ELSE 0)
           + (IF Terms[p].total > 0 /\ Stage(p) = "PAID" THEN EventOn(A, "PAY", Terms[p], TaxOf(p)) ELSE 0)
<1>1. Announced(p) <=> Terms[p].total > 0
  BY DEF Announced
<1>2. \A z \in Prefixes : Happened(z, p) <=> /\ Terms[p].total > 0
                                             /\ \/ z = "PO" /\ Stage(p) # "none"
                                                \/ z = "PAY" /\ Stage(p) = "PAID"
  BY <1>1 DEF Happened, Tells
<1>3. "PO" \in Prefixes /\ "PAY" \in Prefixes
  BY DEF Prefixes
<1>4. \A z \in Prefixes : Happened(z, p) => z \in {"PO", "PAY"}
  BY <1>2
<1>5. Balance(A, {p}) = StepOn(A, "PO", p) + StepOn(A, "PAY", p)
  BY <1>3, <1>4, PaperBalance
<1> QED BY <1>2, <1>3, <1>5 DEF StepOn

\* The papers of one step.
LEMMA OneStepBalance ==
  ASSUME JournalBooks, NEW p \in Papers, PaperPosted(p), NEW A, NEW x \in Prefixes,
         EventOn(A, x, Terms[p], TaxOf(p)) \in Int,
         \A z : Tells(Terms[p].kind, z, Stage(p)) <=> z = x /\ Stage(p) # "none"
  PROVE  Balance(A, {p}) = IF Announced(p) /\ Stage(p) # "none"
                             THEN EventOn(A, x, Terms[p], TaxOf(p)) ELSE 0
<1>1. PICK y \in Prefixes : y # x
  BY DEF Prefixes
<1>2. \A z : Happened(z, p) <=> z = x /\ Announced(p) /\ Stage(p) # "none"
  BY DEF Happened
<1>3. Balance(A, {p}) = StepOn(A, x, p) + StepOn(A, y, p)
  BY <1>1, <1>2, PaperBalance
<1>4. StepOn(A, y, p) = 0
  BY <1>1, <1>2 DEF StepOn
<1> QED BY <1>2, <1>3, <1>4 DEF StepOn

\* The papers of one step, by kind.
LEMMA JobBalance ==
  ASSUME JournalBooks, NEW p \in Papers, PaperPosted(p), Terms[p].kind = "job", NEW A
  PROVE  Balance(A, {p}) = IF Terms[p].raw > 0 /\ Stage(p) # "none"
                             THEN On(A, "1030", Terms[p].finished - Terms[p].raw)
                                  + On(A, "5030", Terms[p].raw - Terms[p].finished)
                             ELSE 0
<1>1. EventOn(A, "PROD", Terms[p], TaxOf(p)) = On(A, "1030", Terms[p].finished - Terms[p].raw)
                                  + On(A, "5030", Terms[p].raw - Terms[p].finished)
  BY DEF EventOn
<1>2. EventOn(A, "PROD", Terms[p], TaxOf(p)) \in Int
  <2>0. Priced(Terms[p])
    BY StageIs
  <2>1. Terms[p].raw \in Nat /\ Terms[p].finished \in Nat
    BY <2>0 DEF Priced
  <2>2. /\ On(A, "1030", Terms[p].finished - Terms[p].raw) \in Int
        /\ On(A, "5030", Terms[p].raw - Terms[p].finished) \in Int
    BY <2>1, OnInt
  <2> QED BY <1>1, <2>2
<1>3. \A z : Tells(Terms[p].kind, z, Stage(p)) <=> z = "PROD" /\ Stage(p) # "none"
  BY DEF Tells
<1>4. "PROD" \in Prefixes /\ (Announced(p) <=> Terms[p].raw > 0)
  BY DEF Prefixes, Announced
<1>5. Balance(A, {p}) = IF Announced(p) /\ Stage(p) # "none"
                            THEN EventOn(A, "PROD", Terms[p], TaxOf(p)) ELSE 0
  BY <1>2, <1>3, <1>4, OneStepBalance
<1> QED BY <1>1, <1>4, <1>5

LEMMA PayrollBalance ==
  ASSUME JournalBooks, NEW p \in Papers, PaperPosted(p), Terms[p].kind = "payroll", NEW A
  PROVE  Balance(A, {p}) = IF Terms[p].gross > 0 /\ Stage(p) # "none"
                             THEN On(A, "5020", Terms[p].gross)
                                  + On(A, "1010", 0 - Terms[p].net)
                                  + On(A, "2030", Terms[p].net - Terms[p].gross)
                             ELSE 0
<1>1. EventOn(A, "PAYROLL", Terms[p], TaxOf(p)) = On(A, "5020", Terms[p].gross)
                                  + On(A, "1010", 0 - Terms[p].net)
                                  + On(A, "2030", Terms[p].net - Terms[p].gross)
  BY DEF EventOn
<1>2. EventOn(A, "PAYROLL", Terms[p], TaxOf(p)) \in Int
  <2>0. Priced(Terms[p])
    BY StageIs
  <2>1. Terms[p].gross \in Nat /\ Terms[p].net \in Nat
    BY <2>0 DEF Priced
  <2>2. /\ On(A, "5020", Terms[p].gross) \in Int
        /\ On(A, "1010", 0 - Terms[p].net) \in Int
        /\ On(A, "2030", Terms[p].net - Terms[p].gross) \in Int
    BY <2>1, OnInt
  <2> QED BY <1>1, <2>2
<1>3. \A z : Tells(Terms[p].kind, z, Stage(p)) <=> z = "PAYROLL" /\ Stage(p) # "none"
  BY DEF Tells
<1>4. "PAYROLL" \in Prefixes /\ (Announced(p) <=> Terms[p].gross > 0)
  BY DEF Prefixes, Announced
<1>5. Balance(A, {p}) = IF Announced(p) /\ Stage(p) # "none"
                            THEN EventOn(A, "PAYROLL", Terms[p], TaxOf(p)) ELSE 0
  BY <1>2, <1>3, <1>4, OneStepBalance
<1> QED BY <1>1, <1>4, <1>5

LEMMA ExpenseBalance ==
  ASSUME JournalBooks, NEW p \in Papers, PaperPosted(p), Terms[p].kind = "expense", NEW A
  PROVE  Balance(A, {p}) = IF Terms[p].amount > 0 /\ Stage(p) # "none"
                             THEN On(A, "5050", Terms[p].amount) + On(A, "1010", 0 - Terms[p].amount)
                             ELSE 0
<1>1. EventOn(A, "EXP", Terms[p], TaxOf(p)) = On(A, "5050", Terms[p].amount) + On(A, "1010", 0 - Terms[p].amount)
  BY DEF EventOn
<1>2. EventOn(A, "EXP", Terms[p], TaxOf(p)) \in Int
  <2>0. Priced(Terms[p])
    BY StageIs
  <2>1. Terms[p].amount \in Nat
    BY <2>0 DEF Priced
  <2>2. On(A, "5050", Terms[p].amount) \in Int /\ On(A, "1010", 0 - Terms[p].amount) \in Int
    BY <2>1, OnInt
  <2> QED BY <1>1, <2>2
<1>3. \A z : Tells(Terms[p].kind, z, Stage(p)) <=> z = "EXP" /\ Stage(p) # "none"
  BY DEF Tells
<1>4. "EXP" \in Prefixes /\ (Announced(p) <=> Terms[p].amount > 0)
  BY DEF Prefixes, Announced
<1>5. Balance(A, {p}) = IF Announced(p) /\ Stage(p) # "none"
                            THEN EventOn(A, "EXP", Terms[p], TaxOf(p)) ELSE 0
  BY <1>2, <1>3, <1>4, OneStepBalance
<1> QED BY <1>1, <1>4, <1>5

LEMMA AdjustmentBalance ==
  ASSUME JournalBooks, NEW p \in Papers, PaperPosted(p), Terms[p].kind = "adjustment", NEW A
  PROVE  Balance(A, {p}) = IF Terms[p].value # 0 /\ Stage(p) # "none"
                             THEN On(A, "1030", Terms[p].value) + On(A, "5040", 0 - Terms[p].value)
                             ELSE 0
<1>1. EventOn(A, "ADJ", Terms[p], TaxOf(p)) = On(A, "1030", Terms[p].value) + On(A, "5040", 0 - Terms[p].value)
  BY DEF EventOn
<1>2. EventOn(A, "ADJ", Terms[p], TaxOf(p)) \in Int
  <2>0. Priced(Terms[p])
    BY StageIs
  <2>1. Terms[p].value \in Int
    BY <2>0 DEF Priced
  <2>2. On(A, "1030", Terms[p].value) \in Int /\ On(A, "5040", 0 - Terms[p].value) \in Int
    BY <2>1, OnInt
  <2> QED BY <1>1, <2>2
<1>3. \A z : Tells(Terms[p].kind, z, Stage(p)) <=> z = "ADJ" /\ Stage(p) # "none"
  BY DEF Tells
<1>4. "ADJ" \in Prefixes /\ (Announced(p) <=> Terms[p].value # 0)
  BY DEF Prefixes, Announced
<1>5. Balance(A, {p}) = IF Announced(p) /\ Stage(p) # "none"
                            THEN EventOn(A, "ADJ", Terms[p], TaxOf(p)) ELSE 0
  BY <1>2, <1>3, <1>4, OneStepBalance
<1> QED BY <1>1, <1>4, <1>5

-------------------------------------------------------------------------------
(* The accounts, one by one.                                               *)

\* What a paper has put on output VAT, revenue, payables, stock and money.
LEMMA VatOfPaper ==
  ASSUME JournalBooks, NEW p \in Papers, PaperPosted(p)
  PROVE  Balance({"2020"}, {p}) =
           IF Terms[p].kind = "sale" /\ Stage(p) = "SOLD" THEN 0 - TaxOf(p) ELSE 0
<1>1. PICK A : A = {"2020"}
  OBVIOUS
<1>2. TaxOf(p) \in Nat /\ Priced(Terms[p])
      /\ Terms[p].kind \in {"sale", "purchase", "job", "payroll", "expense", "adjustment"}
  BY StageIs
<1>3. CASE Terms[p].kind = "sale"
  <2>1. MoneyAccount[Terms[p].method] # "2020"
    BY <1>2, <1>3, MoneyIs DEF Priced
  <2>2. SaleOn(A, Terms[p], TaxOf(p)) = 0 - TaxOf(p)
    BY <1>1, <1>2, <2>1 DEF SaleOn, On
  <2> QED BY <1>1, <1>3, <2>2, SaleBalance
<1>4. CASE Terms[p].kind = "purchase"
  BY <1>1, <1>4, PurchaseBalance DEF EventOn, On
<1>5. CASE Terms[p].kind = "job"
  BY <1>1, <1>5, JobBalance DEF On
<1>6. CASE Terms[p].kind = "payroll"
  BY <1>1, <1>6, PayrollBalance DEF On
<1>7. CASE Terms[p].kind = "expense"
  BY <1>1, <1>7, ExpenseBalance DEF On
<1>8. CASE Terms[p].kind = "adjustment"
  BY <1>1, <1>8, AdjustmentBalance DEF On
<1> QED BY <1>2, <1>3, <1>4, <1>5, <1>6, <1>7, <1>8

LEMMA RevenueOfPaper ==
  ASSUME JournalBooks, NEW p \in Papers, PaperPosted(p)
  PROVE  Balance({"4010"}, {p}) =
           IF Terms[p].kind = "sale" /\ Stage(p) = "SOLD" THEN TaxOf(p) - Terms[p].net ELSE 0
<1>1. PICK A : A = {"4010"}
  OBVIOUS
<1>2. TaxOf(p) \in Nat /\ Priced(Terms[p])
      /\ Terms[p].kind \in {"sale", "purchase", "job", "payroll", "expense", "adjustment"}
  BY StageIs
<1>3. CASE Terms[p].kind = "sale"
  <2>1. MoneyAccount[Terms[p].method] # "4010" /\ Terms[p].net \in Nat
    BY <1>2, <1>3, MoneyIs DEF Priced
  <2>2. SaleOn(A, Terms[p], TaxOf(p)) = TaxOf(p) - Terms[p].net
    BY <1>1, <1>2, <2>1 DEF SaleOn, On
  <2> QED BY <1>1, <1>3, <2>2, SaleBalance
<1>4. CASE Terms[p].kind = "purchase"
  BY <1>1, <1>4, PurchaseBalance DEF EventOn, On
<1>5. CASE Terms[p].kind = "job"
  BY <1>1, <1>5, JobBalance DEF On
<1>6. CASE Terms[p].kind = "payroll"
  BY <1>1, <1>6, PayrollBalance DEF On
<1>7. CASE Terms[p].kind = "expense"
  BY <1>1, <1>7, ExpenseBalance DEF On
<1>8. CASE Terms[p].kind = "adjustment"
  BY <1>1, <1>8, AdjustmentBalance DEF On
<1> QED BY <1>2, <1>3, <1>4, <1>5, <1>6, <1>7, <1>8

\* A receipt that cost something is owed until it is paid.
LEMMA PayablesOfPaper ==
  ASSUME JournalBooks, NEW p \in Papers, PaperPosted(p)
  PROVE  Balance({"2010"}, {p}) =
           IF Terms[p].kind = "purchase" /\ Stage(p) = "UNPAID" THEN 0 - Terms[p].total ELSE 0
<1>1. PICK A : A = {"2010"}
  OBVIOUS
<1>2. TaxOf(p) \in Nat /\ Priced(Terms[p]) /\ Stage(p) \in Stages(Terms[p].kind)
      /\ Terms[p].kind \in {"sale", "purchase", "job", "payroll", "expense", "adjustment"}
  BY StageIs
<1>3. CASE Terms[p].kind = "sale"
  <2>1. MoneyAccount[Terms[p].method] # "2010"
    BY <1>2, <1>3, MoneyIs DEF Priced
  <2>2. SaleOn(A, Terms[p], TaxOf(p)) = 0
    BY <1>1, <2>1 DEF SaleOn, On
  <2> QED BY <1>1, <1>3, <2>2, SaleBalance
<1>4. CASE Terms[p].kind = "purchase"
  <2>1. Terms[p].total \in Nat /\ Stage(p) \in {"none", "UNPAID", "PAID"}
    BY <1>2, <1>4 DEF Priced, Stages
  <2>2. /\ EventOn(A, "PO", Terms[p], TaxOf(p)) = 0 - Terms[p].total
        /\ EventOn(A, "PAY", Terms[p], TaxOf(p)) = Terms[p].total
    BY <1>1, <2>1 DEF EventOn, On
  <2> QED BY <1>1, <1>4, <2>1, <2>2, PurchaseBalance
<1>5. CASE Terms[p].kind = "job"
  BY <1>1, <1>5, JobBalance DEF On
<1>6. CASE Terms[p].kind = "payroll"
  BY <1>1, <1>6, PayrollBalance DEF On
<1>7. CASE Terms[p].kind = "expense"
  BY <1>1, <1>7, ExpenseBalance DEF On
<1>8. CASE Terms[p].kind = "adjustment"
  BY <1>1, <1>8, AdjustmentBalance DEF On
<1> QED BY <1>2, <1>3, <1>4, <1>5, <1>6, <1>7, <1>8

LEMMA StockOfPaper ==
  ASSUME JournalBooks, NEW p \in Papers, PaperPosted(p)
  PROVE  Balance({"1030"}, {p}) =
           IF /\ Announced(p) /\ Terms[p].kind \notin {"payroll", "expense"}
              /\ Stage(p) \notin {"none", "CANCELLED", "REFUNDED"}
             THEN Moved(p) ELSE 0
<1>1. PICK A : A = {"1030"}
  OBVIOUS
<1>2. TaxOf(p) \in Nat /\ Priced(Terms[p]) /\ Stage(p) \in Stages(Terms[p].kind)
      /\ Terms[p].kind \in {"sale", "purchase", "job", "payroll", "expense", "adjustment"}
  BY StageIs
<1>3. CASE Terms[p].kind = "sale"
  <2>1. MoneyAccount[Terms[p].method] # "1030" /\ Terms[p].cogs \in Nat
    BY <1>2, <1>3, MoneyIs DEF Priced
  <2>2. SaleOn(A, Terms[p], TaxOf(p)) = 0 - Terms[p].cogs
    BY <1>1, <2>1 DEF SaleOn, On
  <2>3. Announced(p) /\ Stage(p) \in {"none", "SOLD", "CANCELLED", "REFUNDED"} /\ Moved(p) = 0 - Terms[p].cogs
    BY <1>2, <1>3 DEF Announced, Stages, Moved
  <2> QED BY <1>1, <1>3, <2>2, <2>3, SaleBalance
<1>4. CASE Terms[p].kind = "purchase"
  <2>1. Terms[p].standard \in Nat /\ Stage(p) \in {"none", "UNPAID", "PAID"}
    BY <1>2, <1>4 DEF Priced, Stages
  <2>2. /\ EventOn(A, "PO", Terms[p], TaxOf(p)) = Terms[p].standard
        /\ EventOn(A, "PAY", Terms[p], TaxOf(p)) = 0
    BY <1>1, <2>1 DEF EventOn, On
  <2>3. (Announced(p) <=> Terms[p].total > 0) /\ Moved(p) = Terms[p].standard
    BY <1>4 DEF Announced, Moved
  <2> QED BY <1>1, <1>4, <2>1, <2>2, <2>3, PurchaseBalance
<1>5. CASE Terms[p].kind = "job"
  <2>1. Terms[p].raw \in Nat /\ Terms[p].finished \in Nat /\ Stage(p) \in {"none", "COMPLETED"}
    BY <1>2, <1>5 DEF Priced, Stages
  <2>2. (Announced(p) <=> Terms[p].raw > 0) /\ Moved(p) = Terms[p].finished - Terms[p].raw
    BY <1>5 DEF Announced, Moved
  <2> QED BY <1>1, <1>5, <2>1, <2>2, JobBalance DEF On
<1>6. CASE Terms[p].kind = "payroll"
  BY <1>1, <1>6, PayrollBalance DEF On
<1>7. CASE Terms[p].kind = "expense"
  BY <1>1, <1>7, ExpenseBalance DEF On
<1>8. CASE Terms[p].kind = "adjustment"
  <2>1. Terms[p].value \in Int /\ Stage(p) \in {"none", "APPLIED"}
    BY <1>2, <1>8 DEF Priced, Stages
  <2>2. (Announced(p) <=> Terms[p].value # 0) /\ Moved(p) = Terms[p].value
    BY <1>8 DEF Announced, Moved
  <2> QED BY <1>1, <1>8, <2>1, <2>2, AdjustmentBalance DEF On
<1> QED BY <1>2, <1>3, <1>4, <1>5, <1>6, <1>7, <1>8

\* The till takes the cash sales and pays the suppliers, the wages and the expenses.
LEMMA MoneyOfPaper ==
  ASSUME JournalBooks, NEW p \in Papers, PaperPosted(p), NEW method \in DOMAIN MoneyAccount
  PROVE  Balance({MoneyAccount[method]}, {p}) =
    CASE Terms[p].kind = "sale"     -> IF Stage(p) = "SOLD" /\ Terms[p].method = method THEN Terms[p].net ELSE 0
      [] Terms[p].kind = "purchase" -> IF method = "CASH" /\ Stage(p) = "PAID" THEN 0 - Terms[p].total ELSE 0
      [] Terms[p].kind = "payroll"  -> IF method = "CASH" /\ Stage(p) = "APPROVED" THEN 0 - Terms[p].net ELSE 0
      [] Terms[p].kind = "expense"  -> IF method = "CASH" /\ Stage(p) = "PAID" THEN 0 - Terms[p].amount ELSE 0
      [] OTHER -> 0
<1>1. PICK A : A = {MoneyAccount[method]}
  OBVIOUS
<1>2. TaxOf(p) \in Nat /\ Priced(Terms[p]) /\ Stage(p) \in Stages(Terms[p].kind)
      /\ Terms[p].kind \in {"sale", "purchase", "job", "payroll", "expense", "adjustment"}
  BY StageIs
<1>3. MoneyAccount[method] \in {"1010", "1040", "1050"} /\ (MoneyAccount[method] = "1010" <=> method = "CASH")
  BY DEF MoneyAccount
<1>4. \A amount : On(A, "1010", amount) = IF method = "CASH" THEN amount ELSE 0
  BY <1>1, <1>3 DEF On
<1>5. \A account \in {"1030", "2010", "2020", "2030", "4010", "5010", "5020", "5030", "5035", "5040", "5050"} :
        \A amount : On(A, account, amount) = 0
  BY <1>1, <1>3 DEF On
<1>6. CASE Terms[p].kind = "sale"
  <2>1. Terms[p].method \in DOMAIN MoneyAccount /\ Terms[p].net \in Nat
    BY <1>2, <1>6 DEF Priced
  <2>2. MoneyAccount[Terms[p].method] = MoneyAccount[method] <=> Terms[p].method = method
    BY <2>1 DEF MoneyAccount
  <2>3. On(A, MoneyAccount[Terms[p].method], Terms[p].net) = IF Terms[p].method = method THEN Terms[p].net ELSE 0
    BY <1>1, <2>2 DEF On
  <2>4. SaleOn(A, Terms[p], TaxOf(p)) = IF Terms[p].method = method THEN Terms[p].net ELSE 0
    BY <1>5, <2>1, <2>3 DEF SaleOn
  <2> QED BY <1>1, <1>6, <2>4, SaleBalance
<1>7. CASE Terms[p].kind = "purchase"
  <2>1. Terms[p].total \in Nat /\ Stage(p) \in {"none", "UNPAID", "PAID"}
    BY <1>2, <1>7 DEF Priced, Stages
  <2>2. /\ EventOn(A, "PO", Terms[p], TaxOf(p)) = 0
        /\ EventOn(A, "PAY", Terms[p], TaxOf(p)) = IF method = "CASH" THEN 0 - Terms[p].total ELSE 0
    BY <1>4, <1>5, <2>1 DEF EventOn
  <2> QED BY <1>1, <1>7, <2>1, <2>2, PurchaseBalance
<1>8. CASE Terms[p].kind = "job"
  BY <1>1, <1>5, <1>8, JobBalance
<1>9. CASE Terms[p].kind = "payroll"
  <2>1. Terms[p].gross \in Nat /\ Terms[p].net \in 0 .. Terms[p].gross /\ Stage(p) \in {"none", "APPROVED"}
    BY <1>2, <1>9 DEF Priced, Stages
  <2>2. Balance(A, {p}) = IF Terms[p].gross > 0 /\ Stage(p) # "none" THEN On(A, "1010", 0 - Terms[p].net) ELSE 0
    BY <1>4, <1>5, <1>9, <2>1, PayrollBalance
  <2>3. On(A, "1010", 0 - Terms[p].net) = IF method = "CASH" THEN 0 - Terms[p].net ELSE 0
    BY <1>4
  <2>4. Balance(A, {p}) = IF method = "CASH" /\ Stage(p) = "APPROVED" THEN 0 - Terms[p].net ELSE 0
    BY <2>1, <2>2, <2>3
  <2> QED BY <1>1, <1>9, <2>4
<1>10. CASE Terms[p].kind = "expense"
  <2>1. Terms[p].amount \in Nat /\ Stage(p) \in {"none", "PAID"}
    BY <1>2, <1>10 DEF Priced, Stages
  <2>2. Balance(A, {p}) = IF Terms[p].amount > 0 /\ Stage(p) # "none" THEN On(A, "1010", 0 - Terms[p].amount) ELSE 0
    BY <1>4, <1>5, <1>10, <2>1, ExpenseBalance
  <2>3. On(A, "1010", 0 - Terms[p].amount) = IF method = "CASH" THEN 0 - Terms[p].amount ELSE 0
    BY <1>4
  <2>4. Balance(A, {p}) = IF method = "CASH" /\ Stage(p) = "PAID" THEN 0 - Terms[p].amount ELSE 0
    BY <2>1, <2>2, <2>3
  <2> QED BY <1>1, <1>10, <2>4
<1>11. CASE Terms[p].kind = "adjustment"
  BY <1>1, <1>5, <1>11, AdjustmentBalance
<1> QED BY <1>1, <1>2, <1>6, <1>7, <1>8, <1>9, <1>10, <1>11

-------------------------------------------------------------------------------
(* The statements, account by account.                                     *)

\* A sum of what some papers take away.
LEMMA SumOpposite ==
  ASSUME NEW S, IsFiniteSet(S), NEW T \in SUBSET S, NEW g, \A x \in T : g[x] \in Int,
         NEW G, \A x \in S : G[x] = IF x \in T THEN 0 - g[x] ELSE 0
  PROVE  SumFunctionOnSet(G, S) = 0 - SumFunctionOnSet(g, T)
<1> DEFINE h == [x \in S |-> IF x \in T THEN g[x] ELSE 0]
           zero == [x \in S |-> 0]
<1>1. \A x \in S : h[x] = IF x \in T THEN g[x] ELSE 0
  OBVIOUS
<1>2. \A x \in S : G[x] \in Int /\ h[x] \in Int /\ zero[x] = 0 /\ zero[x] = G[x] + h[x]
  OBVIOUS
<1> HIDE DEF h, zero
<1>3. SumFunctionOnSet(g, T) = SumFunctionOnSet(h, S)
  BY <1>1, SumPart
<1>4. SumFunctionOnSet(zero, S) = 0
  BY <1>2, SumZero
<1>5. SumFunctionOnSet(zero, S) = SumFunctionOnSet(G, S) + SumFunctionOnSet(h, S)
  BY <1>2, SumPlus
<1>6. SumFunctionOnSet(G, S) \in Int /\ SumFunctionOnSet(h, S) \in Int
  BY <1>2, SumInt
<1> QED BY <1>3, <1>4, <1>5, <1>6

\* The papers of the scope, and what all their entries put on an account.
AllPosted(scope) == scope \in SUBSET Papers /\ \A p \in scope : PaperPosted(p)

LEMMA ScopeFinite == ASSUME NEW scope \in SUBSET Papers PROVE IsFiniteSet(scope)
BY JournalAssumption, FS_Subset

LEMMA PaperInt ==
  ASSUME JournalBooks, NEW p \in Papers
  PROVE  /\ TaxOf(p) \in Int
         /\ Terms[p].kind = "sale" => Terms[p].net \in Int
         /\ Terms[p].kind = "purchase" => Terms[p].total \in Int
         /\ Terms[p].kind = "payroll" => Terms[p].net \in Int
         /\ Terms[p].kind = "expense" => Terms[p].amount \in Int
<1>1. Priced(Terms[p]) /\ TaxOf(p) \in Nat
  BY StageIs
<1>2. Terms[p].kind = "sale" => Terms[p].net \in Nat
  BY <1>1 DEF Priced
<1>3. Terms[p].kind = "purchase" => Terms[p].total \in Nat
  BY <1>1 DEF Priced
<1>4. Terms[p].kind = "payroll" => Terms[p].net \in Int
  BY <1>1 DEF Priced
<1>5. Terms[p].kind = "expense" => Terms[p].amount \in Nat
  BY <1>1 DEF Priced
<1> QED BY <1>1, <1>2, <1>3, <1>4, <1>5

LEMMA VatAgrees ==
  ASSUME JournalBooks, NEW scope, AllPosted(scope)
  PROVE  Balance({"2020"}, scope) = 0 - OutputVat(scope) /\ OutputVat(scope) \in Int
<1> DEFINE T == Standing(scope)
           g == [p \in T |-> committed[Paper(p)].tax]
           G == [p \in Papers |-> Balance({"2020"}, {p})]
<1>1. scope \in SUBSET Papers /\ IsFiniteSet(scope)
  BY ScopeFinite DEF AllPosted
<1>2. T \in SUBSET scope /\ IsFiniteSet(T)
  BY <1>1, FS_Subset DEF Standing, In
<1>3. \A p \in T : g[p] = TaxOf(p) /\ g[p] \in Int
  BY <1>1, <1>2, PaperInt DEF TaxOf
<1>4. \A p \in scope : p \in T <=> Terms[p].kind = "sale" /\ Stage(p) = "SOLD"
  BY DEF Standing, In, Stage
<1>5. \A p \in scope : G[p] = IF p \in T THEN 0 - g[p] ELSE 0
  BY <1>1, <1>3, <1>4, VatOfPaper DEF AllPosted
<1>6. OutputVat(scope) = SumFunctionOnSet(g, T)
  BY DEF OutputVat
<1>7. Balance({"2020"}, scope) = SumFunctionOnSet(G, scope)
  BY <1>1, BalanceByPaper
<1> HIDE DEF T, g, G
<1>8. SumFunctionOnSet(G, scope) = 0 - SumFunctionOnSet(g, T)
  BY <1>1, <1>2, <1>3, <1>5, SumOpposite
<1>9. SumFunctionOnSet(g, T) \in Int
  BY <1>2, <1>3, SumInt
<1> QED BY <1>6, <1>7, <1>8, <1>9

LEMMA GrossInt ==
  ASSUME JournalBooks, NEW scope \in SUBSET Papers, NEW methods
  PROVE  GrossSales(scope, methods) \in Int
<1> DEFINE T == {p \in Standing(scope) : Terms[p].method \in methods}
           g == [p \in T |-> Terms[p].net]
<1>1. T \in SUBSET scope /\ IsFiniteSet(T)
  BY ScopeFinite, FS_Subset DEF Standing, In
<1>2. \A p \in T : g[p] \in Int
  BY <1>1, PaperInt DEF Standing, In
<1>3. GrossSales(scope, methods) = SumFunctionOnSet(g, T)
  BY DEF GrossSales, NetOfAll
<1> HIDE DEF T, g
<1> QED BY <1>1, <1>2, <1>3, SumInt

LEMMA RevenueAgrees ==
  ASSUME JournalBooks, NEW scope, AllPosted(scope)
  PROVE  Balance({"4010"}, scope) = OutputVat(scope) - GrossSales(scope, DOMAIN MoneyAccount)
<1> DEFINE T == Standing(scope)
           N == {p \in Standing(scope) : Terms[p].method \in DOMAIN MoneyAccount}
           g == [p \in T |-> committed[Paper(p)].tax]
           n == [p \in N |-> Terms[p].net]
           G == [p \in Papers |-> Balance({"4010"}, {p})]
           tax == [p \in scope |-> IF p \in T THEN g[p] ELSE 0]
           net == [p \in scope |-> IF p \in N THEN 0 - n[p] ELSE 0]
<1>1. scope \in SUBSET Papers /\ IsFiniteSet(scope)
  BY ScopeFinite DEF AllPosted
<1>2. T \in SUBSET scope /\ N \in SUBSET scope
  BY DEF Standing, In
<1>3. \A p \in scope : p \in T <=> Terms[p].kind = "sale" /\ Stage(p) = "SOLD"
  BY DEF Standing, In, Stage
<1>4. T = N
  <2>1. \A p \in T : Terms[p].method \in DOMAIN MoneyAccount
    <3> SUFFICES ASSUME NEW p \in T PROVE Terms[p].method \in DOMAIN MoneyAccount
      OBVIOUS
    <3>1. p \in Papers /\ Terms[p].kind = "sale"
      BY <1>1, <1>2, <1>3
    <3>2. Priced(Terms[p])
      BY <3>1, StageIs
    <3> QED BY <3>1, <3>2 DEF Priced
  <2> QED BY <2>1
<1>5. \A p \in T : g[p] = TaxOf(p) /\ g[p] \in Int
  BY <1>1, <1>2, PaperInt DEF TaxOf
<1>6. \A p \in N : n[p] = Terms[p].net /\ n[p] \in Int
  BY <1>1, <1>2, <1>3, <1>4, PaperInt
<1>7. \A p \in scope : G[p] = IF p \in T THEN TaxOf(p) - Terms[p].net ELSE 0
  BY <1>1, <1>3, RevenueOfPaper DEF AllPosted
<1>8. OutputVat(scope) = SumFunctionOnSet(g, T) /\ GrossSales(scope, DOMAIN MoneyAccount) = SumFunctionOnSet(n, N)
  BY DEF OutputVat, GrossSales, NetOfAll
<1>9. Balance({"4010"}, scope) = SumFunctionOnSet(G, scope)
  BY <1>1, BalanceByPaper
<1>10. \A p \in scope : tax[p] = IF p \in T THEN g[p] ELSE 0
  OBVIOUS
<1>11. \A p \in scope : net[p] = IF p \in N THEN 0 - n[p] ELSE 0
  OBVIOUS
<1> HIDE DEF T, N, g, n, G, tax, net
<1>12. \A p \in scope : tax[p] \in Int /\ net[p] \in Int /\ G[p] = tax[p] + net[p]
  BY <1>4, <1>5, <1>6, <1>7, <1>10, <1>11
<1>13. SumFunctionOnSet(G, scope) = SumFunctionOnSet(tax, scope) + SumFunctionOnSet(net, scope)
  BY <1>1, <1>12, SumPlus
<1>14. SumFunctionOnSet(g, T) = SumFunctionOnSet(tax, scope)
  BY <1>1, <1>2, <1>5, <1>10, SumPart
<1>15. SumFunctionOnSet(net, scope) = 0 - SumFunctionOnSet(n, N)
  BY <1>1, <1>2, <1>6, <1>11, SumOpposite
<1>16. SumFunctionOnSet(tax, scope) \in Int
  BY <1>1, <1>12, SumInt
<1>17. SumFunctionOnSet(n, N) \in Int
  BY <1>1, <1>8, GrossInt
<1> QED BY <1>8, <1>9, <1>13, <1>14, <1>15, <1>16, <1>17

LEMMA PayablesAgree ==
  ASSUME JournalBooks, NEW scope, AllPosted(scope)
  PROVE  Balance({"2010"}, scope) = 0 - Payables(scope)
<1> DEFINE T == In(scope, "purchase", {"UNPAID"})
           g == [p \in T |-> Terms[p].total]
           G == [p \in Papers |-> Balance({"2010"}, {p})]
<1>1. scope \in SUBSET Papers /\ IsFiniteSet(scope)
  BY ScopeFinite DEF AllPosted
<1>2. T \in SUBSET scope
  BY DEF In
<1>3. \A p \in scope : p \in T <=> Terms[p].kind = "purchase" /\ Stage(p) = "UNPAID"
  BY DEF In, Stage
<1>4. \A p \in T : g[p] = Terms[p].total /\ g[p] \in Int
  BY <1>1, <1>2, <1>3, PaperInt
<1>5. \A p \in scope : G[p] = IF p \in T THEN 0 - g[p] ELSE 0
  BY <1>1, <1>3, <1>4, PayablesOfPaper DEF AllPosted
<1>6. Payables(scope) = SumFunctionOnSet(g, T)
  BY DEF Payables, TotalOfAll
<1>7. Balance({"2010"}, scope) = SumFunctionOnSet(G, scope)
  BY <1>1, BalanceByPaper
<1> HIDE DEF T, g, G
<1>8. SumFunctionOnSet(G, scope) = 0 - SumFunctionOnSet(g, T)
  BY <1>1, <1>2, <1>4, <1>5, SumOpposite
<1> QED BY <1>6, <1>7, <1>8

LEMMA ShelvesAgree ==
  ASSUME JournalBooks, NEW scope, AllPosted(scope)
  PROVE  Balance({"1030"}, scope) = ShelfValue(scope)
<1> DEFINE T == MovedGoods(scope)
           g == [p \in T |-> Moved(p)]
           G == [p \in Papers |-> Balance({"1030"}, {p})]
<1>1. scope \in SUBSET Papers /\ IsFiniteSet(scope)
  BY ScopeFinite DEF AllPosted
<1>2. T \in SUBSET scope
  BY DEF MovedGoods
<1>3. \A p \in scope : p \in T <=> /\ Announced(p) /\ Terms[p].kind \notin {"payroll", "expense"}
                                   /\ Stage(p) \notin {"none", "CANCELLED", "REFUNDED"}
  BY DEF MovedGoods, Stage
<1>4. \A p \in T : g[p] = Moved(p)
  OBVIOUS
<1>5. \A p \in scope : G[p] = IF p \in T THEN Moved(p) ELSE 0
  BY <1>1, <1>3, StockOfPaper DEF AllPosted
<1>6. ASSUME NEW p \in T PROVE Moved(p) \in Int
  <2>1. p \in Papers /\ Terms[p].kind \notin {"payroll", "expense"}
    BY <1>1, <1>2, <1>3
  <2>2. Priced(Terms[p]) /\ Terms[p].kind \in {"sale", "purchase", "job", "payroll", "expense", "adjustment"}
    BY <2>1, StageIs
  <2>3. CASE Terms[p].kind = "sale"
    BY <2>2, <2>3 DEF Priced, Moved
  <2>4. CASE Terms[p].kind = "purchase"
    BY <2>2, <2>4 DEF Priced, Moved
  <2>5. CASE Terms[p].kind = "job"
    BY <2>2, <2>5 DEF Priced, Moved
  <2>6. CASE Terms[p].kind = "adjustment"
    BY <2>2, <2>6 DEF Priced, Moved
  <2> QED BY <2>1, <2>2, <2>3, <2>4, <2>5, <2>6
<1>7. ShelfValue(scope) = SumFunctionOnSet(g, T)
  BY DEF ShelfValue
<1>8. Balance({"1030"}, scope) = SumFunctionOnSet(G, scope)
  BY <1>1, BalanceByPaper
<1> HIDE DEF T, g, G
<1>9. \A p \in scope : G[p] = IF p \in T THEN g[p] ELSE 0
  BY <1>4, <1>5
<1>10. SumFunctionOnSet(g, T) = SumFunctionOnSet(G, scope)
  BY <1>1, <1>2, <1>4, <1>6, <1>9, SumPart
<1> QED BY <1>7, <1>8, <1>10

\* What came in by one method is what the orders that stand say.
LEMMA SalesMoney ==
  ASSUME JournalBooks, NEW scope \in SUBSET Papers, NEW method,
         NEW a, \A p \in scope : a[p] =
           IF Terms[p].kind = "sale" /\ Stage(p) = "SOLD" /\ Terms[p].method = method THEN Terms[p].net ELSE 0
  PROVE  /\ \A p \in scope : a[p] \in Int
         /\ SumFunctionOnSet(a, scope) = GrossSales(scope, {method})
<1> DEFINE N == {p \in Standing(scope) : Terms[p].method \in {method}}
           n == [p \in N |-> Terms[p].net]
<1>1. IsFiniteSet(scope)
  BY ScopeFinite
<1>2. N \in SUBSET scope
  BY DEF Standing, In
<1>3. \A p \in scope : p \in N <=> Terms[p].kind = "sale" /\ Stage(p) = "SOLD" /\ Terms[p].method = method
  BY DEF Standing, In, Stage
<1>4. \A p \in N : n[p] = Terms[p].net /\ n[p] \in Int
  BY <1>2, <1>3, PaperInt
<1>5. GrossSales(scope, {method}) = SumFunctionOnSet(n, N)
  BY DEF GrossSales, NetOfAll
<1> HIDE DEF N, n
<1>6. \A p \in scope : a[p] = IF p \in N THEN n[p] ELSE 0
  BY <1>3, <1>4
<1>7. SumFunctionOnSet(n, N) = SumFunctionOnSet(a, scope)
  BY <1>1, <1>2, <1>4, <1>6, SumPart
<1> QED BY <1>4, <1>5, <1>6, <1>7

\* What went out of the till, by kind of paper: g over the papers, b over the scope.
PaysOut(scope, kind, st, g, b) ==
  /\ \A p \in In(scope, kind, {st}) : g[p] \in Int
  /\ \A p \in scope : b[p] = IF Terms[p].kind = kind /\ Stage(p) = st THEN 0 - g[p] ELSE 0
OutIs(scope, kind, st, g, b) ==
  /\ \A p \in scope : b[p] \in Int
  /\ SumFunctionOnSet(b, scope) = 0 - SumFunctionOnSet(g, In(scope, kind, {st}))
  /\ SumFunctionOnSet(g, In(scope, kind, {st})) \in Int

LEMMA TillPays ==
  ASSUME NEW scope \in SUBSET Papers, NEW kind, NEW st, NEW g, NEW b, PaysOut(scope, kind, st, g, b)
  PROVE  OutIs(scope, kind, st, g, b)
<1>0. PICK T : T = In(scope, kind, {st})
  OBVIOUS
<1>1. IsFiniteSet(scope)
  BY ScopeFinite
<1>2. T \in SUBSET scope /\ \A p \in scope : p \in T <=> Terms[p].kind = kind /\ Stage(p) = st
  BY <1>0 DEF In, Stage
<1>3. IsFiniteSet(T)
  BY <1>1, <1>2, FS_Subset
<1>4. \A p \in T : g[p] \in Int
  BY <1>0 DEF PaysOut
<1>5. \A p \in scope : b[p] = IF p \in T THEN 0 - g[p] ELSE 0
  BY <1>2 DEF PaysOut
<1>6. SumFunctionOnSet(b, scope) = 0 - SumFunctionOnSet(g, T)
  BY <1>1, <1>2, <1>4, <1>5, SumOpposite
<1>7. SumFunctionOnSet(g, T) \in Int
  BY <1>3, <1>4, SumInt
<1>8. \A p \in scope : b[p] \in Int
  BY <1>4, <1>5
<1> QED BY <1>0, <1>6, <1>7, <1>8 DEF OutIs

LEMMA CardAgrees ==
  ASSUME JournalBooks, NEW scope, AllPosted(scope), NEW method \in DOMAIN MoneyAccount, method # "CASH"
  PROVE  Balance({MoneyAccount[method]}, scope) = GrossSales(scope, {method})
<1> DEFINE G == [p \in Papers |-> Balance({MoneyAccount[method]}, {p})]
<1>1. scope \in SUBSET Papers
  BY DEF AllPosted
<1>2. Balance({MoneyAccount[method]}, scope) = SumFunctionOnSet(G, scope)
  BY <1>1, BalanceByPaper
<1>3. ASSUME NEW p \in scope
      PROVE  G[p] = IF Terms[p].kind = "sale" /\ Stage(p) = "SOLD" /\ Terms[p].method = method
                      THEN Terms[p].net ELSE 0
  <2>1. p \in Papers /\ PaperPosted(p)
    BY <1>1 DEF AllPosted
  <2>2. Terms[p].kind \in {"sale", "purchase", "job", "payroll", "expense", "adjustment"}
    BY <2>1, StageIs
  <2>3. G[p] = Balance({MoneyAccount[method]}, {p})
    BY <2>1
  <2> HIDE DEF G
  <2> QED BY <2>1, <2>2, <2>3, MoneyOfPaper
<1> HIDE DEF G
<1>4. SumFunctionOnSet(G, scope) = GrossSales(scope, {method})
  BY <1>1, <1>3, SalesMoney
<1> QED BY <1>2, <1>4

LEMMA CashAgrees ==
  ASSUME JournalBooks, NEW scope, AllPosted(scope)
  PROVE  Balance({MoneyAccount["CASH"]}, scope) = GrossSales(scope, {"CASH"}) - Disbursed(scope)
<1> DEFINE Q == In(scope, "purchase", {"PAID"})
           W == In(scope, "payroll", {"APPROVED"})
           X == In(scope, "expense", {"PAID"})
           q == [p \in Q |-> Terms[p].total]
           w == [p \in W |-> Terms[p].net]
           x == [p \in X |-> Terms[p].amount]
           a == [p \in scope |-> IF Terms[p].kind = "sale" /\ Stage(p) = "SOLD" /\ Terms[p].method = "CASH"
                                   THEN Terms[p].net ELSE 0]
           b == [p \in scope |-> IF Terms[p].kind = "purchase" /\ Stage(p) = "PAID" THEN 0 - q[p] ELSE 0]
           c == [p \in scope |-> IF Terms[p].kind = "payroll" /\ Stage(p) = "APPROVED" THEN 0 - w[p] ELSE 0]
           d == [p \in scope |-> IF Terms[p].kind = "expense" /\ Stage(p) = "PAID" THEN 0 - x[p] ELSE 0]
           ab == [p \in scope |-> a[p] + b[p]]
           cd == [p \in scope |-> c[p] + d[p]]
           G == [p \in Papers |-> Balance({MoneyAccount["CASH"]}, {p})]
<1>1. scope \in SUBSET Papers /\ IsFiniteSet(scope)
  BY ScopeFinite DEF AllPosted
<1>2. /\ \A p \in scope : p \in Q <=> Terms[p].kind = "purchase" /\ Stage(p) = "PAID"
      /\ \A p \in scope : p \in W <=> Terms[p].kind = "payroll" /\ Stage(p) = "APPROVED"
      /\ \A p \in scope : p \in X <=> Terms[p].kind = "expense" /\ Stage(p) = "PAID"
      /\ Q \subseteq scope /\ W \subseteq scope /\ X \subseteq scope
  BY DEF In, Stage
<1>3. /\ \A p \in Q : q[p] = Terms[p].total /\ q[p] \in Int
      /\ \A p \in W : w[p] = Terms[p].net /\ w[p] \in Int
      /\ \A p \in X : x[p] = Terms[p].amount /\ x[p] \in Int
  BY <1>1, <1>2, PaperInt
<1>4. /\ TotalOfAll(Q) = SumFunctionOnSet(q, Q) /\ NetOfAll(W) = SumFunctionOnSet(w, W)
      /\ AmountOfAll(X) = SumFunctionOnSet(x, X)
  BY DEF TotalOfAll, NetOfAll, AmountOfAll
<1>5. Disbursed(scope) = TotalOfAll(Q) + NetOfAll(W) + AmountOfAll(X)
  BY DEF Disbursed
<1>6. /\ \A p \in scope : a[p] = IF Terms[p].kind = "sale" /\ Stage(p) = "SOLD" /\ Terms[p].method = "CASH"
                                   THEN Terms[p].net ELSE 0
      /\ \A p \in scope : b[p] = IF Terms[p].kind = "purchase" /\ Stage(p) = "PAID" THEN 0 - q[p] ELSE 0
      /\ \A p \in scope : c[p] = IF Terms[p].kind = "payroll" /\ Stage(p) = "APPROVED" THEN 0 - w[p] ELSE 0
      /\ \A p \in scope : d[p] = IF Terms[p].kind = "expense" /\ Stage(p) = "PAID" THEN 0 - x[p] ELSE 0
      /\ \A p \in scope : ab[p] = a[p] + b[p] /\ cd[p] = c[p] + d[p]
  OBVIOUS
<1>7. \A p \in scope : G[p] = Balance({MoneyAccount["CASH"]}, {p})
  BY <1>1
<1>8. Balance({MoneyAccount["CASH"]}, scope) = SumFunctionOnSet(G, scope)
  BY <1>1, BalanceByPaper
<1> HIDE DEF Q, W, X, q, w, x, a, b, c, d, ab, cd, G
<1>9. (\A p \in scope : a[p] \in Int) /\ SumFunctionOnSet(a, scope) = GrossSales(scope, {"CASH"})
  BY <1>1, <1>6, SalesMoney
<1>10. /\ \A p \in scope : b[p] \in Int
       /\ SumFunctionOnSet(b, scope) = 0 - SumFunctionOnSet(q, Q) /\ SumFunctionOnSet(q, Q) \in Int
  <2>1. Q = In(scope, "purchase", {"PAID"})
    BY DEF Q
  <2>2. PaysOut(scope, "purchase", "PAID", q, b)
    BY <1>3, <1>6, <2>1 DEF PaysOut
  <2>3. OutIs(scope, "purchase", "PAID", q, b)
    BY <1>1, <2>2, TillPays
  <2> QED BY <2>1, <2>3 DEF OutIs
<1>11. /\ \A p \in scope : c[p] \in Int
       /\ SumFunctionOnSet(c, scope) = 0 - SumFunctionOnSet(w, W) /\ SumFunctionOnSet(w, W) \in Int
  <2>1. W = In(scope, "payroll", {"APPROVED"})
    BY DEF W
  <2>2. PaysOut(scope, "payroll", "APPROVED", w, c)
    BY <1>3, <1>6, <2>1 DEF PaysOut
  <2>3. OutIs(scope, "payroll", "APPROVED", w, c)
    BY <1>1, <2>2, TillPays
  <2> QED BY <2>1, <2>3 DEF OutIs
<1>12. /\ \A p \in scope : d[p] \in Int
       /\ SumFunctionOnSet(d, scope) = 0 - SumFunctionOnSet(x, X) /\ SumFunctionOnSet(x, X) \in Int
  <2>1. X = In(scope, "expense", {"PAID"})
    BY DEF X
  <2>2. PaysOut(scope, "expense", "PAID", x, d)
    BY <1>3, <1>6, <2>1 DEF PaysOut
  <2>3. OutIs(scope, "expense", "PAID", x, d)
    BY <1>1, <2>2, TillPays
  <2> QED BY <2>1, <2>3 DEF OutIs
<1>13. ASSUME NEW p \in scope PROVE G[p] = ab[p] + cd[p]
  <2>1. p \in Papers /\ PaperPosted(p)
    BY <1>1 DEF AllPosted
  <2>2. Terms[p].kind \in {"sale", "purchase", "job", "payroll", "expense", "adjustment"}
    BY <2>1, StageIs
  <2>3. "CASH" \in DOMAIN MoneyAccount
    BY DEF MoneyAccount
  <2>4. G[p] =
    CASE Terms[p].kind = "sale"     -> IF Stage(p) = "SOLD" /\ Terms[p].method = "CASH" THEN Terms[p].net ELSE 0
      [] Terms[p].kind = "purchase" -> IF Stage(p) = "PAID" THEN 0 - Terms[p].total ELSE 0
      [] Terms[p].kind = "payroll"  -> IF Stage(p) = "APPROVED" THEN 0 - Terms[p].net ELSE 0
      [] Terms[p].kind = "expense"  -> IF Stage(p) = "PAID" THEN 0 - Terms[p].amount ELSE 0
      [] OTHER -> 0
    BY <1>7, <2>1, <2>2, <2>3, MoneyOfPaper
  <2>5. ab[p] = a[p] + b[p] /\ cd[p] = c[p] + d[p]
    BY <1>6
  <2>6. a[p] \in Int /\ b[p] \in Int /\ c[p] \in Int /\ d[p] \in Int
    BY <1>9, <1>10, <1>11, <1>12
  <2>7. CASE Terms[p].kind = "sale"
    BY <1>6, <2>4, <2>5, <2>6, <2>7
  <2>8. CASE Terms[p].kind = "purchase"
    <3>1. b[p] = IF Stage(p) = "PAID" THEN 0 - Terms[p].total ELSE 0
      BY <1>2, <1>3, <1>6, <2>8
    <3>2. a[p] = 0 /\ c[p] = 0 /\ d[p] = 0
      BY <1>6, <2>8
    <3> QED BY <2>4, <2>5, <2>6, <2>8, <3>1, <3>2
  <2>9. CASE Terms[p].kind = "payroll"
    <3>1. c[p] = IF Stage(p) = "APPROVED" THEN 0 - Terms[p].net ELSE 0
      BY <1>2, <1>3, <1>6, <2>9
    <3>2. a[p] = 0 /\ b[p] = 0 /\ d[p] = 0
      BY <1>6, <2>9
    <3> QED BY <2>4, <2>5, <2>6, <2>9, <3>1, <3>2
  <2>10. CASE Terms[p].kind = "expense"
    <3>1. d[p] = IF Stage(p) = "PAID" THEN 0 - Terms[p].amount ELSE 0
      BY <1>2, <1>3, <1>6, <2>10
    <3>2. a[p] = 0 /\ b[p] = 0 /\ c[p] = 0
      BY <1>6, <2>10
    <3> QED BY <2>4, <2>5, <2>6, <2>10, <3>1, <3>2
  <2>11. CASE Terms[p].kind \in {"job", "adjustment"}
    BY <1>6, <2>4, <2>5, <2>6, <2>11
  <2> QED BY <2>2, <2>7, <2>8, <2>9, <2>10, <2>11
<1>14. \A p \in scope : a[p] \in Int /\ b[p] \in Int /\ ab[p] = a[p] + b[p] /\ ab[p] \in Int
  BY <1>6, <1>9, <1>10
<1>15. \A p \in scope : c[p] \in Int /\ d[p] \in Int /\ cd[p] = c[p] + d[p] /\ cd[p] \in Int
  BY <1>6, <1>11, <1>12
<1>16. SumFunctionOnSet(ab, scope) = SumFunctionOnSet(a, scope) + SumFunctionOnSet(b, scope)
  BY <1>1, <1>14, SumPlus
<1>17. SumFunctionOnSet(cd, scope) = SumFunctionOnSet(c, scope) + SumFunctionOnSet(d, scope)
  BY <1>1, <1>15, SumPlus
<1>18. SumFunctionOnSet(G, scope) = SumFunctionOnSet(ab, scope) + SumFunctionOnSet(cd, scope)
  BY <1>1, <1>13, <1>14, <1>15, SumPlus
<1>19. SumFunctionOnSet(a, scope) \in Int
  BY <1>1, <1>9, SumInt
<1>20. Balance({MoneyAccount["CASH"]}, scope) =
         GrossSales(scope, {"CASH"}) + (0 - SumFunctionOnSet(q, Q))
           + ((0 - SumFunctionOnSet(w, W)) + (0 - SumFunctionOnSet(x, X)))
  BY <1>8, <1>9, <1>10, <1>11, <1>12, <1>16, <1>17, <1>18
<1> QED BY <1>4, <1>5, <1>9, <1>10, <1>11, <1>12, <1>19, <1>20

LEMMA JournalEnough == ASSUME JournalInv PROVE StatementsAgree
<1>1. SUFFICES ASSUME desk = "journal", NEW scope \in Scopes, AllTold(scope)
               PROVE  /\ Balance({"2020"}, scope) = 0 - OutputVat(scope)
                      /\ Balance({"4010"}, scope) = OutputVat(scope) - GrossSales(scope, DOMAIN MoneyAccount)
                      /\ Balance({"2010"}, scope) = 0 - Payables(scope)
                      /\ Balance({"1030"}, scope) = ShelfValue(scope)
                      /\ \A method \in DOMAIN MoneyAccount :
                           Balance({MoneyAccount[method]}, scope) =
                             GrossSales(scope, {method}) - (IF method = "CASH" THEN Disbursed(scope) ELSE 0)
  <2>1. desk = "journal" => \A scope \in Scopes : SheetBalances(scope)
    BY SheetHolds DEF JournalInv
  <2> QED BY <2>1 DEF StatementsAgree
<1>2. JournalBooks
  BY <1>1 DEF JournalInv
<1>3. scope \in SUBSET Papers
  BY <1>1 DEF Scopes, At
<1>4. AllPosted(scope)
  BY <1>1, <1>2, <1>3, ToldIsPosted DEF AllPosted
<1>5. ASSUME NEW method \in DOMAIN MoneyAccount
      PROVE  Balance({MoneyAccount[method]}, scope) =
               GrossSales(scope, {method}) - (IF method = "CASH" THEN Disbursed(scope) ELSE 0)
  <2>1. CASE method = "CASH"
    BY <1>2, <1>4, <2>1, CashAgrees
  <2>2. CASE method # "CASH"
    <3>1. Balance({MoneyAccount[method]}, scope) = GrossSales(scope, {method})
      BY <1>2, <1>4, <2>2, CardAgrees
    <3>2. GrossSales(scope, {method}) \in Int
      BY <1>2, <1>3, GrossInt
    <3> QED BY <2>2, <3>1, <3>2
  <2> QED BY <2>1, <2>2
<1> QED BY <1>2, <1>4, <1>5, VatAgrees, RevenueAgrees, PayablesAgree, ShelvesAgree

\* docs/architecture.md: "the operational numbers and the accounting numbers agree by
\* construction".  For any papers with any amounts, any VAT rates, and events delivered
\* in any order, any number of times: the balance sheet of the chain and of each branch
\* balances at all times, and when every event has been delivered, output VAT, revenue,
\* payables, inventory and each money account are those of the papers.
THEOREM StatementsAgreeHolds == Spec => []StatementsAgree
<1>1. Init => JournalInv
  BY JournalInitInv
<1>2. JournalInv /\ [Next]_serviceVars => JournalInv'
  BY JournalNextInv
<1>3. JournalInv => StatementsAgree
  BY JournalEnough
<1> QED BY <1>1, <1>2, <1>3, PTL DEF Spec

-------------------------------------------------------------------------------
(* Every row keeps its type.                                               *)

Figures == [st : {"none", "PENDING", "APPROVED"}, expected : Int]
Attendances == {NoRecord} \union [st : {"open", "closed"}, who : Employees, site : Sites]
Payrolls == {NoRun} \union [st : {"DRAFT", "APPROVED"}, site : Sites, slips : SUBSET Slips]

\* The values a row may have; goods move in the stockroom only.
TypeOf(r) ==
  CASE r[1] = "shelf"      -> IF desk = "stockroom" THEN Nat ELSE {Opening[r[2]]}
    [] r[1] = "count"      -> CountStatuses
    [] r[1] = "line"       -> [counted : Counted \union {Null}, expected : Nat \union {Null}]
    [] r[1] = "job"        -> JobStatuses
    [] r[1] = "supply"     -> Nat
    [] r[1] = "po"         -> POStatuses
    [] r[1] = "item"       -> BOOLEAN
    [] r[1] = "settlement" -> Figures
    [] r[1] = "till"       -> Int
    [] r[1] = "employee"   -> Sites
    [] r[1] = "record"     -> Attendances
    [] r[1] = "run"        -> Payrolls
    [] r[1] = "leave"      -> {"PENDING", "APPROVED", "REJECTED"}
    [] r[1] = "spend"      -> Nat
    [] r[1] = "member"     -> [tier : DOMAIN TierFrom, hidden : BOOLEAN]
    [] r[1] = "paper"      -> [st : PaperStatuses, tax : Nat]
    [] r[1] = "rate"       -> Rates

LEMMA RowTypes ==
  /\ \A i : TypeOf(Shelf(i)) = IF desk = "stockroom" THEN Nat ELSE {Opening[i]}
  /\ \A c : TypeOf(Count(c)) = CountStatuses
  /\ \A c, i : TypeOf(Line(c, i)) = [counted : Counted \union {Null}, expected : Nat \union {Null}]
  /\ \A j : TypeOf(Job(j)) = JobStatuses
  /\ \A i : TypeOf(Supply(i)) = Nat
  /\ \A p : TypeOf(PO(p)) = POStatuses
  /\ \A p, i : TypeOf(Item(p, i)) = BOOLEAN
  /\ \A s : TypeOf(Settlement(s)) = Figures
  /\ TypeOf(Till) = Int
  /\ \A u : TypeOf(Employee(u)) = Sites
  /\ \A r : TypeOf(Record(r)) = Attendances
  /\ \A n : TypeOf(Run(n)) = Payrolls
  /\ \A l : TypeOf(Leave(l)) = {"PENDING", "APPROVED", "REJECTED"}
  /\ \A m : TypeOf(Spend(m)) = Nat
  /\ \A m : TypeOf(Member(m)) = [tier : DOMAIN TierFrom, hidden : BOOLEAN]
  /\ \A p : TypeOf(Paper(p)) = [st : PaperStatuses, tax : Nat]
  /\ TypeOf(Rate) = Rates
<1>1. \A i : <<"shelf", i>>[1] = "shelf" /\ <<"shelf", i>>[2] = i
  OBVIOUS
<1>2. \A i : TypeOf(Shelf(i)) = IF desk = "stockroom" THEN Nat ELSE {Opening[i]}
  BY <1>1 DEF TypeOf, Shelf
<1>3. \A x : /\ <<"count", x>>[1] = "count" /\ <<"job", x>>[1] = "job" /\ <<"supply", x>>[1] = "supply"
             /\ <<"po", x>>[1] = "po" /\ <<"settlement", x>>[1] = "settlement"
             /\ <<"employee", x>>[1] = "employee" /\ <<"record", x>>[1] = "record"
             /\ <<"run", x>>[1] = "run" /\ <<"leave", x>>[1] = "leave"
             /\ <<"spend", x>>[1] = "spend" /\ <<"member", x>>[1] = "member"
             /\ <<"paper", x>>[1] = "paper"
  OBVIOUS
<1>4. \A x, y : <<"line", x, y>>[1] = "line" /\ <<"item", x, y>>[1] = "item"
  OBVIOUS
<1>5. <<"till">>[1] = "till" /\ <<"rate">>[1] = "rate"
  OBVIOUS
<1>6. /\ \A c : TypeOf(Count(c)) = CountStatuses
      /\ \A c, i : TypeOf(Line(c, i)) = [counted : Counted \union {Null}, expected : Nat \union {Null}]
      /\ \A j : TypeOf(Job(j)) = JobStatuses
  BY <1>3, <1>4 DEF TypeOf, Count, Line, Job
<1>7. /\ \A i : TypeOf(Supply(i)) = Nat
      /\ \A p : TypeOf(PO(p)) = POStatuses
      /\ \A p, i : TypeOf(Item(p, i)) = BOOLEAN
  BY <1>3, <1>4 DEF TypeOf, Supply, PO, Item
<1>8. /\ \A s : TypeOf(Settlement(s)) = Figures
      /\ TypeOf(Till) = Int
  BY <1>3, <1>5 DEF TypeOf, Settlement, Till
<1>9. /\ \A u : TypeOf(Employee(u)) = Sites
      /\ \A r : TypeOf(Record(r)) = Attendances
      /\ \A n : TypeOf(Run(n)) = Payrolls
      /\ \A l : TypeOf(Leave(l)) = {"PENDING", "APPROVED", "REJECTED"}
  BY <1>3 DEF TypeOf, Employee, Record, Run, Leave
<1>10. /\ \A m : TypeOf(Spend(m)) = Nat
       /\ \A m : TypeOf(Member(m)) = [tier : DOMAIN TierFrom, hidden : BOOLEAN]
  BY <1>3 DEF TypeOf, Spend, Member
<1>11. (\A p : TypeOf(Paper(p)) = [st : PaperStatuses, tax : Nat]) /\ TypeOf(Rate) = Rates
  BY <1>3, <1>5 DEF TypeOf, Paper, Rate
<1> QED BY <1>2, <1>6, <1>7, <1>8, <1>9, <1>10, <1>11

RowsTyped ==
  /\ RowShape
  /\ \A r \in Rows : lock[r] = NoTxn => db[r] = committed[r]
  /\ \A r \in Rows : db[r] \in TypeOf(r) /\ committed[r] \in TypeOf(r)

\* Requests that may have written something they have not committed.
Holder(op, pc) ==
  /\ op \in {"lines", "submit", "approve", "adjust", "complete", "signoff", "payout", "reorder"}
  /\ pc \notin {"setpo", "stock", "snapshot"}

\* What a request has read, where its type does not follow from elsewhere.
ReadFits(op, pc, row, read) ==
  /\ op = "lines" => read.qty \in Counted
  /\ op = "move" => read.to \in JobStatuses
  /\ op = "settle" /\ pc = "save" => read.expected \in Int
  /\ op = "clockin" => read.site \in Sites
  /\ op = "generate" => read.site \in Sites /\ read.slips \subseteq Slips
  /\ op = "tier" => (\E m \in Members : row = Member(m)) /\ (pc # "spend" => read.spend \in Nat)

\* The stockroom tells the journal of its events, the journal posts.
Homely(entries) == \A e \in entries : /\ e.kind = "event" => desk = "stockroom"
                                      /\ e.kind = "entry" => desk = "journal"

RequestsTyped ==
  /\ RequestShape
  /\ \A t \in Txns : ReadFits(tx[t].op, tx[t].pc, tx[t].row, tx[t].read) /\ Homely(tx[t].out)
  /\ \A t \in Txns : \A r \in Rows : lock[r] = t => Holder(tx[t].op, tx[t].pc)

LogTyped == (\A e \in DOMAIN log : log[e] \in Nat) /\ Homely(DOMAIN log)
BoundsTyped == desk \in Departments /\ begun \in 0 .. MaxBegun[desk] /\ raced \subseteq Rows

BackTypes == RowsTyped /\ RequestsTyped /\ LogTyped /\ BoundsTyped

\* The only locks that change are those of one request.
OwnLocks(t) == \A r \in Rows : lock'[r] \in {lock[r], t, NoTxn}

LEMMA TypesStay == ASSUME desk' = desk PROVE \A r : TypeOf(r)' = TypeOf(r)
BY DEF TypeOf

LEMMA RowsStill ==
  ASSUME RowsTyped, UNCHANGED <<db, committed, lock, desk>>
  PROVE  RowsTyped' /\ \A t : OwnLocks(t)
BY TypesStay, SameRows DEF RowsTyped, OwnLocks

LEMMA PutTypes ==
  ASSUME RowsTyped, desk' = desk, NEW row \in Rows, NEW v \in TypeOf(row), Put(row, v)
  PROVE  RowsTyped' /\ lock' = lock
<1>1. /\ lock' = lock /\ RowShape' /\ db'[row] = v /\ committed'[row] = v
      /\ \A r \in Rows \ {row} : db'[r] = db[r] /\ committed'[r] = committed[r]
  BY PutDoes DEF RowsTyped
<1> QED BY <1>1, TypesStay DEF RowsTyped

LEMMA WriteTypes ==
  ASSUME RowsTyped, desk' = desk, committed' = committed, NEW t \in Txns, NEW row \in Rows,
         NEW v \in TypeOf(row), Write(t, row, v)
  PROVE  RowsTyped' /\ OwnLocks(t)
<1>1. /\ RowShape' /\ lock'[row] = t /\ db'[row] = v
      /\ \A r \in Rows \ {row} : db'[r] = db[r] /\ lock'[r] = lock[r]
  BY WriteDoes DEF RowsTyped
<1>2. t # NoTxn
  BY RequestsAssumption
<1> QED BY <1>1, <1>2, TypesStay DEF RowsTyped, OwnLocks

LEMMA UndoTypes ==
  ASSUME RowsTyped, desk' = desk, NEW t \in Txns, UndoWrites(t)
  PROVE  RowsTyped' /\ OwnLocks(t) /\ \A r \in Rows : lock'[r] # t
<1>1. /\ committed' = committed /\ RowShape' /\ t # NoTxn
      /\ \A r \in Rows : lock[r] = t => db'[r] = committed[r] /\ lock'[r] = NoTxn
      /\ \A r \in Rows : lock[r] # t => db'[r] = db[r] /\ lock'[r] = lock[r]
  BY UndoDoes, RequestsAssumption DEF RowsTyped
<1> QED BY <1>1, TypesStay DEF RowsTyped, OwnLocks

LEMMA KeepTypes ==
  ASSUME RowsTyped, desk' = desk, NEW t \in Txns, KeepWrites(t)
  PROVE  RowsTyped' /\ OwnLocks(t) /\ \A r \in Rows : lock'[r] # t
<1>1. /\ db' = db /\ RowShape' /\ t # NoTxn
      /\ \A r \in Rows : lock[r] = t => committed'[r] = db[r] /\ lock'[r] = NoTxn
      /\ \A r \in Rows : lock[r] # t => committed'[r] = committed[r] /\ lock'[r] = lock[r]
  BY KeepDoes, RequestsAssumption DEF RowsTyped
<1> QED BY <1>1, TypesStay DEF RowsTyped, OwnLocks

LEMMA LogTypes ==
  ASSUME LogTyped, desk' = desk, NEW entries, Homely(entries), Logged(entries)
  PROVE  LogTyped'
<1>1. /\ DOMAIN log' = DOMAIN log \union entries
      /\ \A e \in DOMAIN log' : log'[e] = Times(e) + (IF e \in entries THEN 1 ELSE 0)
  BY LoggedDoes
<1>2. \A e : Times(e) \in Nat
  BY DEF LogTyped, Times
<1> QED BY <1>1, <1>2 DEF LogTyped, Homely

LEMMA LogStill == ASSUME LogTyped, UNCHANGED <<log, desk>> PROVE LogTyped'
BY DEF LogTyped, Homely

\* The request of a step, as the step leaves it.
LEMMA RequestTypes ==
  ASSUME RequestsTyped, desk' = desk, NEW t \in Txns, RequestShape', OthersWait(t), OwnLocks(t),
         ReadFits(tx'[t].op, tx'[t].pc, tx'[t].row, tx'[t].read), Homely(tx'[t].out),
         \A r \in Rows : lock'[r] = t => Holder(tx'[t].op, tx'[t].pc)
  PROVE  RequestsTyped'
<1>1. ASSUME NEW u \in Txns
      PROVE  ReadFits(tx'[u].op, tx'[u].pc, tx'[u].row, tx'[u].read) /\ Homely(tx[u].out)'
  <2>1. CASE u = t
    BY <2>1 DEF Homely
  <2>2. CASE u # t
    BY <2>2 DEF RequestsTyped, OthersWait, Homely
  <2> QED BY <2>1, <2>2
<1>2. ASSUME NEW u \in Txns, NEW r \in Rows, lock'[r] = u PROVE Holder(tx'[u].op, tx'[u].pc)
  <2>1. CASE u = t
    BY <1>2, <2>1
  <2>2. CASE u # t
    BY <1>2, <2>2, RequestsAssumption DEF RequestsTyped, OthersWait, OwnLocks
  <2> QED BY <2>1, <2>2
<1> QED BY <1>1, <1>2 DEF RequestsTyped

LEMMA BegunTyped ==
  ASSUME BackTypes, desk' = desk, OneMore \/ begun' = begun, raced' \subseteq Rows
  PROVE  BoundsTyped'
<1>1. desk \in Departments /\ begun \in 0 .. MaxBegun[desk] /\ MaxBegun[desk] \in Nat
  BY RequestsAssumption DEF BackTypes, BoundsTyped
<1> QED BY <1>1 DEF BoundsTyped, OneMore

\* A request begins.
LEMMA BeginsTyped ==
  ASSUME BackTypes, NEW t \in Txns, NEW op, NEW pc, NEW row, NEW read, ReadFits(op, pc, row, read),
         NEW stale \in SUBSET Rows, BeginBeside(t, op, pc, row, read, stale)
  PROVE  BackTypes'
<1>1. UNCHANGED <<db, committed, lock, log, desk>> /\ OneMore /\ raced' = raced \union stale
  BY DEF BeginBeside
<1>2. /\ tx[t].op = "none" /\ tx'[t].op = op /\ tx'[t].pc = pc /\ tx'[t].row = row /\ tx'[t].read = read /\ tx'[t].out = {}
      /\ OthersWait(t) /\ RequestShape'
  BY BeginDoes DEF BackTypes, RequestsTyped
<1>3. RowsTyped' /\ OwnLocks(t) /\ LogTyped'
  BY <1>1, RowsStill, LogStill DEF BackTypes
<1>4. \A r \in Rows : lock'[r] # t
  BY <1>1, <1>2 DEF BackTypes, RequestsTyped, Holder
<1>5. Homely({})
  BY DEF Homely
<1>6. RequestsTyped'
  BY <1>1, <1>2, <1>3, <1>4, <1>5, RequestTypes DEF BackTypes
<1>7. raced' \subseteq Rows
  BY <1>1 DEF BackTypes, BoundsTyped
<1>8. BoundsTyped'
  BY <1>1, <1>7, BegunTyped
<1> QED BY <1>3, <1>6, <1>8 DEF BackTypes

\* A request goes on to its next statement.
LEMMA ContinuesTyped ==
  ASSUME BackTypes, NEW t \in Txns, NEW pc, NEW read, NEW out, Continue(t, pc, read, out),
         RowsTyped', OwnLocks(t), raced' \subseteq Rows,
         ReadFits(tx[t].op, pc, tx[t].row, read), Homely(out),
         \A r \in Rows : lock'[r] = t => Holder(tx[t].op, pc)
  PROVE  BackTypes'
<1>1. UNCHANGED <<committed, log, begun, desk>>
  BY DEF Continue
<1>2. /\ tx'[t].op = tx[t].op /\ tx'[t].pc = pc /\ tx'[t].row = tx[t].row /\ tx'[t].read = read
      /\ tx'[t].out = out
      /\ OthersWait(t) /\ RequestShape'
  BY ContinueDoes DEF BackTypes, RequestsTyped
<1>3. RequestsTyped'
  BY <1>1, <1>2, RequestTypes DEF BackTypes
<1>4. LogTyped' /\ BoundsTyped'
  BY <1>1, LogStill, BegunTyped DEF BackTypes
<1> QED BY <1>3, <1>4 DEF BackTypes

\* A request ends.
LEMMA FinishesTyped ==
  ASSUME BackTypes, NEW t \in Txns, Finish(t), RowsTyped', OwnLocks(t), LogTyped',
         raced' \subseteq Rows, \A r \in Rows : lock'[r] # t
  PROVE  BackTypes'
<1>1. UNCHANGED <<begun, desk>> /\ tx' = [tx EXCEPT ![t] = Idle]
  BY DEF Finish
<1>2. tx'[t] = Idle /\ OthersWait(t) /\ RequestShape'
  BY <1>1, FinishDoes DEF BackTypes, RequestsTyped
<1>3. ReadFits(Idle.op, Idle.pc, Idle.row, Idle.read) /\ Homely(Idle.out)
  BY DEF ReadFits, Homely, Idle
<1>4. RequestsTyped'
  BY <1>1, <1>2, <1>3, RequestTypes DEF BackTypes
<1>5. BoundsTyped'
  BY <1>1, BegunTyped
<1> QED BY <1>4, <1>5 DEF BackTypes

\* A request of one statement.
LEMMA SinglesTyped ==
  ASSUME BackTypes, Single, RowsTyped', lock' = lock, LogTyped', raced' \subseteq Rows
  PROVE  BackTypes'
<1>1. UNCHANGED <<tx, desk>> /\ OneMore
  BY DEF Single
<1>2. RequestShape' /\ \A t \in Txns : tx'[t] = tx[t]
  BY <1>1, SameRequests DEF BackTypes, RequestsTyped
<1>3. RequestsTyped'
  BY <1>1, <1>2 DEF BackTypes, RequestsTyped, Homely
<1>4. BoundsTyped'
  BY <1>1, BegunTyped
<1> QED BY <1>3, <1>4 DEF BackTypes

LEMMA ThrowsTyped == ASSUME BackTypes, NEW t \in Txns, Throw(t) PROVE BackTypes'
<1>1. UndoWrites(t) /\ Finish(t) /\ UNCHANGED <<log, raced>> /\ desk' = desk
  BY DEF Throw, Finish
<1>2. RowsTyped' /\ OwnLocks(t) /\ \A r \in Rows : lock'[r] # t
  BY <1>1, UndoTypes DEF BackTypes
<1>3. LogTyped' /\ raced' \subseteq Rows
  BY <1>1, LogStill DEF BackTypes, BoundsTyped
<1> QED BY <1>1, <1>2, <1>3, FinishesTyped

\* A statement inside the transaction of t.
LEMMA WritesTyped ==
  ASSUME BackTypes, NEW t \in Txns, NEW row \in Rows, NEW v \in TypeOf(row), Write(t, row, v),
         NEW pc, NEW read, NEW out, Continue(t, pc, read, out), raced' \subseteq Rows,
         ReadFits(tx[t].op, pc, tx[t].row, read), Homely(out), Holder(tx[t].op, pc)
  PROVE  BackTypes'
<1>1. committed' = committed /\ desk' = desk
  BY DEF Continue
<1>2. RowsTyped' /\ OwnLocks(t)
  BY <1>1, WriteTypes DEF BackTypes
<1> QED BY <1>2, ContinuesTyped

\* A statement outside any transaction, the last of its request.
LEMMA PutsTyped ==
  ASSUME BackTypes, NEW t \in Txns, ~Holder(tx[t].op, tx[t].pc),
         NEW row \in Rows, NEW v \in TypeOf(row), Put(row, v), Finish(t), log' = log,
         raced' \subseteq Rows
  PROVE  BackTypes'
<1>1. desk' = desk
  BY DEF Finish
<1>2. RowsTyped' /\ lock' = lock
  BY <1>1, PutTypes DEF BackTypes
<1>3. OwnLocks(t) /\ \A r \in Rows : lock'[r] # t
  BY <1>2 DEF OwnLocks, BackTypes, RequestsTyped
<1>4. LogTyped'
  BY <1>1, LogStill DEF BackTypes
<1> QED BY <1>2, <1>3, <1>4, FinishesTyped

\* A read, the last or not.
LEMMA LooksTyped ==
  ASSUME BackTypes, NEW t \in Txns, ~Holder(tx[t].op, tx[t].pc), UNCHANGED <<db, committed, lock, log>>,
         raced' \subseteq Rows, Finish(t)
  PROVE  BackTypes'
<1>1. desk' = desk
  BY DEF Finish
<1>2. RowsTyped' /\ OwnLocks(t) /\ LogTyped'
  BY <1>1, RowsStill, LogStill DEF BackTypes
<1>3. \A r \in Rows : lock'[r] # t
  BY DEF BackTypes, RequestsTyped
<1> QED BY <1>2, <1>3, FinishesTyped

LEMMA ReadsOnTyped ==
  ASSUME BackTypes, NEW t \in Txns, NEW pc, NEW read, NEW out, Continue(t, pc, read, out),
         UNCHANGED <<db, lock>>, raced' \subseteq Rows,
         ReadFits(tx[t].op, pc, tx[t].row, read), Homely(out),
         Holder(tx[t].op, tx[t].pc) => Holder(tx[t].op, pc)
  PROVE  BackTypes'
<1>1. UNCHANGED <<committed, desk>>
  BY DEF Continue
<1>2. RowsTyped' /\ OwnLocks(t)
  BY <1>1, RowsStill DEF BackTypes
<1>3. \A r \in Rows : lock'[r] = t => Holder(tx[t].op, pc)
  BY DEF BackTypes, RequestsTyped
<1> QED BY <1>2, <1>3, ContinuesTyped

LEMMA CommitsTyped ==
  ASSUME BackTypes, NEW t \in Txns, KeepWrites(t), Logged(tx[t].out), Finish(t), UNCHANGED raced
  PROVE  BackTypes'
<1>1. desk' = desk
  BY DEF Finish
<1>2. RowsTyped' /\ OwnLocks(t) /\ \A r \in Rows : lock'[r] # t
  BY <1>1, KeepTypes DEF BackTypes
<1>3. LogTyped' /\ raced' \subseteq Rows
  BY <1>1, LogTypes DEF BackTypes, RequestsTyped, BoundsTyped
<1> QED BY <1>2, <1>3, FinishesTyped

\* A request of one statement that writes one row.
LEMMA SinglePutTyped ==
  ASSUME BackTypes, Single, NEW row \in Rows, NEW v \in TypeOf(row), Put(row, v),
         raced' \subseteq Rows, NEW entries, Homely(entries), log' = log \/ Logged(entries)
  PROVE  BackTypes'
<1>1. desk' = desk
  BY DEF Single
<1>2. RowsTyped' /\ lock' = lock
  BY <1>1, PutTypes DEF BackTypes
<1>3. LogTyped'
  BY <1>1, LogStill, LogTypes DEF BackTypes
<1> QED BY <1>2, <1>3, SinglesTyped

-------------------------------------------------------------------------------
(* The stockroom keeps the types.                                          *)

LEMMA StockroomValues ==
  ASSUME BackTypes, desk = "stockroom"
  PROVE  /\ \A i \in Ingredients : db[Shelf(i)] \in Nat /\ committed[Shelf(i)] \in Nat
         /\ \A c \in Counts : \A i \in Ingredients :
              db[Line(c, i)] \in [counted : Counted \union {Null}, expected : Nat \union {Null}]
<1>1. \A i \in Ingredients : TypeOf(Shelf(i)) = Nat
  BY RowTypes
<1>2. \A c, i : TypeOf(Line(c, i)) = [counted : Counted \union {Null}, expected : Nat \union {Null}]
  BY RowTypes
<1>3. \A r \in Rows : db[r] \in TypeOf(r) /\ committed[r] \in TypeOf(r)
  BY DEF BackTypes, RowsTyped
<1>4. ASSUME NEW i \in Ingredients PROVE db[Shelf(i)] \in Nat /\ committed[Shelf(i)] \in Nat
  <2>1. Shelf(i) \in Rows
    BY CountRowsApart
  <2> QED BY <1>1, <1>3, <2>1
<1>5. ASSUME NEW c \in Counts, NEW i \in Ingredients
      PROVE  db[Line(c, i)] \in [counted : Counted \union {Null}, expected : Nat \union {Null}]
  <2>1. Line(c, i) \in Rows
    BY CountRowsApart
  <2> QED BY <1>2, <1>3, <2>1
<1> QED BY <1>4, <1>5

LEMMA StockroomSinglesTyped ==
  ASSUME BackTypes, desk = "stockroom", Sell \/ CreateStockCount \/ Cancel \/ CreateProductionOrder
  PROVE  BackTypes'
<1>1. raced \subseteq Rows
  BY DEF BackTypes, BoundsTyped
<1>2. PICK none : none = {}
  OBVIOUS
<1>3. Homely(none)
  BY <1>2 DEF Homely
<1>4. CASE Sell
  <2>1. PICK i \in Ingredients :
          /\ Single /\ committed[Shelf(i)] > 0 /\ Put(Shelf(i), committed[Shelf(i)] - 1)
          /\ Logged({Event(<<"SALE", begun>>, 0 - Cost[i])}) /\ UNCHANGED raced
    BY <1>4 DEF Sell
  <2>2. PICK v : v = committed[Shelf(i)] - 1
    OBVIOUS
  <2>3. PICK entries : entries = {Event(<<"SALE", begun>>, 0 - Cost[i])}
    OBVIOUS
  <2>4. Homely(entries)
    BY <2>3 DEF Homely, Event
  <2>5. Shelf(i) \in Rows /\ v \in TypeOf(Shelf(i))
    BY <2>1, <2>2, StockroomValues, CountRowsApart, RowTypes
  <2> QED BY <1>1, <2>1, <2>2, <2>3, <2>4, <2>5, SinglePutTyped
<1>5. CASE CreateStockCount
  <2>1. PICK c \in Counts : Single /\ Put(Count(c), "DRAFT") /\ UNCHANGED <<log, raced>>
    BY <1>5 DEF CreateStockCount
  <2>2. Count(c) \in Rows /\ "DRAFT" \in TypeOf(Count(c))
    BY CountRowsApart, RowTypes DEF CountStatuses
  <2> QED BY <1>1, <1>3, <2>1, <2>2, SinglePutTyped
<1>6. CASE Cancel
  <2>1. PICK c \in Counts : Single /\ Put(Count(c), "CANCELLED") /\ UNCHANGED <<log, raced>>
    BY <1>6 DEF Cancel
  <2>2. Count(c) \in Rows /\ "CANCELLED" \in TypeOf(Count(c))
    BY CountRowsApart, RowTypes DEF CountStatuses
  <2> QED BY <1>1, <1>3, <2>1, <2>2, SinglePutTyped
<1>7. CASE CreateProductionOrder
  <2>1. PICK j \in Jobs : Single /\ Put(Job(j), "PLANNED") /\ UNCHANGED <<log, raced>>
    BY <1>7 DEF CreateProductionOrder
  <2>2. Job(j) \in Rows /\ "PLANNED" \in TypeOf(Job(j))
    BY JobRowsApart, RowTypes DEF JobStatuses
  <2> QED BY <1>1, <1>3, <2>1, <2>2, SinglePutTyped
<1> QED BY <1>4, <1>5, <1>6, <1>7

LEMMA StockroomBeginsTyped ==
  ASSUME BackTypes, desk = "stockroom", NEW t \in Txns,
         UpdateLines(t) \/ Submit(t) \/ Approve(t) \/ Adjust(t) \/ MoveJob(t) \/ Complete(t)
  PROVE  BackTypes'
<1>1. {} \in SUBSET Rows
  OBVIOUS
<1>2. ASSUME NEW op, op \in {"submit", "approve", "adjust", "complete"}, NEW pc, NEW row, NEW read
      PROVE  ReadFits(op, pc, row, read)
  BY <1>2 DEF ReadFits
<1>3. CASE UpdateLines(t)
  <2>1. PICK c \in Counts, i \in Ingredients, q \in Counted :
          Begin(t, "lines", "write", Count(c), [item |-> i, qty |-> q])
    BY <1>3 DEF UpdateLines
  <2>2. PICK read : read = [item |-> i, qty |-> q]
    OBVIOUS
  <2>3. ReadFits("lines", "write", Count(c), read)
    BY <2>2 DEF ReadFits
  <2> QED BY <1>1, <2>1, <2>2, <2>3, BeginsTyped DEF Begin
<1>4. CASE Submit(t)
  <2>1. PICK c \in Counts : \E stale \in {{}, {Count(c)}} : \E read :
          BeginBeside(t, "submit", "balances", Count(c), read, stale)
    BY <1>4 DEF Submit
  <2>2. PICK stale \in SUBSET Rows : \E read :
          BeginBeside(t, "submit", "balances", Count(c), read, stale)
    BY <2>1, CountRowsApart
  <2>3. PICK read : BeginBeside(t, "submit", "balances", Count(c), read, stale)
    BY <2>2
  <2> QED BY <1>2, <2>3, BeginsTyped
<1>5. CASE Approve(t)
  <2>1. PICK c \in Counts : \E read : Begin(t, "approve", "claim", Count(c), read)
    BY <1>5 DEF Approve
  <2>2. PICK read : Begin(t, "approve", "claim", Count(c), read)
    BY <2>1
  <2> QED BY <1>1, <1>2, <2>2, BeginsTyped DEF Begin
<1>6. CASE Adjust(t)
  <2>1. PICK i \in Ingredients : \E read : Begin(t, "adjust", "apply", Shelf(i), read)
    BY <1>6 DEF Adjust
  <2>2. PICK read : Begin(t, "adjust", "apply", Shelf(i), read)
    BY <2>1
  <2> QED BY <1>1, <1>2, <2>2, BeginsTyped DEF Begin
<1>7. CASE MoveJob(t)
  <2>1. PICK j \in Jobs, st \in JobStatuses :
          Begin(t, "move", "set", Job(j), [st |-> committed[Job(j)], to |-> st])
    BY <1>7 DEF MoveJob
  <2>2. PICK read : read = [st |-> committed[Job(j)], to |-> st]
    OBVIOUS
  <2>3. ReadFits("move", "set", Job(j), read)
    BY <2>2 DEF ReadFits
  <2> QED BY <1>1, <2>1, <2>2, <2>3, BeginsTyped DEF Begin
<1>8. CASE Complete(t)
  <2>1. PICK j \in Jobs : \E read : Begin(t, "complete", "raw", Job(j), read)
    BY <1>8 DEF Complete
  <2>2. PICK read : Begin(t, "complete", "raw", Job(j), read)
    BY <2>1
  <2> QED BY <1>1, <1>2, <2>2, BeginsTyped DEF Begin
<1> QED BY <1>3, <1>4, <1>5, <1>6, <1>7, <1>8

LEMMA CountingTyped ==
  ASSUME BackTypes, CountTypes, desk = "stockroom", NEW t \in Txns,
         WriteLine(t) \/ ReadBalances(t) \/ Expect(t) \/ ClaimDraft(t) \/ ClaimSubmitted(t)
  PROVE  BackTypes'
<1>1. raced \subseteq Rows /\ Homely(tx[t].out) /\ CountRequest(t)
      /\ ReadFits(tx[t].op, tx[t].pc, tx[t].row, tx[t].read)
  BY DEF BackTypes, BoundsTyped, RequestsTyped, CountTypes
<1>2. PICK c \in Counts : tx[t].row = Count(c) /\ (LinesRequest(t) \/ SubmitRequest(t) \/ ApproveRequest(t, c))
  BY <1>1 DEF WriteLine, ReadBalances, Expect, ClaimDraft, ClaimSubmitted, Doing, CountRequest
<1>3. tx[t].row[2] = c /\ Count(c) \in Rows /\ Homely({})
  BY <1>2, CountRowsApart DEF Homely
<1>4. ASSUME NEW op, op \in {"submit", "approve", "adjust", "complete"}, NEW pc, NEW row, NEW read
      PROVE  ReadFits(op, pc, row, read)
  BY <1>4 DEF ReadFits
<1>5. CASE WriteLine(t)
  <2>1. tx[t].op = "lines" /\ tx[t].read.item \in Ingredients /\ tx[t].read.qty \in Counted
    BY <1>1, <1>2, <1>5 DEF WriteLine, Doing, LinesRequest, SubmitRequest, ApproveRequest, ReadFits
  <2>2. PICK line : line = Line(c, tx[t].read.item)
    OBVIOUS
  <2>3. PICK v : v = [db[line] EXCEPT !.counted = tx[t].read.qty]
    OBVIOUS
  <2>4. Write(t, line, v) /\ Continue(t, "commit", tx[t].read, tx[t].out)
        /\ raced' \subseteq raced \union {Count(c)}
    BY <1>2, <1>3, <1>5, <2>2, <2>3 DEF WriteLine, GoTo
  <2>5. line \in Rows /\ v \in TypeOf(line)
    <3>1. db[line] \in [counted : Counted \union {Null}, expected : Nat \union {Null}]
      BY <2>1, <2>2, StockroomValues
    <3>2. v \in [counted : Counted \union {Null}, expected : Nat \union {Null}]
      BY <2>1, <2>3, <3>1
    <3>3. TypeOf(Line(c, tx[t].read.item)) =
            [counted : Counted \union {Null}, expected : Nat \union {Null}]
      BY RowTypes
    <3>4. Line(c, tx[t].read.item) \in Rows
      BY <2>1, CountRowsApart
    <3> QED BY <2>2, <3>2, <3>3, <3>4
  <2>6. ReadFits(tx[t].op, "commit", tx[t].row, tx[t].read) /\ Holder(tx[t].op, "commit")
    BY <2>1 DEF ReadFits, Holder
  <2> QED BY <1>1, <1>3, <2>4, <2>5, <2>6, WritesTyped
<1>6. CASE ReadBalances(t)
  <2>1. PICK read : Continue(t, "expect", read, {})
    BY <1>6 DEF ReadBalances
  <2>2. tx[t].op = "submit" /\ UNCHANGED <<db, lock, raced>>
    BY <1>6 DEF ReadBalances, Doing
  <2>3. Holder(tx[t].op, "expect")
    BY <2>2 DEF Holder
  <2> QED BY <1>1, <1>3, <1>4, <2>1, <2>2, <2>3, ReadsOnTyped
<1>7. CASE Expect(t)
  <2>1. tx[t].op = "submit" /\ tx[t].pc = "expect" /\ SubmitRequest(t)
    BY <1>2, <1>7 DEF Expect, Doing, LinesRequest, ApproveRequest
  <2>2. PICK i \in tx[t].read.left, pc \in {"claim", "expect"} : \E read :
          /\ Write(t, Line(c, i), [db[Line(c, i)] EXCEPT !.expected = tx[t].read.stock[i]])
          /\ Continue(t, pc, read, {})
          /\ UNCHANGED raced
    BY <1>3, <1>7 DEF Expect
  <2>3. i \in Ingredients /\ tx[t].read.stock[i] \in Nat
    BY <2>1, <2>2 DEF SubmitRequest
  <2>4. PICK line : line = Line(c, i)
    OBVIOUS
  <2>5. PICK v : v = [db[line] EXCEPT !.expected = tx[t].read.stock[i]]
    OBVIOUS
  <2>6. line \in Rows /\ v \in TypeOf(line)
    <3>1. db[line] \in [counted : Counted \union {Null}, expected : Nat \union {Null}]
      BY <2>3, <2>4, StockroomValues
    <3>2. v \in [counted : Counted \union {Null}, expected : Nat \union {Null}]
      BY <2>3, <2>5, <3>1
    <3>3. TypeOf(Line(c, i)) = [counted : Counted \union {Null}, expected : Nat \union {Null}]
      BY RowTypes
    <3>4. Line(c, i) \in Rows
      BY <2>3, CountRowsApart
    <3> QED BY <2>4, <3>2, <3>3, <3>4
  <2>7. Holder(tx[t].op, pc)
    BY <2>1, <2>2 DEF Holder
  <2> QED BY <1>1, <1>3, <1>4, <2>1, <2>2, <2>4, <2>5, <2>6, <2>7, WritesTyped
<1>8. CASE ClaimDraft(t)
  <2>1. tx[t].op = "submit"
    BY <1>8 DEF ClaimDraft, Doing
  <2>2. \/ Throw(t)
        \/ /\ Write(t, Count(c), "SUBMITTED") /\ Continue(t, "commit", tx[t].read, tx[t].out)
           /\ UNCHANGED raced
    BY <1>2, <1>8 DEF ClaimDraft, GoTo
  <2>3. "SUBMITTED" \in TypeOf(Count(c)) /\ Holder(tx[t].op, "commit")
    BY <2>1, RowTypes DEF CountStatuses, Holder
  <2> QED BY <1>1, <1>3, <1>4, <2>1, <2>2, <2>3, WritesTyped, ThrowsTyped
<1>9. CASE ClaimSubmitted(t)
  <2>1. tx[t].op = "approve"
    BY <1>9 DEF ClaimSubmitted, Doing
  <2>2. \/ Throw(t)
        \/ \E pc \in {"commit", "apply"} :
             /\ Write(t, Count(c), "APPROVED") /\ Continue(t, pc, tx[t].read, tx[t].out)
             /\ UNCHANGED raced
    BY <1>2, <1>9 DEF ClaimSubmitted, GoTo
  <2>3. "APPROVED" \in TypeOf(Count(c)) /\ \A pc \in {"commit", "apply"} : Holder(tx[t].op, pc)
    BY <2>1, RowTypes DEF CountStatuses, Holder
  <2> QED BY <1>1, <1>3, <1>4, <2>1, <2>2, <2>3, WritesTyped, ThrowsTyped
<1> QED BY <1>5, <1>6, <1>7, <1>8, <1>9

\* A shelf takes what is added or taken, as long as it does not go below nothing.
LEMMA ShelvesTyped ==
  ASSUME BackTypes, desk = "stockroom", NEW t \in Txns, NEW i \in Ingredients, NEW delta \in Int,
         Shelve(t, i, delta), UNCHANGED raced, tx[t].op \in {"approve", "adjust", "complete"},
         NEW pc, NEW read, NEW out, Continue(t, pc, read, out), Homely(out),
         pc \notin {"setpo", "stock", "snapshot"}
  PROVE  BackTypes'
<1>1. PICK v : v = db[Shelf(i)] + delta
  OBVIOUS
<1>2. Write(t, Shelf(i), v) /\ v >= 0
  BY <1>1 DEF Shelve
<1>3. Shelf(i) \in Rows /\ v \in TypeOf(Shelf(i))
  BY <1>1, <1>2, StockroomValues, CountRowsApart, RowTypes
<1>4. ReadFits(tx[t].op, pc, tx[t].row, read) /\ Holder(tx[t].op, pc)
  BY DEF ReadFits, Holder
<1>5. raced' \subseteq Rows
  BY DEF BackTypes, BoundsTyped
<1> QED BY <1>2, <1>3, <1>4, <1>5, WritesTyped

LEMMA ShelvingTyped ==
  ASSUME BackTypes, CountTypes, JobTypes, desk = "stockroom", NEW t \in Txns,
         ApplyVariance(t) \/ ApplyDelta(t) \/ TakeRaw(t) \/ AddFinished(t)
  PROVE  BackTypes'
<1>1. Homely(tx[t].out) /\ CountRequest(t) /\ JobRequest(t)
  BY DEF BackTypes, RequestsTyped, CountTypes, JobTypes
<1>2. \A e \in tx[t].out : e.kind # "entry"
  BY <1>1 DEF Homely
<1>3. Homely({})
  BY DEF Homely
<1>4. CASE ApplyVariance(t)
  <2>1. PICK i \in Differing(t) : 
          \/ Throw(t)
          \/ /\ Shelve(t, i, Variance(tx[t].read.lines[i])) /\ UNCHANGED raced
             /\ \E pc \in {"apply", "commit"} : \E net :
                  \E out \in {tx[t].out \union {Adjustment(tx[t].row[2], i, Variance(tx[t].read.lines[i]))},
                              tx[t].out \union {Adjustment(tx[t].row[2], i, Variance(tx[t].read.lines[i]))}
                                \union Posted(<<"STOCKCOUNT", tx[t].row[2]>>, net)} :
                    Continue(t, pc, tx[t].read, out)
    BY <1>4 DEF ApplyVariance
  <2>2. tx[t].op = "approve" /\ \A k \in Ingredients : IsLine(tx[t].read.lines[k])
    BY <1>1, <1>4 DEF ApplyVariance, Doing, CountRequest, LinesRequest, SubmitRequest, ApproveRequest
  <2>3. i \in Ingredients
    BY DEF Differing
  <2>4. Variance(tx[t].read.lines[i]) \in Int
    BY <2>2, <2>3, VarianceInt
  <2>5. \A net, ref : \A e \in Posted(ref, net) : e.kind = "event"
    BY DEF Posted, Event
  <2>6. \A d : Adjustment(tx[t].row[2], i, d).kind = "adjust"
    BY DEF Adjustment
  <2>7. ASSUME NEW net, NEW d,
               NEW out \in {tx[t].out \union {Adjustment(tx[t].row[2], i, d)},
                            tx[t].out \union {Adjustment(tx[t].row[2], i, d)}
                              \union Posted(<<"STOCKCOUNT", tx[t].row[2]>>, net)}
        PROVE  Homely(out)
    <3>1. \A e \in out : e.kind # "entry"
      BY <1>2, <2>5, <2>6, <2>7
    <3> QED BY <3>1 DEF Homely
  <2> QED BY <2>1, <2>2, <2>3, <2>4, <2>7, ShelvesTyped, ThrowsTyped
<1>5. CASE ApplyDelta(t)
  <2>1. PICK i : i = tx[t].row[2]
    OBVIOUS
  <2>2. PICK out : out = Posted(<<"ADJ", tx[t].read.id>>, Cost[i] * tx[t].read.delta)
    OBVIOUS
  <2>3. tx[t].op = "adjust" /\ tx[t].read.delta \in Int /\ i \in Ingredients
    BY <1>1, <1>5, <2>1, CountRowsApart DEF ApplyDelta, Doing, CountRequest,
       LinesRequest, SubmitRequest, ApproveRequest
  <2>4. \/ Throw(t)
        \/ /\ Shelve(t, i, tx[t].read.delta) /\ UNCHANGED raced
           /\ Continue(t, "commit", tx[t].read, out)
    BY <1>5, <2>1, <2>2 DEF ApplyDelta
  <2>5. Homely(out)
    BY <2>2 DEF Homely, Posted, Event
  <2> QED BY <2>3, <2>4, <2>5, ShelvesTyped, ThrowsTyped
<1>6. CASE TakeRaw(t)
  <2>1. PICK i \in tx[t].read.left :
          \/ Throw(t)
          \/ /\ Shelve(t, i, 0 - Needed(tx[t].row[2], i)) /\ UNCHANGED raced
             /\ \E pc \in {"goods", "raw"} : \E read : Continue(t, pc, read, {})
    BY <1>6 DEF TakeRaw
  <2>2. tx[t].op = "complete" /\ i \in Ingredients
    BY <1>1, <1>6 DEF TakeRaw, Doing, CountRequest, LinesRequest, SubmitRequest, ApproveRequest
  <2>3. tx[t].row[2] \in Jobs
    BY <1>1, <2>2, JobRowsApart DEF JobRequest
  <2>4. 0 - Needed(tx[t].row[2], i) \in Int
    BY <2>2, <2>3, NeededNat
  <2> QED BY <1>3, <2>1, <2>2, <2>4, ShelvesTyped, ThrowsTyped
<1>7. CASE AddFinished(t)
  <2>1. PICK j : j = tx[t].row[2]
    OBVIOUS
  <2>2. tx[t].op = "complete" /\ Shelve(t, Target[j], Size[j]) /\ UNCHANGED raced
        /\ Continue(t, "set", tx[t].read, tx[t].out)
    BY <1>7, <2>1 DEF AddFinished, Doing, GoTo
  <2>3. j \in Jobs
    BY <1>1, <2>1, <2>2, JobRowsApart DEF JobRequest
  <2>4. Target[j] \in Ingredients /\ Size[j] \in Int
    BY <2>3, ProductionAssumption
  <2> QED BY <1>1, <2>2, <2>4, ShelvesTyped
<1> QED BY <1>4, <1>5, <1>6, <1>7

LEMMA JobsTyped ==
  ASSUME BackTypes, JobTypes, desk = "stockroom", NEW t \in Txns, SetJob(t) \/ SetCompleted(t)
  PROVE  BackTypes'
<1>1. raced \subseteq Rows /\ JobRequest(t) /\ ReadFits(tx[t].op, tx[t].pc, tx[t].row, tx[t].read)
  BY DEF BackTypes, BoundsTyped, RequestsTyped, JobTypes
<1>2. PICK j \in Jobs : tx[t].row = Job(j)
  BY <1>1 DEF SetJob, SetCompleted, Doing, JobRequest
<1>3. Job(j) \in Rows /\ Job(j)[2] = j /\ TypeOf(Job(j)) = JobStatuses
  BY JobRowsApart, RowTypes
<1>4. CASE SetJob(t)
  <2>1. /\ tx[t].op = "move" /\ Put(Job(j), tx[t].read.to) /\ Finish(t) /\ log' = log
        /\ raced' \subseteq raced \union {Job(j)}
    BY <1>2, <1>4 DEF SetJob, Doing, Races
  <2>2. tx[t].read.to \in TypeOf(Job(j)) /\ ~Holder(tx[t].op, tx[t].pc)
    BY <1>1, <1>3, <2>1 DEF ReadFits, Holder
  <2> QED BY <1>1, <1>3, <2>1, <2>2, PutsTyped
<1>5. CASE SetCompleted(t)
  <2>1. PICK out : out = {[kind |-> "made", key |-> j, amount |-> Size[j]]} \union
                           (IF RawCost(j) > 0 THEN {Event(<<"PROD", j>>, FinishedValue(j) - RawCost(j))} ELSE {})
    OBVIOUS
  <2>2. /\ tx[t].op = "complete" /\ Write(t, Job(j), "COMPLETED")
        /\ raced' \subseteq raced \union {Job(j)}
        /\ Continue(t, "commit", tx[t].read, out)
    BY <1>2, <1>3, <1>5, <2>1 DEF SetCompleted, Doing, Races
  <2>3. Homely(out)
    BY <2>1 DEF Homely, Event
  <2>4. "COMPLETED" \in TypeOf(Job(j)) /\ Holder(tx[t].op, "commit")
        /\ ReadFits(tx[t].op, "commit", tx[t].row, tx[t].read)
    BY <1>3, <2>2 DEF JobStatuses, Holder, ReadFits
  <2> QED BY <1>1, <1>3, <2>2, <2>3, <2>4, WritesTyped
<1> QED BY <1>4, <1>5

LEMMA StockroomTyped ==
  ASSUME BackTypes, CountTypes, JobTypes, desk = "stockroom", StockCountNext \/ ProductionNext
  PROVE  BackTypes'
BY StockroomSinglesTyped, StockroomBeginsTyped, CountingTyped, ShelvingTyped, JobsTyped
   DEF StockCountNext, StockCountStep, ProductionNext, ProductionStep

-------------------------------------------------------------------------------
(* The other departments keep the types.                                   *)

\* A request that begins with a write: a sale and its listener.
LEMMA StartsTyped ==
  ASSUME BackTypes, NEW t \in Txns, tx[t].op = "none", OneMore, desk' = desk, UNCHANGED <<log, raced>>,
         NEW row \in Rows, NEW v \in TypeOf(row), Put(row, v),
         NEW request, request = [op |-> request.op, pc |-> request.pc, row |-> request.row,
                                 read |-> request.read, out |-> {}],
         ReadFits(request.op, request.pc, request.row, request.read),
         tx' = [tx EXCEPT ![t] = request]
  PROVE  BackTypes'
<1>1. RowsTyped' /\ lock' = lock
  BY PutTypes DEF BackTypes
<1>2. IsRequest(request) /\ request.out = {}
  BY DEF IsRequest
<1>3. tx'[t] = request /\ OthersWait(t) /\ RequestShape'
  BY <1>2 DEF BackTypes, RequestsTyped, RequestShape, OthersWait, IsRequest
<1>4. OwnLocks(t) /\ \A r \in Rows : lock'[r] # t
  BY <1>1 DEF OwnLocks, BackTypes, RequestsTyped, Holder
<1>5. Homely(tx'[t].out)
  BY <1>2, <1>3 DEF Homely
<1>6. RequestsTyped'
  BY <1>3, <1>4, <1>5, RequestTypes DEF BackTypes
<1>7. LogTyped' /\ raced' \subseteq Rows
  BY LogStill DEF BackTypes, BoundsTyped
<1>8. BoundsTyped'
  BY <1>7, BegunTyped
<1> QED BY <1>1, <1>6, <1>7, <1>8 DEF BackTypes

LEMMA ReorderValues ==
  ASSUME BackTypes
  PROVE  /\ \A i \in Supplies : Supply(i) \in Rows /\ TypeOf(Supply(i)) = Nat
                                /\ db[Supply(i)] \in Nat /\ committed[Supply(i)] \in Nat
         /\ \A p \in POs : PO(p) \in Rows /\ TypeOf(PO(p)) = POStatuses
<1>1. \A i \in Supplies : Supply(i) \in Rows /\ TypeOf(Supply(i)) = Nat
  BY SupplyRow, RowTypes
<1>2. \A p \in POs : PO(p) \in Rows /\ TypeOf(PO(p)) = POStatuses
  BY PORow, RowTypes
<1> QED BY <1>1, <1>2 DEF BackTypes, RowsTyped

LEMMA ReceivePOTyped == ASSUME BackTypes, ReceivePO PROVE BackTypes'
<1>1. PICK p \in POs : \E after :
        /\ after = [r \in Rows |->
             IF r = PO(p) THEN "RECEIVED"
             ELSE IF \E i \in Supplies : r = Supply(i) /\ committed[Item(p, i)]
                    THEN db[r] + OrderQuantity(r[2])
             ELSE db[r]]
        /\ Single /\ lock[PO(p)] = NoTxn /\ db' = after
        /\ committed' = [r \in Rows |-> IF db[r] = after[r] THEN committed[r] ELSE after[r]]
        /\ UNCHANGED <<lock, log, raced>>
  BY DEF ReceivePO
<1>0. PICK after :
        /\ after = [r \in Rows |->
             IF r = PO(p) THEN "RECEIVED"
             ELSE IF \E i \in Supplies : r = Supply(i) /\ committed[Item(p, i)]
                    THEN db[r] + OrderQuantity(r[2])
             ELSE db[r]]
        /\ Single /\ lock[PO(p)] = NoTxn /\ db' = after
        /\ committed' = [r \in Rows |-> IF db[r] = after[r] THEN committed[r] ELSE after[r]]
        /\ UNCHANGED <<lock, log, raced>>
  BY <1>1
<1>2. desk' = desk /\ RowsTyped
  BY <1>0 DEF Single, BackTypes
<1>3. ASSUME NEW r \in Rows PROVE after[r] \in TypeOf(r)
  <2>1. CASE r = PO(p)
    BY <1>0, <2>1, ReorderValues DEF POStatuses
  <2>2. CASE r # PO(p) /\ \E i \in Supplies : r = Supply(i) /\ committed[Item(p, i)]
    <3>1. PICK i \in Supplies : r = Supply(i)
      BY <2>2
    <3>2. OrderQuantity(i) \in Nat
      BY ReorderingAssumption DEF OrderQuantity
    <3>3. r[2] = i /\ after[r] = db[r] + OrderQuantity(i)
      BY <1>0, <2>2, <3>1, SupplyRow
    <3> QED BY <3>1, <3>2, <3>3, ReorderValues
  <2>3. CASE r # PO(p) /\ ~\E i \in Supplies : r = Supply(i) /\ committed[Item(p, i)]
    BY <1>0, <1>2, <2>3 DEF RowsTyped
  <2> QED BY <2>1, <2>2, <2>3
<1>4. RowShape'
  BY <1>0, <1>2 DEF RowsTyped, RowShape
<1>5. \A r \in Rows : lock'[r] = NoTxn => db'[r] = committed'[r]
  BY <1>0, <1>2 DEF RowsTyped
<1>6. \A r \in Rows : db'[r] \in TypeOf(r) /\ committed'[r] \in TypeOf(r)
  BY <1>0, <1>2, <1>3 DEF RowsTyped
<1>7. RowsTyped'
  BY <1>2, <1>4, <1>5, <1>6, TypesStay DEF RowsTyped
<1>8. LogTyped' /\ raced' \subseteq Rows
  BY <1>0, <1>2, LogStill DEF BackTypes, BoundsTyped
<1> QED BY <1>0, <1>7, <1>8, SinglesTyped

LEMMA ListenerTyped ==
  ASSUME BackTypes, ReorderTypes, desk = "reordering", NEW t \in Txns,
         UseUp(t) \/ LookAtStock(t) \/ Snapshot(t) \/ CreateAutoPO(t) \/ AppendItem(t) \/ Publish(t)
  PROVE  BackTypes'
<1>1. raced \subseteq Rows /\ Homely(tx[t].out) /\ ReorderRequest(t)
  BY DEF BackTypes, BoundsTyped, RequestsTyped, ReorderTypes
<1>2. \A pc, row, read : ReadFits("reorder", pc, row, read)
  BY DEF ReadFits
<1>3. Homely({})
  BY DEF Homely
<1>4. CASE UseUp(t)
  <2>1. PICK i \in Supplies :
          /\ tx[t].op = "none" /\ OneMore /\ committed[Supply(i)] > 0
          /\ Put(Supply(i), committed[Supply(i)] - 1)
          /\ tx' = [tx EXCEPT ![t] = [op |-> "reorder", pc |-> "stock", row |-> Supply(i),
                                      read |-> [by |-> begun], out |-> {}]]
          /\ UNCHANGED <<log, raced, desk>>
    BY <1>4 DEF UseUp
  <2>2. PICK v : v = committed[Supply(i)] - 1
    OBVIOUS
  <2>3. PICK read : read = [by |-> begun]
    OBVIOUS
  <2>4. PICK request : request = [op |-> "reorder", pc |-> "stock", row |-> Supply(i),
                                  read |-> read, out |-> {}]
    OBVIOUS
  <2>5. request = [op |-> request.op, pc |-> request.pc, row |-> request.row,
                   read |-> request.read, out |-> {}] /\ request.op = "reorder"
    BY <2>4
  <2>6. v \in TypeOf(Supply(i)) /\ Supply(i) \in Rows
    BY <2>1, <2>2, ReorderValues
  <2>7. tx' = [tx EXCEPT ![t] = request] /\ Put(Supply(i), v)
    BY <2>1, <2>2, <2>3, <2>4
  <2> QED BY <1>2, <2>1, <2>5, <2>6, <2>7, StartsTyped
<1>5. CASE LookAtStock(t)
  <2>1. tx[t].op = "reorder" /\ tx[t].pc = "stock" /\ UNCHANGED <<db, lock, raced>>
    BY <1>5 DEF LookAtStock, Doing
  <2>2. ~Holder(tx[t].op, tx[t].pc)
    BY <2>1 DEF Holder
  <2>3. \/ Finish(t) /\ UNCHANGED <<committed, log>>
        \/ Continue(t, "snapshot", tx[t].read, tx[t].out)
    BY <1>5 DEF LookAtStock, GoTo
  <2> QED BY <1>1, <1>2, <2>1, <2>2, <2>3, LooksTyped, ReadsOnTyped
<1>6. CASE Snapshot(t)
  <2>1. tx[t].op = "reorder" /\ tx[t].pc = "snapshot" /\ UNCHANGED <<db, lock, raced>>
    BY <1>6 DEF Snapshot, Doing
  <2>2. ~Holder(tx[t].op, tx[t].pc)
    BY <2>1 DEF Holder
  <2>3. \/ Finish(t) /\ UNCHANGED <<committed, log>>
        \/ \E pc \in {"create", "append"} : \E read : Continue(t, pc, read, {})
    BY <1>6 DEF Snapshot
  <2> QED BY <1>1, <1>2, <1>3, <2>1, <2>2, <2>3, LooksTyped, ReadsOnTyped
<1>7. CASE CreateAutoPO(t)
  <2>1. PICK p \in FreshId(POs, Numbered) :
          /\ Doing(t, "reorder", "create") /\ Write(t, PO(p), "DRAFT")
          /\ Continue(t, "append", [tx[t].read EXCEPT !.onto = {p}],
                      {[kind |-> "autopo", key |-> p, amount |-> 0]})
          /\ UNCHANGED raced
    BY <1>7 DEF CreateAutoPO
  <2>2. p \in POs
    BY DEF FreshId
  <2>3. PICK read, out : read = [tx[t].read EXCEPT !.onto = {p}]
                         /\ out = {[kind |-> "autopo", key |-> p, amount |-> 0]}
    OBVIOUS
  <2>4. Homely(out) /\ tx[t].op = "reorder" /\ Holder(tx[t].op, "append")
    BY <2>1, <2>3 DEF Homely, Doing, Holder
  <2>5. "DRAFT" \in TypeOf(PO(p)) /\ PO(p) \in Rows
    BY <2>2, ReorderValues DEF POStatuses
  <2>6. Continue(t, "append", read, out)
    BY <2>1, <2>3
  <2> QED BY <1>1, <1>2, <2>1, <2>4, <2>5, <2>6, WritesTyped
<1>8. CASE AppendItem(t)
  <2>1. PICK i : i = tx[t].row[2]
    OBVIOUS
  <2>10. PICK out : out = tx[t].out \union {[kind |-> "reorder", key |-> i, amount |-> tx[t].read.by]}
    OBVIOUS
  <2>11. PICK p \in tx[t].read.onto :
          /\ Write(t, Item(p, i), TRUE)
          /\ Continue(t, "publish", tx[t].read, out)
          /\ UNCHANGED raced
    BY <1>8, <2>1, <2>10 DEF AppendItem
  <2>2. tx[t].op = "reorder" /\ tx[t].pc = "append" /\ Holder(tx[t].op, "publish")
    BY <1>8 DEF AppendItem, Doing, Holder
  <2>3. p \in POs /\ i \in Supplies
    BY <1>1, <2>1, <2>11, <2>2, SupplyRow DEF ReorderRequest, Deciding, Ordering
  <2>4. Item(p, i) \in Rows
    BY <2>3, ReorderRowsApart
  <2>5. TypeOf(Item(p, i)) = BOOLEAN
    BY RowTypes
  <2>6. PICK row : row = Item(p, i)
    OBVIOUS
  <2>7. row \in Rows /\ TRUE \in TypeOf(row) /\ Write(t, row, TRUE)
    BY <2>4, <2>5, <2>6, <2>11
  <2>8. Homely(out)
    BY <1>1, <2>10 DEF Homely
  <2>9. ReadFits(tx[t].op, "publish", tx[t].row, tx[t].read)
    BY <1>2, <2>2
  <2> QED BY <1>1, <2>11, <2>2, <2>7, <2>8, <2>9, WritesTyped
<1>9. CASE Publish(t)
  BY <1>9, ThrowsTyped, CommitsTyped DEF Publish
<1> QED BY <1>4, <1>5, <1>6, <1>7, <1>8, <1>9

LEMMA DecisionTyped ==
  ASSUME BackTypes, ReorderTypes, NEW t \in Txns, ReadPO(t) \/ SetPO(t) PROVE BackTypes'
<1>1. raced \subseteq Rows /\ ReorderRequest(t)
  BY DEF BackTypes, BoundsTyped, ReorderTypes
<1>2. CASE ReadPO(t)
  <2>1. PICK p \in POs, op \in DOMAIN Moves :
          BeginBeside(t, op, "setpo", PO(p), [st |-> Moves[op][1]], {})
    BY <1>2 DEF ReadPO, Begin
  <2>2. PICK read : read = [st |-> Moves[op][1]]
    OBVIOUS
  <2>3. op \in {"submit", "approvepo", "reject"}
    BY DEF Moves
  <2>4. ReadFits(op, "setpo", PO(p), read)
    BY <2>3 DEF ReadFits
  <2>5. {} \in SUBSET Rows
    OBVIOUS
  <2> QED BY <2>1, <2>2, <2>4, <2>5, BeginsTyped
<1>3. CASE SetPO(t)
  <2>1. tx[t].pc = "setpo" /\ Put(tx[t].row, Moves[tx[t].op][2]) /\ Finish(t) /\ log' = log
        /\ raced' \subseteq raced \union {tx[t].row}
    BY <1>3 DEF SetPO, Races
  <2>2. tx[t].op \in {"submit", "approvepo", "reject"} /\ \E p \in POs : tx[t].row = PO(p)
    BY <1>1, <2>1 DEF ReorderRequest
  <2>3. PICK v : v = Moves[tx[t].op][2]
    OBVIOUS
  <2>4. v \in POStatuses
    BY <2>2, <2>3 DEF Moves, POStatuses
  <2>5. tx[t].row \in Rows /\ v \in TypeOf(tx[t].row)
    BY <2>2, <2>4, ReorderValues
  <2>6. ~Holder(tx[t].op, tx[t].pc)
    BY <2>1 DEF Holder
  <2> QED BY <1>1, <2>1, <2>3, <2>5, <2>6, PutsTyped
<1> QED BY <1>2, <1>3

LEMMA ReorderTyped ==
  ASSUME BackTypes, ReorderTypes, desk = "reordering", ReorderNext PROVE BackTypes'
BY ReceivePOTyped, ListenerTyped, DecisionTyped DEF ReorderNext, ReorderStep

LEMMA SettlementTyped ==
  ASSUME BackTypes, SettleTypes, desk = "settlements", SettlementNext PROVE BackTypes'
<1>1. raced \subseteq Rows /\ Till \in Rows /\ TypeOf(Till) = Int
      /\ \A s \in SettlementIds : Settlement(s) \in Rows /\ TypeOf(Settlement(s)) = Figures
  BY SettlementRowsApart, TillRow, RowTypes DEF BackTypes, BoundsTyped
<1>2. committed[Till] \in Int
  BY <1>1 DEF BackTypes, RowsTyped
<1>3. {} \in SUBSET Rows /\ Homely({})
  BY DEF Homely
<1>4. CASE Collect
  <2>1. PICK amount \in {1, -1} :
          Single /\ Put(Till, committed[Till] + amount) /\ UNCHANGED <<log, raced>>
    BY <1>4 DEF Collect
  <2>2. PICK v : v = committed[Till] + amount
    OBVIOUS
  <2>3. v \in TypeOf(Till)
    BY <1>1, <1>2, <2>1, <2>2
  <2>4. PICK none : none = {}
    OBVIOUS
  <2> QED BY <1>1, <1>3, <2>1, <2>2, <2>3, <2>4, SinglePutTyped
<1>5. ASSUME NEW t \in Txns, FindSettlement(t) PROVE BackTypes'
  <2>1. PICK row, read : BeginBeside(t, "settle", "expect", row, read, {})
    BY <1>5 DEF FindSettlement, Begin
  <2>2. ReadFits("settle", "expect", row, read)
    BY DEF ReadFits
  <2> QED BY <1>3, <2>1, <2>2, BeginsTyped
<1>6. ASSUME NEW t \in Txns, ReadSettlement(t) PROVE BackTypes'
  <2>1. PICK row, read : BeginBeside(t, "signoff", "claim", row, read, {})
    BY <1>6 DEF ReadSettlement, Begin
  <2>2. ReadFits("signoff", "claim", row, read)
    BY DEF ReadFits
  <2> QED BY <1>3, <2>1, <2>2, BeginsTyped
<1>7. ASSUME NEW t \in Txns, ExpectCash(t) PROVE BackTypes'
  <2>1. PICK read : read = [was |-> tx[t].read.was, expected |-> committed[Till]]
    OBVIOUS
  <2>2. Continue(t, "save", read, {}) /\ UNCHANGED <<db, lock, raced>> /\ tx[t].op = "settle"
    BY <1>7, <2>1 DEF ExpectCash, Doing
  <2>3. ReadFits(tx[t].op, "save", tx[t].row, read) /\ ~Holder(tx[t].op, tx[t].pc)
    BY <1>2, <2>1, <2>2 DEF ReadFits, Holder
  <2> QED BY <1>1, <1>3, <2>2, <2>3, ReadsOnTyped
<1>8. ASSUME NEW t \in Txns, tx[t].op = "settle", tx[t].pc = "save"
      PROVE  Saved(t) \in Figures /\ ~Holder(tx[t].op, tx[t].pc)
  <2>1. tx[t].read.expected \in Int
    BY <1>8 DEF BackTypes, RequestsTyped, ReadFits
  <2>2. [st |-> "PENDING", expected |-> tx[t].read.expected] \in Figures
    BY <2>1 DEF Figures
  <2> QED BY <1>8, <2>2 DEF Saved, Holder
<1>9. ASSUME NEW t \in Txns, Resubmit(t) PROVE BackTypes'
  <2>1. /\ tx[t].op = "settle" /\ tx[t].pc = "save" /\ tx[t].row # Till
        /\ Put(tx[t].row, Saved(t)) /\ Finish(t) /\ log' = log
        /\ raced' \subseteq raced \union {tx[t].row}
    BY <1>9 DEF Resubmit, Doing, Races
  <2>2. SettlementRow(tx[t].row)
    BY <2>1 DEF SettleTypes, SettleRequest
  <2>3. tx[t].row \in Rows /\ TypeOf(tx[t].row) = Figures
    BY <1>1, <2>2 DEF SettlementRow
  <2>4. PICK v : v = Saved(t)
    OBVIOUS
  <2> QED BY <1>1, <1>8, <2>1, <2>3, <2>4, PutsTyped
<1>10. ASSUME NEW t \in Txns, CreateSettlement(t) PROVE BackTypes'
  <2>1. PICK s \in FreshId(SettlementIds, Submitted) :
          /\ tx[t].op = "settle" /\ tx[t].pc = "save"
          /\ Put(Settlement(s), Saved(t)) /\ Finish(t) /\ log' = log
          /\ raced' \subseteq raced \union {Till}
    BY <1>10 DEF CreateSettlement, Doing
  <2>2. s \in SettlementIds
    BY DEF FreshId
  <2>3. PICK v : v = Saved(t)
    OBVIOUS
  <2> QED BY <1>1, <1>8, <2>1, <2>2, <2>3, PutsTyped
<1>11. ASSUME NEW t \in Txns, ClaimPending(t) PROVE BackTypes'
  <2>1. PICK row : row = tx[t].row
    OBVIOUS
  <2>2. PICK v : v = [db[row] EXCEPT !.st = "APPROVED"]
    OBVIOUS
  <2>3. PICK out : out = {[kind |-> "signoff", key |-> row[2], amount |-> db[row].expected]}
    OBVIOUS
  <2>4. /\ tx[t].op = "signoff" /\ tx[t].pc = "claim"
        /\ Throw(t) \/ (Write(t, row, v) /\ Continue(t, "commit", NotRead, out) /\ UNCHANGED raced)
    BY <1>11, <2>1, <2>2, <2>3 DEF ClaimPending, Doing
  <2>5. SettlementRow(row)
    BY <2>1, <2>4 DEF SettleTypes, SettleRequest
  <2>6. row \in Rows /\ TypeOf(row) = Figures
    BY <1>1, <2>5 DEF SettlementRow
  <2>7. db[row] \in Figures
    BY <2>6 DEF BackTypes, RowsTyped
  <2>8. v \in TypeOf(row)
    BY <2>2, <2>6, <2>7 DEF Figures
  <2>9. Homely(out) /\ Holder(tx[t].op, "commit") /\ ReadFits(tx[t].op, "commit", tx[t].row, NotRead)
    BY <2>3, <2>4 DEF Homely, Holder, ReadFits
  <2> QED BY <1>1, <2>4, <2>6, <2>8, <2>9, WritesTyped, ThrowsTyped
<1> QED BY <1>4, <1>5, <1>6, <1>7, <1>9, <1>10, <1>11 DEF SettlementNext, SettlementStep

LEMMA StaffValues ==
  ASSUME BackTypes
  PROVE  /\ \A u \in Employees : Employee(u) \in Rows /\ TypeOf(Employee(u)) = Sites
         /\ \A r \in Records : /\ Record(r) \in Rows /\ TypeOf(Record(r)) = Attendances
                               /\ db[Record(r)] \in Attendances /\ committed[Record(r)] \in Attendances
         /\ \A n \in Runs : /\ Run(n) \in Rows /\ TypeOf(Run(n)) = Payrolls
                            /\ db[Run(n)] \in Payrolls /\ committed[Run(n)] \in Payrolls
         /\ \A l \in Leaves : /\ Leave(l) \in Rows
                              /\ TypeOf(Leave(l)) = {"PENDING", "APPROVED", "REJECTED"}
<1>1. \A r \in Records : Record(r) \in Rows /\ TypeOf(Record(r)) = Attendances
  BY StaffRowsApart, RowTypes
<1>2. \A n \in Runs : Run(n) \in Rows /\ TypeOf(Run(n)) = Payrolls
  BY StaffRowsApart, RowTypes
<1>3. \A u \in Employees : Employee(u) \in Rows /\ TypeOf(Employee(u)) = Sites
  BY StaffRowsApart, RowTypes
<1>4. \A l \in Leaves : Leave(l) \in Rows /\ TypeOf(Leave(l)) = {"PENDING", "APPROVED", "REJECTED"}
  BY StaffRowsApart, RowTypes
<1> QED BY <1>1, <1>2, <1>3, <1>4 DEF BackTypes, RowsTyped

LEMMA PeopleTyped ==
  ASSUME BackTypes, desk = "staff", Move \/ DecideLeave PROVE BackTypes'
<1>1. raced \subseteq Rows
  BY DEF BackTypes, BoundsTyped
<1>2. CASE Move
  <2>1. PICK u \in Employees, b \in Sites :
          /\ Single /\ Put(Employee(u), b)
          /\ Logged({[kind |-> "moved", key |-> u, amount |-> 0]}) /\ UNCHANGED raced
    BY <1>2 DEF Move
  <2>2. PICK entries : entries = {[kind |-> "moved", key |-> u, amount |-> 0]}
    OBVIOUS
  <2>3. Homely(entries)
    BY <2>2 DEF Homely
  <2>4. Employee(u) \in Rows /\ b \in TypeOf(Employee(u))
    BY StaffValues
  <2> QED BY <1>1, <2>1, <2>2, <2>3, <2>4, SinglePutTyped
<1>3. CASE DecideLeave
  <2>1. PICK l \in Leaves, decision \in {"APPROVED", "REJECTED"} :
          /\ Single /\ Put(Leave(l), decision)
          /\ Logged({[kind |-> "leave", key |-> l, amount |-> 0]}) /\ UNCHANGED raced
    BY <1>3 DEF DecideLeave
  <2>2. PICK entries : entries = {[kind |-> "leave", key |-> l, amount |-> 0]}
    OBVIOUS
  <2>3. Homely(entries)
    BY <2>2 DEF Homely
  <2>4. Leave(l) \in Rows /\ decision \in TypeOf(Leave(l))
    BY StaffValues
  <2> QED BY <1>1, <2>1, <2>2, <2>3, <2>4, SinglePutTyped
<1> QED BY <1>2, <1>3

LEMMA ClocksTyped ==
  ASSUME BackTypes, StaffTypes, desk = "staff", NEW t \in Txns,
         ClockIn(t) \/ CreateRecord(t) \/ ClockOut(t) \/ CloseRecord(t)
  PROVE  BackTypes'
<1>1. raced \subseteq Rows /\ {} \in SUBSET Rows /\ StaffRequest(t)
      /\ ReadFits(tx[t].op, tx[t].pc, tx[t].row, tx[t].read)
  BY DEF BackTypes, BoundsTyped, RequestsTyped, StaffTypes
<1>2. CASE ClockIn(t)
  <2>1. PICK u \in Employees, b \in Sites :
          BeginBeside(t, "clockin", "create", Employee(u), [site |-> b], {})
    BY <1>2 DEF ClockIn, Begin
  <2>2. PICK read : read = [site |-> b]
    OBVIOUS
  <2>3. ReadFits("clockin", "create", Employee(u), read)
    BY <2>2 DEF ReadFits
  <2> QED BY <1>1, <2>1, <2>2, <2>3, BeginsTyped
<1>3. CASE CreateRecord(t)
  <2>1. tx[t].op = "clockin" /\ tx[t].pc = "create" /\ tx[t].read.site \in Sites
    BY <1>1, <1>3 DEF CreateRecord, Doing, ReadFits
  <2>2. PICK u \in Employees : tx[t].row = Employee(u)
    BY <1>1, <2>1 DEF StaffRequest
  <2>3. tx[t].row[2] = u /\ Employee(u) \in Rows
    BY <2>2, StaffRowsApart
  <2>4. PICK v : v = [st |-> "open", who |-> u, site |-> tx[t].read.site]
    OBVIOUS
  <2>5. PICK r \in FreshId(Records, Recorded) :
          /\ Put(Record(r), v) /\ Finish(t) /\ log' = log
          /\ raced' \subseteq raced \union {Employee(u)}
    BY <1>3, <2>3, <2>4 DEF CreateRecord
  <2>6. r \in Records
    BY DEF FreshId
  <2>7. v \in Attendances
    BY <2>1, <2>4 DEF Attendances
  <2>8. Record(r) \in Rows /\ v \in TypeOf(Record(r))
    BY <2>6, <2>7, StaffValues
  <2>9. ~Holder(tx[t].op, tx[t].pc)
    BY <2>1 DEF Holder
  <2> QED BY <1>1, <2>3, <2>5, <2>8, <2>9, PutsTyped
<1>4. CASE ClockOut(t)
  <2>1. PICK u \in Employees : \E r, read : BeginBeside(t, "clockout", "close", Record(r), read, {})
    BY <1>4 DEF ClockOut, Begin
  <2>2. PICK r, read : BeginBeside(t, "clockout", "close", Record(r), read, {})
    BY <2>1
  <2>3. ReadFits("clockout", "close", Record(r), read)
    BY DEF ReadFits
  <2> QED BY <1>1, <2>2, <2>3, BeginsTyped
<1>5. CASE CloseRecord(t)
  <2>1. PICK row : row = tx[t].row
    OBVIOUS
  <2>2. PICK v : v = [db[row] EXCEPT !.st = "closed"]
    OBVIOUS
  <2>3. /\ tx[t].op = "clockout" /\ Put(row, v) /\ Finish(t) /\ log' = log
        /\ raced' \subseteq raced \union {row}
    BY <1>5, <2>1, <2>2 DEF CloseRecord, Doing, Races
  <2>4. PICK r \in Records : row = Record(r) /\ committed[Record(r)].st # "none"
    BY <1>1, <2>1, <2>3 DEF StaffRequest
  <2>5. db[row] = committed[row]
    BY <2>3, <2>4, StaffValues DEF Put, StaffTypes
  <2>6. v \in Attendances
    BY <2>2, <2>4, <2>5, StaffValues DEF Attendances, NoRecord
  <2>7. row \in Rows /\ v \in TypeOf(row)
    BY <2>4, <2>6, StaffValues
  <2>8. ~Holder(tx[t].op, tx[t].pc)
    BY <2>3 DEF Holder
  <2> QED BY <1>1, <2>3, <2>7, <2>8, PutsTyped
<1> QED BY <1>2, <1>3, <1>4, <1>5

LEMMA PayrollTyped ==
  ASSUME BackTypes, StaffTypes, desk = "staff", NEW t \in Txns,
         Generate(t) \/ ReadSalaried(t) \/ CreateRun(t) \/ ReadRun(t) \/ ClaimRun(t)
  PROVE  BackTypes'
<1>1. raced \subseteq Rows /\ {} \in SUBSET Rows /\ StaffRequest(t) /\ Homely(tx[t].out)
      /\ ReadFits(tx[t].op, tx[t].pc, tx[t].row, tx[t].read)
  BY DEF BackTypes, BoundsTyped, RequestsTyped, StaffTypes
<1>2. Homely({})
  BY DEF Homely
<1>3. CASE Generate(t)
  <2>1. PICK b \in Sites :
          BeginBeside(t, "generate", "salaried", NoTxn,
            [site |-> b,
             slips |-> {[who |-> committed[Record(r)].who, for |-> r] :
                          r \in {x \in Records : /\ committed[Record(x)].st = "closed"
                                                 /\ committed[Record(x)].site = b}}], {})
    BY <1>3 DEF Generate, Begin
  <2>2. PICK slips : slips = {[who |-> committed[Record(r)].who, for |-> r] :
                                r \in {x \in Records : /\ committed[Record(x)].st = "closed"
                                                       /\ committed[Record(x)].site = b}}
    OBVIOUS
  <2>3. PICK read : read = [site |-> b, slips |-> slips]
    OBVIOUS
  <2>4. BeginBeside(t, "generate", "salaried", NoTxn, read, {})
    BY <2>1, <2>2, <2>3
  <2>5. ASSUME NEW r \in Records, committed[Record(r)].st = "closed"
        PROVE  committed[Record(r)].who \in Employees
    <3>1. committed[Record(r)] \in Attendances
      BY StaffValues
    <3> QED BY <2>5, <3>1 DEF Attendances, NoRecord
  <2>6. slips \subseteq Slips
    BY <2>2, <2>5 DEF Slips
  <2>7. read.site = b /\ read.slips = slips
    BY <2>3
  <2>8. ReadFits("generate", "salaried", NoTxn, read)
    BY <2>6, <2>7 DEF ReadFits
  <2> QED BY <1>1, <2>4, <2>8, BeginsTyped
<1>4. CASE ReadSalaried(t)
  <2>1. tx[t].op = "generate" /\ tx[t].pc = "salaried" /\ UNCHANGED <<db, lock, raced>>
    BY <1>4 DEF ReadSalaried, Doing
  <2>2. PICK paid \in SUBSET Salaried :
          Continue(t, "create", [tx[t].read EXCEPT !.slips = @ \union {Salary(u) : u \in paid}], {})
    BY <1>4 DEF ReadSalaried
  <2>3. PICK site, slips : site = tx[t].read.site /\ slips = tx[t].read.slips
    OBVIOUS
  <2>4. site \in Sites /\ slips \subseteq Slips /\ tx[t].read = [site |-> site, slips |-> slips]
    BY <1>1, <2>1, <2>3 DEF ReadFits, StaffRequest
  <2>5. PICK more : more = slips \union {Salary(u) : u \in paid}
    OBVIOUS
  <2>6. PICK read : read = [site |-> site, slips |-> more]
    OBVIOUS
  <2>7. read = [tx[t].read EXCEPT !.slips = @ \union {Salary(u) : u \in paid}]
    BY <2>4, <2>5, <2>6
  <2>8. more \subseteq Slips
    BY <2>4, <2>5, StaffAssumption DEF Slips, Salary
  <2>9. read.site \in Sites /\ read.slips \subseteq Slips
    BY <2>4, <2>6, <2>8
  <2>10. ReadFits(tx[t].op, "create", tx[t].row, read) /\ ~Holder(tx[t].op, tx[t].pc)
    BY <2>1, <2>9 DEF ReadFits, Holder
  <2> QED BY <1>1, <1>2, <2>1, <2>2, <2>7, <2>10, ReadsOnTyped
<1>5. CASE CreateRun(t)
  <2>1. tx[t].op = "generate" /\ tx[t].pc = "create" /\ Finish(t) /\ UNCHANGED <<log, raced>>
    BY <1>5 DEF CreateRun, Doing
  <2>2. PICK v : v = [st |-> "DRAFT", site |-> tx[t].read.site, slips |-> tx[t].read.slips]
    OBVIOUS
  <2>3. PICK n \in FreshId(Runs, Ran) : UNCHANGED <<db, committed, lock>> \/ Put(Run(n), v)
    BY <1>5, <2>2 DEF CreateRun
  <2>4. n \in Runs
    BY DEF FreshId
  <2>5. tx[t].read.site \in Sites /\ tx[t].read.slips \subseteq Slips /\ ~Holder(tx[t].op, tx[t].pc)
    BY <1>1, <2>1 DEF ReadFits, Holder
  <2>6. v \in Payrolls
    BY <2>2, <2>5 DEF Payrolls
  <2>7. Run(n) \in Rows /\ v \in TypeOf(Run(n))
    BY <2>4, <2>6, StaffValues
  <2> QED BY <1>1, <2>1, <2>3, <2>5, <2>7, PutsTyped, LooksTyped
<1>6. CASE ReadRun(t)
  <2>1. PICK n \in Runs : \E read : BeginBeside(t, "payout", "claim", Run(n), read, {})
    BY <1>6 DEF ReadRun, Begin
  <2>2. PICK read : BeginBeside(t, "payout", "claim", Run(n), read, {})
    BY <2>1
  <2>3. ReadFits("payout", "claim", Run(n), read)
    BY DEF ReadFits
  <2> QED BY <1>1, <2>2, <2>3, BeginsTyped
<1>7. CASE ClaimRun(t)
  <2>1. PICK row : row = tx[t].row
    OBVIOUS
  <2>2. PICK v : v = [db[row] EXCEPT !.st = "APPROVED"]
    OBVIOUS
  <2>3. PICK out : out = Payout(row[2], tx[t].read.slips)
    OBVIOUS
  <2>4. /\ tx[t].op = "payout"
        /\ \/ Throw(t)
           \/ /\ db[row].st = "DRAFT" /\ Write(t, row, v) /\ Continue(t, "commit", tx[t].read, out)
              /\ UNCHANGED raced
    BY <1>7, <2>1, <2>2, <2>3 DEF ClaimRun, Doing
  <2>5. PICK n \in Runs : row = Run(n)
    BY <1>1, <2>1, <2>4 DEF StaffRequest
  <2>6. row \in Rows /\ TypeOf(row) = Payrolls /\ db[row] \in Payrolls
    BY <2>5, StaffValues
  <2>7. db[row].st = "DRAFT" => v \in TypeOf(row)
    BY <2>2, <2>6 DEF Payrolls, NoRun
  <2>8. Homely(out)
    BY <2>3 DEF Homely, Payout
  <2>9. ReadFits(tx[t].op, "commit", tx[t].row, tx[t].read) /\ Holder(tx[t].op, "commit")
    BY <2>4 DEF ReadFits, Holder
  <2> QED BY <1>1, <2>4, <2>6, <2>7, <2>8, <2>9, WritesTyped, ThrowsTyped
<1> QED BY <1>3, <1>4, <1>5, <1>6, <1>7

LEMMA StaffTyped == ASSUME BackTypes, StaffTypes, desk = "staff", StaffNext PROVE BackTypes'
BY PeopleTyped, ClocksTyped, PayrollTyped DEF StaffNext, StaffStep

\* A set of numbers below some number has a greatest one.
LEMMA Greatest ==
  ASSUME NEW T \in SUBSET Nat, T # {}, NEW k \in Nat, \A x \in T : x <= k
  PROVE  \E x \in T : \A y \in T : y <= x
<1> SUFFICES ASSUME \A x \in T : \E y \in T : ~(y <= x) PROVE FALSE
  OBVIOUS
<1> DEFINE N == {n \in Nat : \A x \in T : x <= k - n}
<1>1. 0 \in N
  OBVIOUS
<1>2. ASSUME NEW n \in Nat, n \in N PROVE n + 1 \in N
  <2>1. \A x \in T : x <= k - n
    BY <1>2
  <2>2. k - n \notin T
    BY <2>1
  <2>3. \A x \in T : x <= k - (n + 1)
    BY <2>1, <2>2
  <2> QED BY <2>3
<1>3. Nat \subseteq N
  <2> HIDE DEF N
  <2> QED BY <1>1, <1>2, StepInduction
<1>4. k + 1 \in N
  BY <1>3
<1>5. PICK x \in T : x \in Nat
  OBVIOUS
<1>6. x <= k - (k + 1)
  BY <1>4
<1> QED BY <1>5, <1>6

\* Every spend reaches some tier.
LEMMA TierExists == ASSUME NEW spend \in Nat PROVE TierOf(spend) \in DOMAIN TierFrom
<1> DEFINE reached == {tier \in DOMAIN TierFrom : TierFrom[tier] <= spend}
           starts == {TierFrom[tier] : tier \in reached}
<1>1. \A tier \in DOMAIN TierFrom : TierFrom[tier] \in Nat
  BY LoyaltyAssumption
<1>2. "REGULAR" \in reached
  BY LoyaltyAssumption
<1>3. starts \in SUBSET Nat /\ starts # {} /\ \A x \in starts : x <= spend
  BY <1>1, <1>2
<1>4. \E x \in starts : \A y \in starts : y <= x
  <2> HIDE DEF starts
  <2> QED BY <1>3, Greatest
<1>5. PICK x \in starts : \A y \in starts : y <= x
  BY <1>4
<1>6. PICK tier \in reached : x = TierFrom[tier]
  BY <1>5
<1>7. /\ TierFrom[tier] <= spend
      /\ \A other \in DOMAIN TierFrom : TierFrom[other] <= spend => TierFrom[other] <= TierFrom[tier]
  BY <1>5, <1>6
<1>8. \E high \in DOMAIN TierFrom :
        /\ TierFrom[high] <= spend
        /\ \A other \in DOMAIN TierFrom : TierFrom[other] <= spend => TierFrom[other] <= TierFrom[high]
  BY <1>6, <1>7
<1> HIDE DEF reached, starts
<1> QED BY <1>8 DEF TierOf

LEMMA LoyaltyValues ==
  ASSUME BackTypes, NEW m \in Members
  PROVE  /\ Spend(m) \in Rows /\ TypeOf(Spend(m)) = Nat
         /\ db[Spend(m)] \in Nat /\ committed[Spend(m)] \in Nat
         /\ Member(m) \in Rows /\ TypeOf(Member(m)) = [tier : DOMAIN TierFrom, hidden : BOOLEAN]
         /\ db[Member(m)] \in [tier : DOMAIN TierFrom, hidden : BOOLEAN]
         /\ committed[Member(m)] \in [tier : DOMAIN TierFrom, hidden : BOOLEAN]
<1>1. Spend(m) \in Rows /\ TypeOf(Spend(m)) = Nat
  BY LoyaltyRowsApart, RowTypes
<1>2. Member(m) \in Rows /\ TypeOf(Member(m)) = [tier : DOMAIN TierFrom, hidden : BOOLEAN]
  BY LoyaltyRowsApart, RowTypes
<1> QED BY <1>1, <1>2 DEF BackTypes, RowsTyped

LEMMA LoyaltySinglesTyped ==
  ASSUME BackTypes, desk = "loyalty", Reverse \/ Anonymize PROVE BackTypes'
<1>1. raced \subseteq Rows
  BY DEF BackTypes, BoundsTyped
<1>2. CASE Reverse
  <2>1. PICK m \in Members, amount \in Prices :
          /\ Single /\ committed[Spend(m)] >= amount
          /\ Put(Spend(m), committed[Spend(m)] - amount)
          /\ Logged({[kind |-> "reversal", key |-> m, amount |-> amount]}) /\ UNCHANGED raced
    BY <1>2 DEF Reverse
  <2>2. PICK entries : entries = {[kind |-> "reversal", key |-> m, amount |-> amount]}
    OBVIOUS
  <2>3. Homely(entries)
    BY <2>2 DEF Homely
  <2>4. PICK v : v = committed[Spend(m)] - amount
    OBVIOUS
  <2>5. amount \in Nat
    BY LoyaltyAssumption
  <2>6. Spend(m) \in Rows /\ v \in TypeOf(Spend(m))
    BY <2>1, <2>4, <2>5, LoyaltyValues
  <2> QED BY <1>1, <2>1, <2>2, <2>3, <2>4, <2>6, SinglePutTyped
<1>3. CASE Anonymize
  <2>1. PICK m \in Members :
          Single /\ Put(Member(m), [committed[Member(m)] EXCEPT !.hidden = TRUE]) /\ UNCHANGED <<log, raced>>
    BY <1>3 DEF Anonymize
  <2>2. PICK v : v = [committed[Member(m)] EXCEPT !.hidden = TRUE]
    OBVIOUS
  <2>3. v \in [tier : DOMAIN TierFrom, hidden : BOOLEAN]
    BY <2>2, LoyaltyValues
  <2>4. Member(m) \in Rows /\ v \in TypeOf(Member(m))
    BY <2>3, LoyaltyValues
  <2>5. PICK none : none = {}
    OBVIOUS
  <2>6. Homely(none)
    BY <2>5 DEF Homely
  <2> QED BY <1>1, <2>1, <2>2, <2>4, <2>6, SinglePutTyped
<1> QED BY <1>2, <1>3

LEMMA TierStepsTyped ==
  ASSUME BackTypes, TierTypes, desk = "loyalty", NEW t \in Txns, LoyaltyStep(t) PROVE BackTypes'
<1>1. raced \subseteq Rows /\ Homely(tx[t].out)
      /\ ReadFits(tx[t].op, tx[t].pc, tx[t].row, tx[t].read)
  BY DEF BackTypes, BoundsTyped, RequestsTyped
<1>2. tx[t].op = "tier" => ~Holder(tx[t].op, tx[t].pc) /\ \E m \in Members : tx[t].row = Member(m)
  BY <1>1 DEF Holder, ReadFits
<1>3. Homely({})
  BY DEF Homely
<1>4. CASE Buy(t)
  <2>1. PICK m \in Members, amount \in Prices :
          /\ tx[t].op = "none" /\ OneMore /\ Put(Spend(m), committed[Spend(m)] + amount)
          /\ tx' = [tx EXCEPT ![t] = [op |-> "tier", pc |-> "spend", row |-> Member(m),
                                      read |-> NotRead, out |-> {}]]
          /\ UNCHANGED <<log, raced, desk>>
    BY <1>4 DEF Buy
  <2>2. PICK v : v = committed[Spend(m)] + amount
    OBVIOUS
  <2>3. PICK request : request = [op |-> "tier", pc |-> "spend", row |-> Member(m),
                                  read |-> NotRead, out |-> {}]
    OBVIOUS
  <2>4. request = [op |-> request.op, pc |-> request.pc, row |-> request.row,
                   read |-> request.read, out |-> {}]
        /\ request.op = "tier" /\ request.pc = "spend" /\ request.row = Member(m)
    BY <2>3
  <2>5. ReadFits(request.op, request.pc, request.row, request.read)
    BY <2>4 DEF ReadFits
  <2>6. amount \in Nat
    BY LoyaltyAssumption
  <2>7. Spend(m) \in Rows /\ v \in TypeOf(Spend(m))
    BY <2>2, <2>6, LoyaltyValues
  <2>8. tx' = [tx EXCEPT ![t] = request] /\ Put(Spend(m), v)
    BY <2>1, <2>2, <2>3
  <2> QED BY <2>1, <2>4, <2>5, <2>7, <2>8, StartsTyped
<1>5. CASE ReadSpend(t)
  <2>1. PICK m \in Members : tx[t].row = Member(m)
    BY <1>2, <1>5 DEF ReadSpend, Doing
  <2>2. tx[t].row[2] = m
    BY <2>1, LoyaltyRowsApart
  <2>3. PICK read : read = [spend |-> committed[Spend(m)]]
    OBVIOUS
  <2>4. tx[t].op = "tier" /\ Continue(t, "member", read, {}) /\ UNCHANGED <<db, lock, raced>>
    BY <1>5, <2>2, <2>3 DEF ReadSpend, Doing
  <2>5. read.spend \in Nat
    BY <2>3, LoyaltyValues
  <2>6. ReadFits(tx[t].op, "member", tx[t].row, read)
    BY <2>1, <2>4, <2>5 DEF ReadFits
  <2> QED BY <1>1, <1>2, <1>3, <2>4, <2>6, ReadsOnTyped
<1>6. CASE ReadMember(t)
  <2>1. tx[t].op = "tier" /\ tx[t].pc = "member" /\ UNCHANGED <<db, lock, raced>>
    BY <1>6 DEF ReadMember, Doing
  <2>2. \/ Finish(t) /\ UNCHANGED <<committed, log>>
        \/ Continue(t, "write", tx[t].read, tx[t].out)
    BY <1>6 DEF ReadMember, GoTo
  <2>3. ReadFits(tx[t].op, "write", tx[t].row, tx[t].read)
    BY <1>1, <2>1 DEF ReadFits
  <2> QED BY <1>1, <1>2, <2>1, <2>2, <2>3, LooksTyped, ReadsOnTyped
<1>7. CASE WriteTier(t)
  <2>1. PICK m \in Members : tx[t].row = Member(m)
    BY <1>2, <1>7 DEF WriteTier, Doing
  <2>2. tx[t].row[2] = m /\ Spend(m) \in Rows
    BY <2>1, LoyaltyRowsApart
  <2>3. PICK v : v = [db[Member(m)] EXCEPT !.tier = TierOf(tx[t].read.spend)]
    OBVIOUS
  <2>4. /\ tx[t].op = "tier" /\ tx[t].pc = "write" /\ Put(Member(m), v) /\ Finish(t) /\ log' = log
        /\ raced' \subseteq raced \union {Spend(m)}
    BY <1>7, <2>2, <2>3 DEF WriteTier, Doing, Races
  <2>5. TierOf(tx[t].read.spend) \in DOMAIN TierFrom
    BY <1>1, <2>4, TierExists DEF ReadFits
  <2>6. v \in [tier : DOMAIN TierFrom, hidden : BOOLEAN]
    BY <2>3, <2>5, LoyaltyValues
  <2>7. Member(m) \in Rows /\ v \in TypeOf(Member(m))
    BY <2>6, LoyaltyValues
  <2> QED BY <1>1, <1>2, <2>2, <2>4, <2>7, PutsTyped
<1> QED BY <1>4, <1>5, <1>6, <1>7 DEF LoyaltyStep

LEMMA LoyaltyTyped == ASSUME BackTypes, TierTypes, desk = "loyalty", LoyaltyNext PROVE BackTypes'
BY LoyaltySinglesTyped, TierStepsTyped DEF LoyaltyNext

\* The journal keeps them too.
LEMMA JournalTyped ==
  ASSUME BackTypes, JournalBooks, desk = "journal", JournalNext PROVE BackTypes'
<1>1. raced \subseteq Rows /\ desk \in Departments
  BY DEF BackTypes, BoundsTyped
<1>2. ASSUME NEW p \in Papers
      PROVE  Paper(p) \in Rows /\ TypeOf(Paper(p)) = [st : PaperStatuses, tax : Nat]
  BY JournalRowsApart, RowTypes
<1>3. Rate \in Rows /\ TypeOf(Rate) = Rates
  BY RateRow, RowTypes
<1>4. ASSUME NEW p \in Papers, NEW turn \in Turns(p), Proceed(p, turn) PROVE BackTypes'
  <2>1. PICK tax : tax = IF turn[1] = "ORD" THEN TaxIn(Terms[p].net, committed[Rate])
                         ELSE committed[Paper(p)].tax
    OBVIOUS
  <2>2. PICK entries : entries = IF Announced(p) THEN {Fact(<<turn[1], p>>, tax)} ELSE {}
    OBVIOUS
  <2>3. PICK v : v = [st |-> turn[3], tax |-> tax]
    OBVIOUS
  <2>4. Single /\ Put(Paper(p), v) /\ Logged(entries) /\ UNCHANGED raced
    BY <1>4, <2>1, <2>2, <2>3 DEF Proceed
  <2>5. tax \in Nat
    <3>1. CASE turn[1] = "ORD"
      <4>1. Terms[p].kind = "sale"
        BY <3>1, CourseTells
      <4>2. Terms[p].net \in Nat
        BY <4>1, TermsAssumption DEF Priced
      <4>3. committed[Rate] \in Nat
        BY JournalAssumption DEF JournalBooks, JournalTypes
      <4> QED BY <2>1, <3>1, <4>2, <4>3, TaxNat
    <3>2. CASE turn[1] # "ORD"
      BY <2>1, <3>2 DEF JournalBooks, JournalTypes, TaxOf
    <3> QED BY <3>1, <3>2
  <2>6. turn[3] \in PaperStatuses
    BY DEF PaperStatuses
  <2>7. v \in [st : PaperStatuses, tax : Nat]
    BY <2>3, <2>5, <2>6
  <2>8. Paper(p) \in Rows /\ v \in TypeOf(Paper(p))
    BY <1>2, <2>7
  <2>9. Homely(entries)
    BY <2>2 DEF Homely, Fact
  <2> QED BY <1>1, <2>4, <2>8, <2>9, SinglePutTyped
<1>5. CASE ChangeRate
  <2>1. PICK rate \in Rates : Single /\ Put(Rate, rate) /\ UNCHANGED <<log, raced>>
    BY <1>5 DEF ChangeRate
  <2>2. PICK none : none = {}
    OBVIOUS
  <2>3. Homely(none)
    BY <2>2 DEF Homely
  <2> QED BY <1>1, <1>3, <2>1, <2>3, SinglePutTyped
<1>6. ASSUME Single, UNCHANGED <<db, committed, lock>> PROVE RowsTyped' /\ lock' = lock /\ desk' = desk
  BY <1>6, RowsStill DEF Single, BackTypes
<1>7. ASSUME NEW e \in Facts, Deliver(e) PROVE BackTypes'
  <2>1. PICK entries : entries = {Handled(e.key)} \union PostEntry(e)
    OBVIOUS
  <2>2. Single /\ Logged(entries) /\ UNCHANGED <<db, committed, lock, raced>>
    BY <1>7, <2>1 DEF Deliver
  <2>3. \A x \in PostEntry(e) : x.kind = "entry"
    BY DEF PostEntry, Entry
  <2>4. Handled(e.key).kind = "handled"
    BY DEF Handled
  <2>5. Homely(entries)
    BY <2>1, <2>3, <2>4 DEF Homely
  <2>6. LogTyped'
    BY <1>6, <2>2, <2>5, LogTypes DEF BackTypes
  <2> QED BY <1>1, <1>6, <2>2, <2>6, SinglesTyped
<1>8. ASSUME NEW e \in Facts, Miss(e) PROVE BackTypes'
  <2>1. Single /\ UNCHANGED <<db, committed, lock, log>> /\ raced' = raced \union {Paper(e.key[2])}
    BY <1>8 DEF Miss
  <2>2. PICK p \in Papers, x \in Prefixes : e.key = <<x, p>>
    BY FactIs
  <2>3. e.key[2] = p
    BY <2>2
  <2>4. raced' \subseteq Rows
    BY <1>1, <1>2, <2>1, <2>3
  <2>5. LogTyped'
    BY <1>6, <2>1, LogStill DEF BackTypes
  <2> QED BY <1>6, <2>1, <2>4, <2>5, SinglesTyped
<1> QED BY <1>4, <1>5, <1>7, <1>8 DEF JournalNext

-------------------------------------------------------------------------------
(* The types hold in every state.                                          *)

\* A request ends without its writes.
LEMMA AbortsTyped ==
  ASSUME BackTypes, NEW t \in Txns, Abort(t, Lost(t)) PROVE BackTypes'
<1>1. UndoWrites(t) /\ Finish(t) /\ raced' = raced \union Lost(t) /\ log' = log /\ desk' = desk
  BY DEF Abort, Finish
<1>2. RowsTyped' /\ OwnLocks(t) /\ \A r \in Rows : lock'[r] # t
  BY <1>1, UndoTypes DEF BackTypes
<1>3. ASSUME tx[t].op = "tier" PROVE Spend(tx[t].row[2]) \in Rows
  <2>1. PICK m \in Members : tx[t].row = Member(m)
    BY <1>3 DEF BackTypes, RequestsTyped, ReadFits
  <2>2. tx[t].row[2] = m
    BY <2>1, LoyaltyRowsApart
  <2> QED BY <2>2, LoyaltyRowsApart
<1>4. raced' \subseteq Rows
  BY <1>1, <1>3 DEF Lost, BackTypes, BoundsTyped
<1>5. LogTyped'
  BY <1>1, LogStill DEF BackTypes
<1> QED BY <1>1, <1>2, <1>4, <1>5, FinishesTyped

LEMMA TypesIdle == ASSUME BackTypes, UNCHANGED serviceVars PROVE BackTypes'
<1>1. UNCHANGED <<db, committed, lock, tx, log, begun, raced, desk>>
  BY DEF serviceVars
<1>2. RowsTyped' /\ LogTyped'
  BY <1>1, RowsStill, LogStill DEF BackTypes
<1>3. RequestsTyped'
  BY <1>1, SameRequests DEF BackTypes, RequestsTyped, Homely
<1>4. BoundsTyped'
  BY <1>1 DEF BackTypes, BoundsTyped
<1> QED BY <1>2, <1>3, <1>4 DEF BackTypes

\* What every department keeps, and the types that rest on it.
BackInv == /\ MadeInv /\ CountInv /\ ReorderInv /\ SettleInv /\ StaffInv /\ TierInv /\ JournalInv
           /\ BackTypes

LEMMA TypesNext == ASSUME BackInv, [Next]_serviceVars PROVE BackTypes'
<1>1. BackTypes /\ (desk = "stockroom" => CountTypes /\ JobTypes)
  BY DEF BackInv, CountInv, MadeInv
<1>2. /\ desk = "reordering" => ReorderTypes
      /\ desk = "settlements" => SettleTypes
      /\ desk = "staff" => StaffTypes
      /\ desk = "loyalty" => TierTypes
      /\ desk = "journal" => JournalBooks
  BY DEF BackInv, ReorderInv, SettleInv, StaffInv, TierInv, JournalInv
<1>3. CASE UNCHANGED serviceVars
  BY <1>1, <1>3, TypesIdle
<1>4. CASE desk = "stockroom" /\ (StockCountNext \/ ProductionNext)
  BY <1>1, <1>4, StockroomTyped
<1>5. CASE desk = "reordering" /\ ReorderNext
  BY <1>1, <1>2, <1>5, ReorderTyped
<1>6. CASE desk = "settlements" /\ SettlementNext
  BY <1>1, <1>2, <1>6, SettlementTyped
<1>7. CASE desk = "staff" /\ StaffNext
  BY <1>1, <1>2, <1>7, StaffTyped
<1>8. CASE desk = "loyalty" /\ LoyaltyNext
  BY <1>1, <1>2, <1>8, LoyaltyTyped
<1>9. CASE desk = "journal" /\ JournalNext
  BY <1>1, <1>2, <1>9, JournalTyped
<1>10. ASSUME NEW t \in Txns, Commit(t) PROVE BackTypes'
  BY <1>1, <1>10, CommitsTyped DEF Commit
<1>11. ASSUME NEW t \in Txns, Abort(t, Lost(t)) PROVE BackTypes'
  BY <1>1, <1>11, AbortsTyped
<1> QED BY <1>3, <1>4, <1>5, <1>6, <1>7, <1>8, <1>9, <1>10, <1>11 DEF Next

LEMMA BackNext == ASSUME BackInv, [Next]_serviceVars PROVE BackInv'
BY TypesNext, MadeNextInv, CountNextInv, ReorderNextInv, SettleNext, StaffNextInv, TierNext,
   JournalNextInv DEF BackInv

\* Every row starts with a value of its type.
LEMMA StockTypesInit ==
  ASSUME NEW r \in StockCountRows \union ProductionRows \union ReorderRows
  PROVE  InitialOf(r) \in TypeOf(r)
<1>1. CASE r \in StockCountRows
  <2>1. InitialOf(r) = StockCountInitial(r)
    BY <1>1, InitialRows
  <2>2. CASE \E i \in Ingredients : r = Shelf(i)
    <3>1. PICK i \in Ingredients : r = Shelf(i)
      BY <2>2
    <3>2. r[1] = "shelf" /\ r[2] = i
      BY <3>1 DEF Shelf
    <3>3. StockCountInitial(r) = Opening[i] /\ Opening[i] \in Nat
      BY <3>2, StockCountsAssumption DEF StockCountInitial
    <3> QED BY <2>1, <3>1, <3>3, RowTypes
  <2>3. CASE \E c \in Counts : r = Count(c)
    <3>1. PICK c \in Counts : r = Count(c)
      BY <2>3
    <3>2. r[1] = "count"
      BY <3>1 DEF Count
    <3>3. StockCountInitial(r) = "none"
      BY <3>2 DEF StockCountInitial
    <3> QED BY <2>1, <3>1, <3>3, RowTypes DEF CountStatuses
  <2>4. CASE \E c \in Counts, i \in Ingredients : r = Line(c, i)
    <3>1. PICK c \in Counts, i \in Ingredients : r = Line(c, i)
      BY <2>4
    <3>2. r[1] = "line"
      BY <3>1 DEF Line
    <3>3. StockCountInitial(r) = [counted |-> Null, expected |-> Null]
      BY <3>2 DEF StockCountInitial, Blank
    <3>4. StockCountInitial(r) \in [counted : Counted \union {Null}, expected : Nat \union {Null}]
      BY <3>3
    <3>5. TypeOf(Line(c, i)) = [counted : Counted \union {Null}, expected : Nat \union {Null}]
      BY RowTypes
    <3> QED BY <2>1, <3>1, <3>4, <3>5
  <2> QED BY <1>1, <2>2, <2>3, <2>4 DEF StockCountRows
<1>2. CASE r \in ProductionRows
  <2>1. PICK j \in Jobs : r = Job(j)
    BY <1>2 DEF ProductionRows
  <2> QED BY <1>2, <2>1, InitialRows, RowTypes DEF JobStatuses
<1>3. CASE r \in ReorderRows
  <2>1. InitialOf(r) = ReorderInitial(r)
    BY <1>3, InitialRows
  <2>2. CASE \E i \in Supplies : r = Supply(i)
    <3>1. PICK i \in Supplies : r = Supply(i)
      BY <2>2
    <3>2. r[1] = "supply" /\ r[2] = i
      BY <3>1 DEF Supply
    <3>3. ReorderInitial(r) = InStock[i] /\ InStock[i] \in Nat
      BY <3>2, ReorderingAssumption DEF ReorderInitial
    <3> QED BY <2>1, <3>1, <3>3, RowTypes
  <2>3. CASE \E p \in POs : r = PO(p)
    <3>1. PICK p \in POs : r = PO(p)
      BY <2>3
    <3>2. r[1] = "po"
      BY <3>1 DEF PO
    <3>3. ReorderInitial(r) = "none"
      BY <3>2 DEF ReorderInitial
    <3> QED BY <2>1, <3>1, <3>3, RowTypes DEF POStatuses
  <2>4. CASE \E p \in POs, i \in Supplies : r = Item(p, i)
    <3>1. PICK p \in POs, i \in Supplies : r = Item(p, i)
      BY <2>4
    <3>2. r[1] = "item"
      BY <3>1 DEF Item
    <3>3. ReorderInitial(r) = FALSE
      BY <3>2 DEF ReorderInitial
    <3>4. TypeOf(Item(p, i)) = BOOLEAN
      BY RowTypes
    <3> QED BY <2>1, <3>1, <3>3, <3>4
  <2> QED BY <1>3, <2>2, <2>3, <2>4 DEF ReorderRows
<1> QED BY <1>1, <1>2, <1>3

LEMMA OfficeTypesInit ==
  ASSUME NEW r \in SettlementRows \union StaffRows PROVE InitialOf(r) \in TypeOf(r)
<1>1. CASE r \in SettlementRows
  <2>1. InitialOf(r) = SettlementInitial(r)
    BY <1>1, InitialRows
  <2>2. CASE r = Till
    BY <2>1, <2>2, RowTypes DEF SettlementInitial
  <2>3. CASE r # Till
    <3>1. PICK s \in SettlementIds : r = Settlement(s)
      BY <1>1, <2>3 DEF SettlementRows
    <3>2. InitialOf(r) = [st |-> "none", expected |-> 0]
      BY <2>1, <2>3 DEF SettlementInitial, NoSettlement
    <3>3. InitialOf(r) \in Figures
      BY <3>2 DEF Figures
    <3> QED BY <3>1, <3>3, RowTypes
  <2> QED BY <2>2, <2>3
<1>2. CASE r \in StaffRows
  <2>1. InitialOf(r) = StaffInitial(r)
    BY <1>2, InitialRows
  <2>2. CASE \E u \in Employees : r = Employee(u)
    <3>1. PICK u \in Employees : r = Employee(u)
      BY <2>2
    <3>2. r[1] = "employee" /\ r[2] = u
      BY <3>1 DEF Employee
    <3>3. StaffInitial(r) = Home[u] /\ Home[u] \in Sites
      BY <3>2, StaffAssumption DEF StaffInitial
    <3> QED BY <2>1, <3>1, <3>3, RowTypes
  <2>3. CASE \E x \in Records : r = Record(x)
    <3>1. PICK x \in Records : r = Record(x)
      BY <2>3
    <3>2. r[1] = "record"
      BY <3>1 DEF Record
    <3>3. StaffInitial(r) = NoRecord
      BY <3>2 DEF StaffInitial
    <3>4. TypeOf(Record(x)) = Attendances
      BY RowTypes
    <3> QED BY <2>1, <3>1, <3>3, <3>4 DEF Attendances
  <2>4. CASE \E n \in Runs : r = Run(n)
    <3>1. PICK n \in Runs : r = Run(n)
      BY <2>4
    <3>2. r[1] = "run"
      BY <3>1 DEF Run
    <3>3. StaffInitial(r) = NoRun
      BY <3>2 DEF StaffInitial
    <3>4. TypeOf(Run(n)) = Payrolls
      BY RowTypes
    <3> QED BY <2>1, <3>1, <3>3, <3>4 DEF Payrolls
  <2>5. CASE \E l \in Leaves : r = Leave(l)
    <3>1. PICK l \in Leaves : r = Leave(l)
      BY <2>5
    <3>2. r[1] = "leave"
      BY <3>1 DEF Leave
    <3>3. StaffInitial(r) = "PENDING"
      BY <3>2 DEF StaffInitial
    <3> QED BY <2>1, <3>1, <3>3, RowTypes
  <2> QED BY <1>2, <2>2, <2>3, <2>4, <2>5 DEF StaffRows
<1> QED BY <1>1, <1>2

LEMMA LedgerTypesInit ==
  ASSUME NEW r \in LoyaltyRows \union JournalRows PROVE InitialOf(r) \in TypeOf(r)
<1>1. CASE r \in LoyaltyRows
  <2>1. InitialOf(r) = LoyaltyInitial(r)
    BY <1>1, InitialRows
  <2>2. CASE \E m \in Members : r = Spend(m)
    <3>1. PICK m \in Members : r = Spend(m)
      BY <2>2
    <3>2. r[1] = "spend"
      BY <3>1 DEF Spend
    <3>3. LoyaltyInitial(r) = 0
      BY <3>2 DEF LoyaltyInitial
    <3> QED BY <2>1, <3>1, <3>3, RowTypes
  <2>3. CASE \E m \in Members : r = Member(m)
    <3>1. PICK m \in Members : r = Member(m)
      BY <2>3
    <3>2. r[1] = "member"
      BY <3>1 DEF Member
    <3>3. LoyaltyInitial(r) = [tier |-> "REGULAR", hidden |-> FALSE]
      BY <3>2 DEF LoyaltyInitial, NewMember
    <3>4. LoyaltyInitial(r) \in [tier : DOMAIN TierFrom, hidden : BOOLEAN]
      BY <3>3, LoyaltyAssumption
    <3>5. TypeOf(Member(m)) = [tier : DOMAIN TierFrom, hidden : BOOLEAN]
      BY RowTypes
    <3> QED BY <2>1, <3>1, <3>4, <3>5
  <2> QED BY <1>1, <2>2, <2>3 DEF LoyaltyRows
<1>2. CASE r \in JournalRows
  <2>1. InitialOf(r) = JournalInitial(r)
    <3>1. /\ r \notin StockCountRows /\ r \notin ProductionRows /\ r \notin ReorderRows
          /\ r \notin SettlementRows /\ r \notin StaffRows /\ r \notin LoyaltyRows
      BY <1>2, RowKinds
    <3> QED BY <1>2, <3>1 DEF InitialOf
  <2>2. CASE r = Rate
    BY <2>1, <2>2, RowTypes, JournalAssumption DEF JournalInitial
  <2>3. CASE r # Rate
    <3>1. PICK p \in Papers : r = Paper(p)
      BY <1>2, <2>3 DEF JournalRows
    <3>2. JournalInitial(r) = [st |-> "none", tax |-> 0]
      BY <2>3 DEF JournalInitial, Unwritten
    <3>3. JournalInitial(r) \in [st : PaperStatuses, tax : Nat]
      BY <3>2 DEF PaperStatuses
    <3>4. TypeOf(Paper(p)) = [st : PaperStatuses, tax : Nat]
      BY RowTypes
    <3> QED BY <2>1, <3>1, <3>3, <3>4
  <2> QED BY <2>2, <2>3
<1> QED BY <1>1, <1>2

LEMMA TypesInit == ASSUME Init PROVE BackTypes
<1>1. RowShape /\ RequestShape
  BY StartShape
<1>2. \A r \in Rows : InitialOf(r) \in TypeOf(r)
  BY RowsAssumption, StockTypesInit, OfficeTypesInit, LedgerTypesInit DEF AllRows
<1>3. \A r \in Rows : db[r] = InitialOf(r) /\ committed[r] = InitialOf(r) /\ lock[r] = NoTxn
  BY DEF Init, ServiceInit, Initial
<1>4. RowsTyped
  BY <1>1, <1>2, <1>3 DEF RowsTyped
<1>5. \A t \in Txns : tx[t] = Idle /\ t # NoTxn
  BY RequestsAssumption DEF Init, ServiceInit
<1>6. ReadFits(Idle.op, Idle.pc, Idle.row, Idle.read) /\ Homely(Idle.out)
  BY DEF ReadFits, Homely, Idle
<1>7. RequestsTyped
  BY <1>1, <1>3, <1>5, <1>6 DEF RequestsTyped
<1>8. LogTyped
  BY DEF Init, ServiceInit, LogTyped, Homely
<1>9. desk \in Departments /\ begun = 0 /\ raced = {}
  BY DEF Init, ServiceInit
<1>10. BoundsTyped
  BY <1>9, RequestsAssumption DEF BoundsTyped
<1> QED BY <1>4, <1>7, <1>8, <1>10 DEF BackTypes

\* Rows of their types are what each department says.
LEMMA RowsEnough ==
  ASSUME BackInv, NEW v, \A r \in Rows : v[r] \in TypeOf(r)
  PROVE  /\ StockCountTypeOK(v) /\ ReorderTypeOK(v) /\ SettlementTypeOK(v)
         /\ StaffTypeOK(v) /\ LoyaltyTypeOK(v) /\ JournalTypeOK(v)
<1>0. BackTypes
  BY DEF BackInv
<1>1. StockCountTypeOK(v)
  <2>1. \A i \in Ingredients : TypeOf(Shelf(i)) \subseteq Nat
    BY RowTypes, StockCountsAssumption
  <2>2. \A c \in Counts : TypeOf(Count(c)) = CountStatuses
    BY RowTypes
  <2>3. \A c \in Counts, i \in Ingredients :
          TypeOf(Line(c, i)) = [counted : Counted \union {Null}, expected : Nat \union {Null}]
    BY RowTypes
  <2>4. \A i \in Ingredients : v[Shelf(i)] \in Nat
    BY <2>1, CountRowsApart
  <2>5. \A c \in Counts : v[Count(c)] \in CountStatuses
    BY <2>2, CountRowsApart
  <2>6. \A c \in Counts, i \in Ingredients :
          v[Line(c, i)] \in [counted : Counted \union {Null}, expected : Nat \union {Null}]
    BY <2>3, CountRowsApart
  <2> QED BY <2>4, <2>5, <2>6 DEF StockCountTypeOK
<1>2. ReorderTypeOK(v)
  <2>1. \A i \in Supplies : v[Supply(i)] \in Nat
    BY RowTypes, SupplyRow
  <2>2. \A p \in POs : v[PO(p)] \in POStatuses
    BY RowTypes, PORow
  <2>3. \A p \in POs, i \in Supplies : TypeOf(Item(p, i)) = BOOLEAN
    BY RowTypes
  <2>4. \A p \in POs, i \in Supplies : v[Item(p, i)] \in BOOLEAN
    BY <2>3, ReorderRowsApart
  <2> QED BY <2>1, <2>2, <2>4 DEF ReorderTypeOK
<1>3. SettlementTypeOK(v)
  <2>1. v[Till] \in Int
    BY RowTypes, TillRow
  <2>2. \A s \in SettlementIds : v[Settlement(s)] \in Figures
    BY RowTypes, SettlementRowsApart
  <2> QED BY <2>1, <2>2 DEF SettlementTypeOK, Figures
<1>4. StaffTypeOK(v)
  <2>1. \A u \in Employees : v[Employee(u)] \in Sites
    BY <1>0, StaffValues
  <2>2. \A r \in Records : v[Record(r)] \in Attendances
    BY <1>0, StaffValues
  <2>3. \A n \in Runs : v[Run(n)] \in Payrolls
    BY <1>0, StaffValues
  <2>4. \A l \in Leaves : v[Leave(l)] \in {"PENDING", "APPROVED", "REJECTED"}
    BY <1>0, StaffValues
  <2> QED BY <2>1, <2>2, <2>3, <2>4 DEF StaffTypeOK, Attendances, Payrolls
<1>5. LoyaltyTypeOK(v)
  <2>1. \A m \in Members : v[Spend(m)] \in Nat
    BY <1>0, LoyaltyValues
  <2>2. \A m \in Members : v[Member(m)] \in [tier : DOMAIN TierFrom, hidden : BOOLEAN]
    BY <1>0, LoyaltyValues
  <2> QED BY <2>1, <2>2 DEF LoyaltyTypeOK
<1>6. JournalTypeOK(v)
  <2>1. v[Rate] \in Rates
    BY RateRow, RowTypes
  <2>2. ASSUME NEW p \in Papers PROVE v[Paper(p)] \in [st : PaperStatuses, tax : Nat]
    <3>1. TypeOf(Paper(p)) = [st : PaperStatuses, tax : Nat]
      BY RowTypes
    <3> QED BY <3>1, JournalRowsApart
  <2>3. ASSUME NEW e \in JournalEntries
        PROVE  \A l \in e.lines : l.account \in Accounts /\ l.amount \in Int
    <3>1. desk = "journal"
      BY DEF BackInv, BackTypes, LogTyped, Homely, JournalEntries
    <3> QED BY <3>1, EntryBalances DEF BackInv, JournalInv
  <2> QED BY <2>1, <2>2, <2>3 DEF JournalTypeOK
<1> QED BY <1>1, <1>2, <1>3, <1>4, <1>5, <1>6

LEMMA BackEnough == ASSUME BackInv PROVE TypeOK
<1>1. BackTypes
  BY DEF BackInv
<1>2. \A t \in Txns : tx[t].op = "none" => \A r \in Rows : lock[r] # t
  BY <1>1 DEF BackTypes, RequestsTyped, Holder
<1>3. DOMAIN db = Rows /\ DOMAIN committed = Rows /\ FreeRowsCommitted
  BY <1>1 DEF BackTypes, RowsTyped, RowShape, FreeRowsCommitted
<1>4. ServiceTypeOK
  BY <1>1, <1>2, <1>3 DEF ServiceTypeOK, BackTypes, LogTyped, BoundsTyped
<1>5. (\A r \in Rows : db[r] \in TypeOf(r)) /\ (\A r \in Rows : committed[r] \in TypeOf(r))
  BY <1>1 DEF BackTypes, RowsTyped
<1> QED BY <1>4, <1>5, RowsEnough DEF TypeOK

\* Whatever the services do side by side, for every number of rows and requests: each
\* row of each department keeps its type, in the version a transaction is writing
\* and in the committed one; a free row has no other version; a request that has ended,
\* or works outside a transaction, holds no row; the lines of every posted entry are on
\* accounts of the chart.
THEOREM TypeCorrect == Spec => []TypeOK
<1>1. Init => BackInv
  BY TypesInit, MadeInitInv, CountInitInv, ReorderInitInv, SettleInitInv, StaffInitInv, TierInitInv,
     JournalInitInv DEF BackInv
<1>2. BackInv /\ [Next]_serviceVars => BackInv'
  BY BackNext
<1>3. BackInv => TypeOK
  BY BackEnough
<1> QED BY <1>1, <1>2, <1>3, PTL DEF Spec

-------------------------------------------------------------------------------
(* The books follow the shelves.                                           *)

\* What a request has put on a shelf, or taken from it, and not committed.
Change(t, i) == IF lock[Shelf(i)] = t THEN db[Shelf(i)] - committed[Shelf(i)] ELSE 0

\* What it should have, after what it has read and told so far.
UsedUp(x, i) == IF i \in RawOf(x.row[2]) \ x.read.left THEN 0 - Needed(x.row[2], i) ELSE 0
Gained(x, i) == IF x.pc \in {"set", "commit"} /\ i = Target[x.row[2]] THEN Size[x.row[2]] ELSE 0
Applied(x, i) == IF Adjustment(x.row[2], i, Variance(x.read.lines[i])) \in x.out
                   THEN Variance(x.read.lines[i]) ELSE 0
Due(x, i) ==
  CASE x.op = "adjust" /\ x.pc = "commit" -> IF x.row = Shelf(i) THEN x.read.delta ELSE 0
    [] x.op = "approve" -> Applied(x, i)
    [] x.op = "complete" -> UsedUp(x, i) + Gained(x, i)
    [] OTHER -> 0

\* What a completion tells.
Completion(j) == {Made(j)} \union
  IF RawCost(j) > 0 THEN {Event(<<"PROD", j>>, FinishedValue(j) - RawCost(j))} ELSE {}

\* A request on the shelves, when n requests have begun: an adjustment has a number
\* of its own; a completion takes the raw material first.
Adjusting(x, n) ==
  /\ x.read.id \in 0 .. n - 1
  /\ x.pc = "commit" => x.out = Posted(<<"ADJ", x.read.id>>, Cost[x.row[2]] * x.read.delta)
Completing(x) ==
  /\ x.read.left \subseteq RawOf(x.row[2])
  /\ x.pc # "raw" => x.read.left = {}
  /\ x.pc = "commit" => x.out = Completion(x.row[2])
Working(x, n) == /\ x.op = "adjust" => Adjusting(x, n)
                 /\ x.op = "complete" => Completing(x)

\* Where an event came from: nobody will tell it again.
FromSale(e) == \E n \in 0 .. begun - 1 : e.key = <<"SALE", n>>
FromAdjustment(e) == \E n \in 0 .. begun - 1 :
  e.key = <<"ADJ", n>> /\ \A t \in Txns : tx[t].op = "adjust" => tx[t].read.id # n
FromCount(e) == \E c \in Counts : e.key = <<"STOCKCOUNT", c>> /\ committed[Count(c)] = "APPROVED"
FromJob(e) == \E j \in Jobs : e.key = <<"PROD", j>> /\ Entries("made", j) # {}
Known(e) == FromSale(e) \/ FromAdjustment(e) \/ FromCount(e) \/ FromJob(e)

EventsKnown == IsFiniteSet(EventsTold) /\ \A e \in EventsTold : e.amount \in Int /\ Known(e)
OwnNumbers == \A t, u \in Txns : tx[t].op = "adjust" /\ tx[u].op = "adjust" /\ t # u =>
                tx[t].read.id # tx[u].read.id
WorkRight == \A t \in Txns : Working(tx[t], begun) /\ \A i \in Ingredients : Change(t, i) = Due(tx[t], i)

ShelfBooks == desk = "stockroom" => EventsKnown /\ OwnNumbers /\ WorkRight /\ BooksFollowShelves

LEMMA DueIs ==
  ASSUME NEW x, NEW i
  PROVE  /\ x.op = "adjust" =>
              Due(x, i) = IF x.pc = "commit" /\ x.row = Shelf(i) THEN x.read.delta ELSE 0
         /\ x.op = "approve" => Due(x, i) = Applied(x, i)
         /\ x.op = "complete" => Due(x, i) = UsedUp(x, i) + Gained(x, i)
         /\ x.op \notin {"adjust", "approve", "complete"} => Due(x, i) = 0
BY DEF Due

\* What the invariants say of the shelves.
LEMMA ShelvesAre ==
  ASSUME BackInv, desk = "stockroom"
  PROVE  /\ \A i \in Ingredients :
              /\ Shelf(i) \in Rows /\ db[Shelf(i)] \in Nat /\ committed[Shelf(i)] \in Nat
              /\ lock[Shelf(i)] = NoTxn => db[Shelf(i)] = committed[Shelf(i)]
              /\ lock[Shelf(i)] \in Txns \union {NoTxn}
         /\ RowShape /\ RequestShape /\ CountTypes /\ JobTypes /\ begun \in Nat
         /\ \A t \in Txns : t # NoTxn
<1>1. BackTypes /\ CountTypes /\ JobTypes
  BY DEF BackInv, CountInv, MadeInv
<1>2. RowShape /\ RequestShape /\ \A r \in Rows : lock[r] = NoTxn => db[r] = committed[r]
  BY <1>1 DEF BackTypes, RowsTyped, RequestsTyped
<1>3. begun \in Nat
  <2>1. desk \in Departments /\ begun \in 0 .. MaxBegun[desk] /\ MaxBegun[desk] \in Nat
    BY <1>1, RequestsAssumption DEF BackTypes, BoundsTyped
  <2> QED BY <2>1
<1>4. ASSUME NEW i \in Ingredients
      PROVE  /\ Shelf(i) \in Rows /\ db[Shelf(i)] \in Nat /\ committed[Shelf(i)] \in Nat
             /\ lock[Shelf(i)] = NoTxn => db[Shelf(i)] = committed[Shelf(i)]
             /\ lock[Shelf(i)] \in Txns \union {NoTxn}
  <2>1. Shelf(i) \in Rows
    BY CountRowsApart
  <2>2. db[Shelf(i)] \in Nat /\ committed[Shelf(i)] \in Nat
    BY <1>1, StockroomValues
  <2>3. lock[Shelf(i)] \in Txns \union {NoTxn}
    BY <1>2, <2>1 DEF RowShape
  <2> QED BY <1>2, <2>1, <2>2, <2>3
<1>5. \A t \in Txns : t # NoTxn
  BY RequestsAssumption
<1> QED BY <1>1, <1>2, <1>3, <1>4, <1>5

\* A number of its own, kept or just taken.
NumberKept(t) == tx'[t].op = "adjust" =>
  \/ tx[t].op = "adjust" /\ tx'[t].read.id = tx[t].read.id
  \/ tx'[t].read.id = begun /\ begun' = begun + 1
AllNumbered == begun' \in {begun, begun + 1} /\ \A u \in Txns : NumberKept(u)
ApprovedStay == \A c \in Counts :
  committed[Count(c)] = "APPROVED" => committed'[Count(c)] = "APPROVED"

LEMMA KnownStays ==
  ASSUME begun \in Nat, AllNumbered, ApprovedStay, DOMAIN log \subseteq DOMAIN log',
         NEW e, Known(e)
  PROVE  Known(e)'
<1>0. begun' \in {begun, begun + 1} /\ \A u \in Txns : NumberKept(u)
  BY DEF AllNumbered
<1>1. CASE FromSale(e)
  <2>1. PICK n \in 0 .. begun - 1 : e.key = <<"SALE", n>>
    BY <1>1 DEF FromSale
  <2>2. n \in 0 .. begun' - 1
    <3>1. begun' = begun \/ begun' = begun + 1
      BY <1>0
    <3>2. n \in 0 .. begun - 1
      BY <2>1
    <3> QED BY <3>1, <3>2
  <2> QED BY <2>1, <2>2 DEF FromSale, Known
<1>2. CASE FromAdjustment(e)
  <2>1. PICK n \in 0 .. begun - 1 :
          e.key = <<"ADJ", n>> /\ \A t \in Txns : tx[t].op = "adjust" => tx[t].read.id # n
    BY <1>2 DEF FromAdjustment
  <2>2. n \in 0 .. begun' - 1 /\ n # begun
    <3>1. begun' = begun \/ begun' = begun + 1
      BY <1>0
    <3>2. n \in 0 .. begun - 1
      BY <2>1
    <3> QED BY <3>1, <3>2
  <2>3. \A t \in Txns : tx'[t].op = "adjust" => tx'[t].read.id # n
    BY <1>0, <2>1, <2>2 DEF NumberKept
  <2>4. FromAdjustment(e)'
    BY <2>1, <2>2, <2>3 DEF FromAdjustment
  <2> QED BY <2>4 DEF Known
<1>3. CASE FromCount(e)
  BY <1>3 DEF FromCount, Known, ApprovedStay
<1>4. CASE FromJob(e)
  BY <1>4 DEF FromJob, Known, Entries
<1> QED BY <1>1, <1>2, <1>3, <1>4 DEF Known

LEMMA NumbersStay ==
  ASSUME begun \in Nat, OwnNumbers, WorkRight, AllNumbered, NEW t, OthersWait(t)
  PROVE  OwnNumbers'
<1>1. \A u \in Txns : tx[u].op = "adjust" => tx[u].read.id \in 0 .. begun - 1
  BY DEF WorkRight, Working, Adjusting
<1>2. ASSUME NEW u \in Txns, NEW v \in Txns, tx'[u].op = "adjust", tx'[v].op = "adjust", u # v
      PROVE  tx'[u].read.id # tx'[v].read.id
  <2>1. \A w \in Txns : w # t => tx'[w] = tx[w]
    BY DEF OthersWait
  <2>2. NumberKept(u) /\ NumberKept(v)
    BY DEF AllNumbered
  <2>3. CASE u # t /\ v # t
    BY <1>2, <2>1, <2>3 DEF OwnNumbers
  <2>4. CASE u = t
    <3>1. tx'[v] = tx[v] /\ tx[v].read.id \in 0 .. begun - 1 /\ tx[v].op = "adjust"
      BY <1>1, <1>2, <2>1, <2>4
    <3>2. CASE tx[u].op = "adjust" /\ tx'[u].read.id = tx[u].read.id
      BY <1>2, <3>1, <3>2 DEF OwnNumbers
    <3>3. CASE tx'[u].read.id = begun
      BY <3>1, <3>3
    <3> QED BY <1>2, <2>2, <3>2, <3>3 DEF NumberKept
  <2>5. CASE v = t
    <3>1. tx'[u] = tx[u] /\ tx[u].read.id \in 0 .. begun - 1 /\ tx[u].op = "adjust"
      BY <1>1, <1>2, <2>1, <2>5
    <3>2. CASE tx[v].op = "adjust" /\ tx'[v].read.id = tx[v].read.id
      BY <1>2, <3>1, <3>2 DEF OwnNumbers
    <3>3. CASE tx'[v].read.id = begun
      BY <3>1, <3>3
    <3> QED BY <1>2, <2>2, <3>2, <3>3 DEF NumberKept
  <2> QED BY <2>3, <2>4, <2>5
<1> QED BY <1>2 DEF OwnNumbers

\* One request works, if any; what the others have put on the shelves stays.
OthersKeep(t) == \A u \in Txns \ {t} : \A i \in Ingredients : Change(u, i)' = Change(u, i)
Right(t) == Working(tx'[t], begun') /\ \A i \in Ingredients : Change(t, i)' = Due(tx'[t], i)

LEMMA WorkMoves ==
  ASSUME begun \in Nat, begun' \in {begun, begun + 1}, WorkRight, NEW t, OthersWait(t), OthersKeep(t),
         t \in Txns => Right(t)
  PROVE  WorkRight'
<1>1. ASSUME NEW u \in Txns, u # t
      PROVE  Working(tx'[u], begun') /\ \A i \in Ingredients : Change(u, i)' = Due(tx'[u], i)
  <2>1. tx'[u] = tx[u] /\ Working(tx[u], begun)
    BY <1>1 DEF OthersWait, WorkRight
  <2>2. Working(tx[u], begun')
    BY <2>1 DEF Working, Adjusting
  <2>3. \A i \in Ingredients : Change(u, i)' = Change(u, i) /\ Change(u, i) = Due(tx[u], i)
    BY <1>1 DEF OthersKeep, WorkRight
  <2> QED BY <2>1, <2>2, <2>3
<1>2. \A u \in Txns : Working(tx'[u], begun') /\ \A i \in Ingredients : Change(u, i)' = Due(tx'[u], i)
  BY <1>1 DEF Right
<1> QED BY <1>2 DEF WorkRight

\* A step that tells nothing and commits nothing of the shelves.
Calm == /\ \A i \in Ingredients : committed'[Shelf(i)] = committed[Shelf(i)]
        /\ ApprovedStay /\ log' = log /\ raced \subseteq raced' /\ AllNumbered

LEMMA CalmKeeps ==
  ASSUME BackInv, desk = "stockroom", ShelfBooks, Calm, NEW t, OthersWait(t), OthersKeep(t),
         t \in Txns => Right(t)
  PROVE  ShelfBooks'
<1>1. begun \in Nat /\ EventsKnown /\ OwnNumbers /\ WorkRight /\ BooksFollowShelves
  BY ShelvesAre DEF ShelfBooks
<1>2. begun' \in {begun, begun + 1} /\ AllNumbered /\ ApprovedStay /\ log' = log
  BY DEF Calm, AllNumbered
<1>3. WorkRight' /\ OwnNumbers'
  BY <1>1, <1>2, WorkMoves, NumbersStay
<1>4. EventsTold' = EventsTold
  BY <1>2 DEF EventsTold
<1>5. EventsKnown'
  <2>1. \A e \in EventsTold : e.amount \in Int /\ Known(e)'
    BY <1>1, <1>2, KnownStays DEF EventsKnown
  <2> QED BY <1>1, <1>4, <2>1 DEF EventsKnown
<1>6. ShelvesValue' = ShelvesValue
  <2>1. [i \in Ingredients |-> Cost[i] * (committed'[Shelf(i)] - Opening[i])] =
          [i \in Ingredients |-> Cost[i] * (committed[Shelf(i)] - Opening[i])]
    BY DEF Calm
  <2> QED BY <2>1 DEF ShelvesValue
<1>7. BookValue' = BookValue
  BY <1>4 DEF BookValue
<1>8. BooksFollowShelves'
  BY <1>1, <1>6, <1>7 DEF BooksFollowShelves, Calm
<1> QED BY <1>3, <1>5, <1>8 DEF ShelfBooks

ShelvesStill == \A i \in Ingredients :
  db'[Shelf(i)] = db[Shelf(i)] /\ lock'[Shelf(i)] = lock[Shelf(i)]
Goes(t) == Working(tx'[t], begun') /\ \A i \in Ingredients : Due(tx'[t], i) = Due(tx[t], i)

\* A step away from the shelves.
LEMMA StillKeeps ==
  ASSUME BackInv, desk = "stockroom", ShelfBooks, Calm, ShelvesStill, NEW t, OthersWait(t),
         t \in Txns => Goes(t)
  PROVE  ShelfBooks'
<1>1. \A u : \A i \in Ingredients : Change(u, i)' = Change(u, i)
  BY DEF ShelvesStill, Calm, Change
<1>2. OthersKeep(t)
  BY <1>1 DEF OthersKeep
<1>3. t \in Txns => Right(t)
  BY <1>1 DEF Goes, Right, ShelfBooks, WorkRight
<1> QED BY <1>2, <1>3, CalmKeeps

\* A step is calm when its own request keeps its number.
LEMMA CalmIs ==
  ASSUME begun' \in {begun, begun + 1}, NEW t, OthersWait(t), t \in Txns => NumberKept(t),
         \A i \in Ingredients : committed'[Shelf(i)] = committed[Shelf(i)],
         ApprovedStay, log' = log, raced \subseteq raced'
  PROVE  Calm
<1>1. ASSUME NEW u \in Txns PROVE NumberKept(u)
  <2>1. CASE u = t
    BY <2>1
  <2>2. CASE u # t
    BY <2>2 DEF OthersWait, NumberKept
  <2> QED BY <2>1, <2>2
<1> QED BY <1>1 DEF Calm, AllNumbered

LEMMA IdleIs ==
  ASSUME NEW t, tx'[t] = Idle
  PROVE  /\ NumberKept(t) /\ \A n : Working(tx'[t], n)
         /\ \A i : Due(tx'[t], i) = 0
<1>1. tx'[t].op = "none"
  BY DEF Idle
<1>2. \A i : Due(tx'[t], i) = 0
  BY <1>1, DueIs
<1> QED BY <1>1, <1>2 DEF NumberKept, Working

\* What a request that gives up has put on the shelves is gone.
LEMMA UndoKeeps ==
  ASSUME BackInv, desk = "stockroom", ShelfBooks, NEW t \in Txns, UndoWrites(t), Finish(t),
         log' = log, raced \subseteq raced'
  PROVE  ShelfBooks'
<1>1. RowShape /\ RequestShape /\ t # NoTxn /\ \A i \in Ingredients : Shelf(i) \in Rows
  BY ShelvesAre
<1>2. tx'[t] = Idle /\ OthersWait(t) /\ begun' = begun
  BY <1>1, FinishDoes DEF Finish
<1>3. /\ committed' = committed
      /\ \A r \in Rows : lock[r] = t => lock'[r] = NoTxn
      /\ \A r \in Rows : lock[r] # t => db'[r] = db[r] /\ lock'[r] = lock[r]
  BY <1>1, UndoDoes
<1>4. Calm
  <2>1. NumberKept(t)
    BY <1>2, IdleIs
  <2>2. ApprovedStay
    BY <1>3 DEF ApprovedStay
  <2> QED BY <1>2, <1>3, <2>1, <2>2, CalmIs
<1>5. ASSUME NEW u \in Txns \ {t}, NEW i \in Ingredients PROVE Change(u, i)' = Change(u, i)
  <2>1. lock'[Shelf(i)] = u <=> lock[Shelf(i)] = u
    BY <1>1, <1>3, <1>5, ShelvesAre
  <2>2. lock[Shelf(i)] = u => db'[Shelf(i)] = db[Shelf(i)]
    BY <1>1, <1>3, <1>5
  <2> QED BY <1>3, <2>1, <2>2 DEF Change
<1>6. ASSUME NEW i \in Ingredients PROVE Change(t, i)' = 0
  <2>1. lock'[Shelf(i)] # t
    BY <1>1, <1>3
  <2> QED BY <2>1 DEF Change
<1>7. Right(t)
  BY <1>2, <1>6, IdleIs DEF Right
<1>8. OthersKeep(t)
  BY <1>5 DEF OthersKeep
<1> QED BY <1>2, <1>4, <1>7, <1>8, CalmKeeps

\* A single statement away from the shelves.
LEMMA SingleKeeps ==
  ASSUME BackInv, desk = "stockroom", ShelfBooks, Single, NEW row \in Rows, NEW v, Put(row, v),
         \A i \in Ingredients : row # Shelf(i),
         \A c \in Counts : row = Count(c) => committed[row] # "APPROVED",
         UNCHANGED <<log, raced>>
  PROVE  ShelfBooks'
<1>1. /\ RowShape /\ RequestShape /\ begun \in Nat /\ \A i \in Ingredients : Shelf(i) \in Rows
      /\ \A t \in Txns : t # NoTxn
  BY ShelvesAre
<1>2. /\ lock' = lock
      /\ \A r \in Rows \ {row} : db'[r] = db[r] /\ committed'[r] = committed[r]
  BY <1>1, PutDoes
<1>3. tx' = tx /\ begun' = begun + 1
  BY DEF Single, OneMore
<1>4. OthersWait(NoTxn)
  BY <1>3 DEF OthersWait
<1>5. NoTxn \notin Txns
  BY RequestsAssumption
<1>6. ApprovedStay
  BY <1>2, CountRowsApart DEF ApprovedStay
<1>7. ShelvesStill /\ \A i \in Ingredients : committed'[Shelf(i)] = committed[Shelf(i)]
  BY <1>1, <1>2 DEF ShelvesStill
<1>8. Calm
  BY <1>3, <1>4, <1>5, <1>6, <1>7, CalmIs
<1> QED BY <1>4, <1>5, <1>7, <1>8, StillKeeps

LEMMA SinglesKeep ==
  ASSUME BackInv, desk = "stockroom", ShelfBooks,
         CreateStockCount \/ Cancel \/ CreateProductionOrder
  PROVE  ShelfBooks'
<1>1. CASE CreateStockCount
  <2>1. PICK c \in Counts : /\ Single /\ Put(Count(c), "DRAFT") /\ UNCHANGED <<log, raced>>
                            /\ committed[Count(c)] = "none"
    BY <1>1 DEF CreateStockCount
  <2>2. Count(c) \in Rows /\ \A i \in Ingredients : Count(c) # Shelf(i)
    BY CountRowsApart
  <2> QED BY <2>1, <2>2, SingleKeeps
<1>2. CASE Cancel
  <2>1. PICK c \in Counts : /\ Single /\ Put(Count(c), "CANCELLED") /\ UNCHANGED <<log, raced>>
                            /\ committed[Count(c)] \in Open
    BY <1>2 DEF Cancel
  <2>2. Count(c) \in Rows /\ \A i \in Ingredients : Count(c) # Shelf(i)
    BY CountRowsApart
  <2>3. committed[Count(c)] # "APPROVED"
    BY <2>1 DEF Open
  <2> QED BY <2>1, <2>2, <2>3, SingleKeeps
<1>3. CASE CreateProductionOrder
  <2>1. PICK j \in Jobs : Single /\ Put(Job(j), "PLANNED") /\ UNCHANGED <<log, raced>>
    BY <1>3 DEF CreateProductionOrder
  <2>2. /\ Job(j) \in Rows /\ \A i \in Ingredients : Job(j) # Shelf(i)
        /\ \A c \in Counts : Job(j) # Count(c)
    BY JobRowsApart
  <2> QED BY <2>1, <2>2, SingleKeeps
<1> QED BY <1>1, <1>2, <1>3

\* A request that begins has nothing to show on the shelves.
Starts(op, pc, row, read) ==
  \/ op \in {"lines", "submit", "move", "approve"}
  \/ op = "adjust" /\ pc = "apply" /\ read.id = begun
  \/ op = "complete" /\ pc = "raw" /\ read.left = RawOf(row[2])

LEMMA BeginKeeps ==
  ASSUME BackInv, desk = "stockroom", ShelfBooks, NEW t \in Txns, NEW op, NEW pc, NEW row, NEW read,
         NEW stale, BeginBeside(t, op, pc, row, read, stale), Starts(op, pc, row, read)
  PROVE  ShelfBooks'
<1>1. RequestShape /\ begun \in Nat
  BY ShelvesAre
<1>2. /\ tx[t].op = "none"
      /\ tx'[t].op = op /\ tx'[t].pc = pc /\ tx'[t].row = row /\ tx'[t].read = read
      /\ tx'[t].out = {} /\ OthersWait(t)
  BY <1>1, BeginDoes
<1>3. begun' = begun + 1 /\ UNCHANGED <<db, committed, lock, log>> /\ raced \subseteq raced'
  BY DEF BeginBeside, OneMore
<1>4. NumberKept(t)
  BY <1>2, <1>3 DEF NumberKept, Starts
<1>5. ApprovedStay
  BY <1>3 DEF ApprovedStay
<1>6. Calm
  BY <1>2, <1>3, <1>4, <1>5, CalmIs
<1>7. Working(tx'[t], begun')
  <2>1. op = "adjust" => read.id \in 0 .. begun' - 1 /\ pc # "commit"
    BY <1>1, <1>3 DEF Starts
  <2>2. op = "complete" => pc = "raw" /\ read.left \subseteq RawOf(row[2])
    BY DEF Starts
  <2> QED BY <1>2, <2>1, <2>2 DEF Working, Adjusting, Completing
<1>8. ASSUME NEW i \in Ingredients PROVE Due(tx'[t], i) = Due(tx[t], i)
  <2>1. Due(tx[t], i) = 0
    BY <1>2, DueIs
  <2>2. CASE op = "adjust"
    <3>1. pc # "commit"
      BY <2>2 DEF Starts
    <3> QED BY <1>2, <2>1, <2>2, <3>1, DueIs
  <2>3. CASE op = "approve"
    <3>1. Applied(tx'[t], i) = 0
      BY <1>2 DEF Applied
    <3> QED BY <1>2, <2>1, <2>3, <3>1, DueIs
  <2>4. CASE op = "complete"
    <3>1. pc = "raw" /\ read.left = RawOf(row[2])
      BY <2>4 DEF Starts
    <3>2. UsedUp(tx'[t], i) = 0 /\ Gained(tx'[t], i) = 0
      BY <1>2, <3>1 DEF UsedUp, Gained
    <3> QED BY <1>2, <2>1, <2>4, <3>2, DueIs
  <2>5. CASE op \notin {"adjust", "approve", "complete"}
    BY <1>2, <2>1, <2>5, DueIs
  <2> QED BY <2>2, <2>3, <2>4, <2>5
<1>9. Goes(t)
  BY <1>7, <1>8 DEF Goes
<1>10. ShelvesStill
  BY <1>3 DEF ShelvesStill
<1> QED BY <1>2, <1>6, <1>9, <1>10, StillKeeps

LEMMA BeginningsKeep ==
  ASSUME BackInv, desk = "stockroom", ShelfBooks, NEW t \in Txns,
         UpdateLines(t) \/ Submit(t) \/ Approve(t) \/ Adjust(t) \/ MoveJob(t) \/ Complete(t)
  PROVE  ShelfBooks'
<1>1. CASE UpdateLines(t)
  <2>1. PICK row, read : Begin(t, "lines", "write", row, read)
    BY <1>1 DEF UpdateLines
  <2> QED BY <2>1, BeginKeeps DEF Begin, Starts
<1>2. CASE Submit(t)
  <2>1. PICK row, read, stale : BeginBeside(t, "submit", "balances", row, read, stale)
    BY <1>2 DEF Submit
  <2> QED BY <2>1, BeginKeeps DEF Starts
<1>3. CASE Approve(t)
  <2>1. PICK row, read : Begin(t, "approve", "claim", row, read)
    BY <1>3 DEF Approve
  <2> QED BY <2>1, BeginKeeps DEF Begin, Starts
<1>4. CASE Adjust(t)
  <2>1. PICK i \in Ingredients, delta \in Deltas :
          Begin(t, "adjust", "apply", Shelf(i), [delta |-> delta, id |-> begun])
    BY <1>4 DEF Adjust
  <2>2. PICK read : read = [delta |-> delta, id |-> begun]
    OBVIOUS
  <2>3. read.id = begun
    BY <2>2
  <2>4. Starts("adjust", "apply", Shelf(i), read)
    BY <2>3 DEF Starts
  <2> QED BY <2>1, <2>2, <2>4, BeginKeeps DEF Begin
<1>5. CASE MoveJob(t)
  <2>1. PICK row, read : Begin(t, "move", "set", row, read)
    BY <1>5 DEF MoveJob
  <2> QED BY <2>1, BeginKeeps DEF Begin, Starts
<1>6. CASE Complete(t)
  <2>1. PICK j \in Jobs :
          Begin(t, "complete", "raw", Job(j), [st |-> committed[Job(j)], left |-> RawOf(j)])
    BY <1>6 DEF Complete
  <2>2. PICK read : read = [st |-> committed[Job(j)], left |-> RawOf(j)]
    OBVIOUS
  <2>3. read.left = RawOf(Job(j)[2])
    BY <2>2, JobRowsApart
  <2>4. Starts("complete", "raw", Job(j), read)
    BY <2>3 DEF Starts
  <2> QED BY <2>1, <2>2, <2>4, BeginKeeps DEF Begin
<1> QED BY <1>1, <1>2, <1>3, <1>4, <1>5, <1>6

\* A statement of a request that goes on, away from the shelves.
LEMMA AsideKeeps ==
  ASSUME BackInv, desk = "stockroom", ShelfBooks, NEW t \in Txns, ShelvesStill,
         NEW pc, NEW read, NEW out, Continue(t, pc, read, out), raced \subseteq raced',
         tx[t].op # "adjust", Goes(t)
  PROVE  ShelfBooks'
<1>1. RequestShape /\ begun \in Nat
  BY ShelvesAre
<1>2. tx'[t].op = tx[t].op /\ OthersWait(t)
  BY <1>1, ContinueDoes
<1>3. begun' = begun /\ committed' = committed /\ log' = log
  BY DEF Continue
<1>4. NumberKept(t)
  BY <1>2 DEF NumberKept
<1>5. ApprovedStay
  BY <1>3 DEF ApprovedStay
<1>6. Calm
  BY <1>2, <1>3, <1>4, <1>5, CalmIs
<1> QED BY <1>2, <1>6, StillKeeps

\* A write to another row than a shelf.
LEMMA WriteStill ==
  ASSUME RowShape, NEW t \in Txns, NEW row \in Rows, NEW v, Write(t, row, v), UNCHANGED committed,
         \A i \in Ingredients : row # Shelf(i)
  PROVE  ShelvesStill
<1>1. \A r \in Rows \ {row} : db'[r] = db[r] /\ lock'[r] = lock[r]
  BY WriteDoes
<1>2. \A i \in Ingredients : Shelf(i) \in Rows \ {row}
  BY CountRowsApart
<1> QED BY <1>1, <1>2 DEF ShelvesStill

LEMMA CountingKeepsBooks ==
  ASSUME BackInv, desk = "stockroom", ShelfBooks, NEW t \in Txns,
         WriteLine(t) \/ ReadBalances(t) \/ Expect(t) \/ ClaimDraft(t) \/ ClaimSubmitted(t)
  PROVE  ShelfBooks'
<1>1. CountRequest(t) /\ RowShape /\ RequestShape
  BY ShelvesAre DEF CountTypes
<1>2. PICK c \in Counts : tx[t].row = Count(c) /\ (LinesRequest(t) \/ SubmitRequest(t) \/ ApproveRequest(t, c))
  BY <1>1 DEF WriteLine, ReadBalances, Expect, ClaimDraft, ClaimSubmitted, Doing, CountRequest
<1>3. /\ tx[t].row[2] = c /\ Count(c) \in Rows
      /\ \A i \in Ingredients : Count(c) # Shelf(i)
      /\ \A k \in Ingredients : Line(c, k) \in Rows /\ \A i \in Ingredients : Line(c, k) # Shelf(i)
  BY <1>2, CountRowsApart
<1>4. ASSUME NEW pc, NEW read, NEW out, Continue(t, pc, read, out), tx[t].op \in {"lines", "submit"}
      PROVE  Goes(t)
  <2>1. tx'[t].op = tx[t].op
    BY <1>1, <1>4, ContinueDoes
  <2>2. \A i : Due(tx[t], i) = 0 /\ Due(tx'[t], i) = 0
    BY <1>4, <2>1, DueIs
  <2> QED BY <1>4, <2>1, <2>2 DEF Goes, Working
<1>5. ASSUME Throw(t) PROVE ShelfBooks'
  BY <1>5, UndoKeeps DEF Throw
<1>6. CASE WriteLine(t)
  <2>1. tx[t].op = "lines" /\ tx[t].read.item \in Ingredients
    BY <1>2, <1>6 DEF WriteLine, Doing, LinesRequest, SubmitRequest, ApproveRequest
  <2>2. PICK line : line = Line(c, tx[t].read.item)
    OBVIOUS
  <2>3. PICK v : v = [db[line] EXCEPT !.counted = tx[t].read.qty]
    OBVIOUS
  <2>4. /\ Write(t, line, v) /\ Continue(t, "commit", tx[t].read, tx[t].out)
        /\ raced \subseteq raced' /\ committed' = committed
    BY <1>2, <1>3, <1>6, <2>2, <2>3 DEF WriteLine, GoTo, Continue
  <2>5. ShelvesStill
    BY <1>1, <1>3, <2>1, <2>2, <2>4, WriteStill
  <2>6. Goes(t)
    BY <1>4, <2>1, <2>4
  <2> QED BY <2>1, <2>4, <2>5, <2>6, AsideKeeps
<1>7. CASE ReadBalances(t)
  <2>1. PICK read : Continue(t, "expect", read, {})
    BY <1>7 DEF ReadBalances
  <2>2. tx[t].op = "submit" /\ UNCHANGED <<db, lock, raced>>
    BY <1>7 DEF ReadBalances, Doing
  <2>3. ShelvesStill
    BY <2>2 DEF ShelvesStill
  <2>4. Goes(t)
    BY <1>4, <2>1, <2>2
  <2> QED BY <2>1, <2>2, <2>3, <2>4, AsideKeeps
<1>8. CASE Expect(t)
  <2>1. tx[t].op = "submit" /\ SubmitRequest(t)
    BY <1>2, <1>8 DEF Expect, Doing, LinesRequest, ApproveRequest
  <2>2. PICK i \in tx[t].read.left, pc \in {"claim", "expect"} : \E read :
          /\ Write(t, Line(c, i), [db[Line(c, i)] EXCEPT !.expected = tx[t].read.stock[i]])
          /\ Continue(t, pc, read, {})
          /\ UNCHANGED raced
    BY <1>3, <1>8 DEF Expect
  <2>3. PICK read : Continue(t, pc, read, {})
    BY <2>2
  <2>4. i \in Ingredients /\ committed' = committed
    BY <2>1, <2>2, <2>3 DEF SubmitRequest, Continue
  <2>5. PICK v : v = [db[Line(c, i)] EXCEPT !.expected = tx[t].read.stock[i]]
    OBVIOUS
  <2>6. ShelvesStill
    BY <1>1, <1>3, <2>2, <2>4, <2>5, WriteStill
  <2>7. Goes(t)
    BY <1>4, <2>1, <2>3
  <2> QED BY <2>1, <2>2, <2>3, <2>6, <2>7, AsideKeeps
<1>9. CASE ClaimDraft(t)
  <2>1. tx[t].op = "submit"
    BY <1>9 DEF ClaimDraft, Doing
  <2>2. \/ Throw(t)
        \/ /\ Write(t, Count(c), "SUBMITTED") /\ Continue(t, "commit", tx[t].read, tx[t].out)
           /\ UNCHANGED raced
    BY <1>2, <1>9 DEF ClaimDraft, GoTo
  <2>3. ASSUME Write(t, Count(c), "SUBMITTED"), Continue(t, "commit", tx[t].read, tx[t].out),
               UNCHANGED raced
        PROVE  ShelfBooks'
    <3>1. ShelvesStill
      BY <1>1, <1>3, <2>3, WriteStill DEF Continue
    <3>2. Goes(t)
      BY <1>4, <2>1, <2>3
    <3> QED BY <2>1, <2>3, <3>1, <3>2, AsideKeeps
  <2> QED BY <1>5, <2>2, <2>3
<1>10. CASE ClaimSubmitted(t)
  <2>1. tx[t].op = "approve"
    BY <1>10 DEF ClaimSubmitted, Doing
  <2>2. \/ Throw(t)
        \/ \E pc \in {"commit", "apply"} :
             /\ Write(t, Count(c), "APPROVED") /\ Continue(t, pc, tx[t].read, tx[t].out)
             /\ UNCHANGED raced
    BY <1>2, <1>10 DEF ClaimSubmitted, GoTo
  <2>3. ASSUME NEW pc, Write(t, Count(c), "APPROVED"), Continue(t, pc, tx[t].read, tx[t].out),
               UNCHANGED raced
        PROVE  ShelfBooks'
    <3>1. ShelvesStill
      BY <1>1, <1>3, <2>3, WriteStill DEF Continue
    <3>2. /\ tx'[t].op = "approve" /\ tx'[t].row = tx[t].row /\ tx'[t].read = tx[t].read
          /\ tx'[t].out = tx[t].out
      BY <1>1, <2>1, <2>3, ContinueDoes
    <3>3. \A i : Applied(tx'[t], i) = Applied(tx[t], i)
      BY <3>2 DEF Applied
    <3>4. \A i : Due(tx'[t], i) = Due(tx[t], i)
      BY <2>1, <3>2, <3>3, DueIs
    <3>5. Goes(t)
      BY <3>2, <3>4 DEF Goes, Working
    <3> QED BY <2>1, <2>3, <3>1, <3>5, AsideKeeps
  <2> QED BY <1>5, <2>2, <2>3
<1> QED BY <1>6, <1>7, <1>8, <1>9, <1>10

LEMMA JobSetsKeep ==
  ASSUME BackInv, desk = "stockroom", ShelfBooks, NEW t \in Txns, SetJob(t) \/ SetCompleted(t)
  PROVE  ShelfBooks'
<1>1. JobRequest(t) /\ RowShape /\ RequestShape /\ begun \in Nat
  BY ShelvesAre DEF JobTypes
<1>2. PICK j \in Jobs : tx[t].row = Job(j)
  BY <1>1 DEF SetJob, SetCompleted, Doing, JobRequest
<1>3. /\ Job(j) \in Rows /\ Job(j)[2] = j /\ \A i \in Ingredients : Job(j) # Shelf(i)
      /\ \A c \in Counts : Count(c) \in Rows \ {Job(j)}
      /\ \A i \in Ingredients : Shelf(i) \in Rows \ {Job(j)}
  BY JobRowsApart, CountRowsApart
<1>4. CASE SetJob(t)
  <2>1. /\ tx[t].op = "move" /\ Put(Job(j), tx[t].read.to) /\ Finish(t) /\ log' = log
        /\ raced \subseteq raced'
    BY <1>2, <1>4 DEF SetJob, Doing, Races
  <2>2. /\ lock' = lock
        /\ \A r \in Rows \ {Job(j)} : db'[r] = db[r] /\ committed'[r] = committed[r]
    BY <1>1, <1>3, <2>1, PutDoes
  <2>3. tx'[t] = Idle /\ OthersWait(t) /\ begun' = begun
    BY <1>1, <2>1, FinishDoes DEF Finish
  <2>4. ApprovedStay
    BY <1>3, <2>2 DEF ApprovedStay
  <2>5. NumberKept(t) /\ Working(tx'[t], begun') /\ \A i : Due(tx'[t], i) = 0
    BY <2>3, IdleIs
  <2>6. \A i \in Ingredients : committed'[Shelf(i)] = committed[Shelf(i)]
    BY <1>3, <2>2
  <2>7. Calm
    BY <2>1, <2>3, <2>4, <2>5, <2>6, CalmIs
  <2>8. ShelvesStill
    BY <1>3, <2>2 DEF ShelvesStill
  <2>9. Goes(t)
    <3>1. \A i : Due(tx[t], i) = 0
      BY <2>1, DueIs
    <3> QED BY <2>5, <3>1 DEF Goes
  <2> QED BY <2>3, <2>7, <2>8, <2>9, StillKeeps
<1>5. CASE SetCompleted(t)
  <2>1. Completion(j) = {[kind |-> "made", key |-> j, amount |-> Size[j]]} \union
          (IF RawCost(j) > 0 THEN {Event(<<"PROD", j>>, FinishedValue(j) - RawCost(j))} ELSE {})
    BY DEF Completion, Made
  <2>2. /\ tx[t].op = "complete" /\ tx[t].pc = "set" /\ Write(t, Job(j), "COMPLETED")
        /\ raced \subseteq raced'
        /\ Continue(t, "commit", tx[t].read, Completion(j))
    BY <1>2, <1>3, <1>5, <2>1 DEF SetCompleted, Doing, Races
  <2>3. /\ tx'[t].op = "complete" /\ tx'[t].row = tx[t].row /\ tx'[t].read = tx[t].read
        /\ tx'[t].out = Completion(j) /\ tx'[t].pc = "commit"
    BY <1>1, <2>2, ContinueDoes
  <2>4. ShelvesStill
    BY <1>1, <1>3, <2>2, WriteStill DEF Continue
  <2>5. Completing(tx[t])
    BY <2>2 DEF ShelfBooks, WorkRight, Working
  <2>6. Completing(tx'[t])
    BY <1>2, <1>3, <2>2, <2>3, <2>5 DEF Completing
  <2>7. \A i : UsedUp(tx'[t], i) = UsedUp(tx[t], i) /\ Gained(tx'[t], i) = Gained(tx[t], i)
    BY <2>2, <2>3 DEF UsedUp, Gained
  <2>8. \A i : Due(tx'[t], i) = Due(tx[t], i)
    BY <2>2, <2>3, <2>7, DueIs
  <2>9. Goes(t)
    BY <2>3, <2>6, <2>8 DEF Goes, Working
  <2> QED BY <2>2, <2>4, <2>9, AsideKeeps
<1> QED BY <1>4, <1>5

-------------------------------------------------------------------------------
(* The steps on the shelves.                                               *)

\* More is due on one shelf.
DueMore(t, i, delta) ==
  \A k \in Ingredients : Due(tx'[t], k) = Due(tx[t], k) + (IF k = i THEN delta ELSE 0)

\* A request changes one shelf, and as much is due.
LEMMA ShelveKeepsBooks ==
  ASSUME BackInv, desk = "stockroom", ShelfBooks, NEW t \in Txns, NEW i \in Ingredients,
         NEW delta \in Int, Shelve(t, i, delta), UNCHANGED raced,
         NEW pc, NEW read, NEW out, Continue(t, pc, read, out),
         NumberKept(t), Working(tx'[t], begun), DueMore(t, i, delta)
  PROVE  ShelfBooks'
<1>1. RowShape /\ RequestShape /\ begun \in Nat /\ \A u \in Txns : u # NoTxn
  BY ShelvesAre
<1>2. /\ \A k \in Ingredients : Shelf(k) \in Rows
      /\ \A k \in Ingredients : Shelf(k) = Shelf(i) => k = i
  BY CountRowsApart
<1>3. /\ db[Shelf(i)] \in Nat /\ committed[Shelf(i)] \in Nat
      /\ lock[Shelf(i)] = NoTxn => db[Shelf(i)] = committed[Shelf(i)]
      /\ lock[Shelf(i)] \in {t, NoTxn}
  BY ShelvesAre DEF Shelve, MayWrite
<1>4. committed' = committed /\ log' = log /\ begun' = begun /\ OthersWait(t)
  BY <1>1, ContinueDoes DEF Continue
<1>5. PICK v : v = db[Shelf(i)] + delta
  OBVIOUS
<1>6. Write(t, Shelf(i), v)
  BY <1>5 DEF Shelve
<1>7. /\ lock'[Shelf(i)] = t /\ db'[Shelf(i)] = v
      /\ \A r \in Rows \ {Shelf(i)} : db'[r] = db[r] /\ lock'[r] = lock[r]
  BY <1>1, <1>2, <1>4, <1>6, WriteDoes
<1>8. ASSUME NEW u \in Txns \ {t}, NEW k \in Ingredients PROVE Change(u, k)' = Change(u, k)
  <2>1. CASE k = i
    <3>1. lock[Shelf(k)] # u /\ lock'[Shelf(k)] # u
      BY <1>1, <1>3, <1>7, <1>8, <2>1
    <3> QED BY <3>1 DEF Change
  <2>2. CASE k # i
    <3>1. Shelf(k) \in Rows \ {Shelf(i)}
      BY <1>2, <2>2
    <3> QED BY <1>4, <1>7, <3>1 DEF Change
  <2> QED BY <2>1, <2>2
<1>9. ASSUME NEW k \in Ingredients PROVE Change(t, k)' = Due(tx'[t], k)
  <2>1. Change(t, k) = Due(tx[t], k)
    BY DEF ShelfBooks, WorkRight
  <2>2. Change(t, k)' = Change(t, k) + (IF k = i THEN delta ELSE 0)
    <3>1. CASE k = i
      <4>1. Change(t, k) = db[Shelf(i)] - committed[Shelf(i)]
        BY <1>3, <3>1 DEF Change
      <4>2. Change(t, k)' = v - committed[Shelf(i)]
        <5>1. lock'[Shelf(k)] = t /\ db'[Shelf(k)] = v /\ committed'[Shelf(k)] = committed[Shelf(i)]
          BY <1>4, <1>7, <3>1
        <5> QED BY <5>1 DEF Change
      <4> QED BY <1>3, <1>5, <3>1, <4>1, <4>2
    <3>2. CASE k # i
      <4>1. Shelf(k) \in Rows \ {Shelf(i)}
        BY <1>2, <3>2
      <4>2. Change(t, k)' = Change(t, k)
        BY <1>4, <1>7, <4>1 DEF Change
      <4>3. Change(t, k) \in Int
        BY ShelvesAre DEF Change
      <4> QED BY <3>2, <4>2, <4>3
    <3> QED BY <3>1, <3>2
  <2> QED BY <2>1, <2>2 DEF DueMore
<1>10. Right(t)
  BY <1>4, <1>9 DEF Right
<1>11. OthersKeep(t)
  BY <1>8 DEF OthersKeep
<1>12. ApprovedStay
  BY <1>4 DEF ApprovedStay
<1>13. Calm
  BY <1>4, <1>12, CalmIs
<1> QED BY <1>4, <1>10, <1>11, <1>13, CalmKeeps

LEMMA ApplyVarianceBooks ==
  ASSUME BackInv, desk = "stockroom", ShelfBooks, NEW t \in Txns, ApplyVariance(t)
  PROVE  ShelfBooks'
<1>1. CountRequest(t) /\ RequestShape
  BY ShelvesAre DEF CountTypes
<1>2. tx[t].op = "approve" /\ \A k \in Ingredients : IsLine(tx[t].read.lines[k])
  BY <1>1 DEF ApplyVariance, Doing, CountRequest, LinesRequest, SubmitRequest, ApproveRequest
<1>3. PICK c : c = tx[t].row[2]
  OBVIOUS
<1>4. PICK i \in Differing(t) :
        /\ Adjustment(c, i, Variance(tx[t].read.lines[i])) \notin tx[t].out
        /\ \/ Throw(t)
           \/ /\ Shelve(t, i, Variance(tx[t].read.lines[i])) /\ UNCHANGED raced
              /\ \E pc \in {"apply", "commit"} : \E net :
                   \E out \in {tx[t].out \union {Adjustment(c, i, Variance(tx[t].read.lines[i]))},
                               tx[t].out \union {Adjustment(c, i, Variance(tx[t].read.lines[i]))}
                                 \union Posted(<<"STOCKCOUNT", c>>, net)} :
                     Continue(t, pc, tx[t].read, out)
  BY <1>3 DEF ApplyVariance
<1>5. i \in Ingredients
  BY DEF Differing
<1>6. PICK delta : delta = Variance(tx[t].read.lines[i])
  OBVIOUS
<1>7. delta \in Int /\ \A k \in Ingredients : Variance(tx[t].read.lines[k]) \in Int
  BY <1>2, <1>5, <1>6, VarianceInt
<1>8. ASSUME NEW pc, NEW more, \A e \in more : e.kind = "event",
             NEW out, out = tx[t].out \union {Adjustment(c, i, delta)} \union more,
             Shelve(t, i, delta), UNCHANGED raced, Continue(t, pc, tx[t].read, out)
      PROVE  ShelfBooks'
  <2>1. /\ tx'[t].op = "approve" /\ tx'[t].row = tx[t].row /\ tx'[t].read = tx[t].read
        /\ tx'[t].out = out
    BY <1>1, <1>2, <1>8, ContinueDoes
  <2>2. ASSUME NEW k \in Ingredients
        PROVE  Applied(tx'[t], k) = Applied(tx[t], k) + (IF k = i THEN delta ELSE 0)
    <3>1. CASE k = i
      <4>1. Applied(tx[t], k) = 0
        BY <1>3, <1>4, <3>1 DEF Applied
      <4>2. Applied(tx'[t], k) = delta
        BY <1>3, <1>6, <1>8, <2>1, <3>1 DEF Applied
      <4> QED BY <1>7, <3>1, <4>1, <4>2
    <3>2. CASE k # i
      <4>1. PICK a : a = Adjustment(c, k, Variance(tx[t].read.lines[k]))
        OBVIOUS
      <4>2. a.kind = "adjust" /\ a.key = <<c, k>> /\ Adjustment(c, i, delta).key = <<c, i>>
        BY <4>1 DEF Adjustment
      <4>3. a \in out <=> a \in tx[t].out
        BY <1>8, <3>2, <4>2
      <4>4. Applied(tx'[t], k) = Applied(tx[t], k)
        BY <1>3, <2>1, <4>1, <4>3 DEF Applied
      <4>5. Applied(tx[t], k) \in Int
        BY <1>7 DEF Applied
      <4> QED BY <3>2, <4>4, <4>5
    <3> QED BY <3>1, <3>2
  <2>3. DueMore(t, i, delta)
    BY <1>2, <2>1, <2>2, DueIs DEF DueMore
  <2>4. NumberKept(t) /\ Working(tx'[t], begun)
    BY <2>1 DEF NumberKept, Working
  <2> QED BY <1>5, <1>7, <1>8, <2>3, <2>4, ShelveKeepsBooks
<1>9. \A net : \A e \in Posted(<<"STOCKCOUNT", c>>, net) : e.kind = "event"
  BY DEF Posted, Event
<1>10. CASE Throw(t)
  BY <1>10, UndoKeeps DEF Throw
<1>11. ASSUME NEW pc, NEW net, NEW out,
              \/ out = tx[t].out \union {Adjustment(c, i, delta)}
              \/ out = tx[t].out \union {Adjustment(c, i, delta)} \union Posted(<<"STOCKCOUNT", c>>, net),
              Shelve(t, i, delta), UNCHANGED raced, Continue(t, pc, tx[t].read, out)
       PROVE  ShelfBooks'
  <2>1. CASE out = tx[t].out \union {Adjustment(c, i, delta)}
    <3>1. out = tx[t].out \union {Adjustment(c, i, delta)} \union {}
      BY <2>1
    <3>2. \A e \in {} : e.kind = "event"
      OBVIOUS
    <3> QED BY <1>8, <1>11, <3>1, <3>2
  <2>2. CASE out = tx[t].out \union {Adjustment(c, i, delta)} \union Posted(<<"STOCKCOUNT", c>>, net)
    BY <1>8, <1>9, <1>11, <2>2
  <2> QED BY <1>11, <2>1, <2>2
<1>12. Throw(t) \/ /\ Shelve(t, i, delta) /\ UNCHANGED raced
                   /\ \E pc, net, out :
                        /\ Continue(t, pc, tx[t].read, out)
                        /\ \/ out = tx[t].out \union {Adjustment(c, i, delta)}
                           \/ out = tx[t].out \union {Adjustment(c, i, delta)}
                                      \union Posted(<<"STOCKCOUNT", c>>, net)
  BY <1>4, <1>6
<1> QED BY <1>10, <1>11, <1>12

LEMMA ApplyDeltaBooks ==
  ASSUME BackInv, desk = "stockroom", ShelfBooks, NEW t \in Txns, ApplyDelta(t)
  PROVE  ShelfBooks'
<1>1. CountRequest(t) /\ RequestShape
  BY ShelvesAre DEF CountTypes
<1>2. PICK i : i = tx[t].row[2]
  OBVIOUS
<1>3. /\ tx[t].op = "adjust" /\ tx[t].pc = "apply" /\ tx[t].read.delta \in Int
      /\ i \in Ingredients /\ tx[t].row = Shelf(i)
  BY <1>1, <1>2, CountRowsApart DEF ApplyDelta, Doing, CountRequest,
     LinesRequest, SubmitRequest, ApproveRequest
<1>4. PICK out : out = Posted(<<"ADJ", tx[t].read.id>>, Cost[i] * tx[t].read.delta)
  OBVIOUS
<1>5. \/ Throw(t)
      \/ /\ Shelve(t, i, tx[t].read.delta) /\ UNCHANGED raced
         /\ Continue(t, "commit", tx[t].read, out)
  BY <1>2, <1>4 DEF ApplyDelta
<1>6. CASE Throw(t)
  BY <1>6, UndoKeeps DEF Throw
<1>7. ASSUME Shelve(t, i, tx[t].read.delta), UNCHANGED raced, Continue(t, "commit", tx[t].read, out)
      PROVE  ShelfBooks'
  <2>1. /\ tx'[t].op = "adjust" /\ tx'[t].row = tx[t].row /\ tx'[t].read = tx[t].read
        /\ tx'[t].out = out /\ tx'[t].pc = "commit"
    BY <1>1, <1>3, <1>7, ContinueDoes
  <2>2. NumberKept(t)
    BY <1>3, <2>1 DEF NumberKept
  <2>3. Adjusting(tx[t], begun)
    BY <1>3 DEF ShelfBooks, WorkRight, Working
  <2>4. Adjusting(tx'[t], begun)
    BY <1>2, <1>4, <2>1, <2>3 DEF Adjusting
  <2>5. Working(tx'[t], begun)
    BY <2>1, <2>4 DEF Working
  <2>6. ASSUME NEW k \in Ingredients
        PROVE  Due(tx'[t], k) = Due(tx[t], k) + (IF k = i THEN tx[t].read.delta ELSE 0)
    <3>1. Due(tx[t], k) = 0
      BY <1>3, DueIs
    <3>2. Due(tx'[t], k) = IF tx[t].row = Shelf(k) THEN tx[t].read.delta ELSE 0
      BY <2>1, DueIs
    <3>3. tx[t].row = Shelf(k) <=> k = i
      BY <1>3, CountRowsApart
    <3> QED BY <1>3, <3>1, <3>2, <3>3
  <2>7. DueMore(t, i, tx[t].read.delta)
    BY <2>6 DEF DueMore
  <2> QED BY <1>3, <1>7, <2>2, <2>5, <2>7, ShelveKeepsBooks
<1> QED BY <1>5, <1>6, <1>7

LEMMA TakeRawBooks ==
  ASSUME BackInv, desk = "stockroom", ShelfBooks, NEW t \in Txns, TakeRaw(t)
  PROVE  ShelfBooks'
<1>1. JobRequest(t) /\ RequestShape
  BY ShelvesAre DEF JobTypes
<1>2. tx[t].op = "complete" /\ tx[t].pc = "raw"
  BY DEF TakeRaw, Doing
<1>3. PICK j \in Jobs : tx[t].row = Job(j)
  BY <1>1, <1>2 DEF JobRequest
<1>4. tx[t].row[2] = j
  BY <1>3, JobRowsApart
<1>5. Completing(tx[t])
  BY <1>2 DEF ShelfBooks, WorkRight, Working
<1>6. tx[t].read.left \subseteq RawOf(j) /\ RawOf(j) \subseteq Ingredients
  BY <1>4, <1>5 DEF Completing, RawOf
<1>7. tx[t].read = [st |-> tx[t].read.st, left |-> tx[t].read.left]
  BY <1>1, <1>2 DEF JobRequest
<1>8. PICK i \in tx[t].read.left :
        \/ Throw(t)
        \/ /\ Shelve(t, i, 0 - Needed(j, i)) /\ UNCHANGED raced
           /\ Continue(t, IF tx[t].read.left \ {i} = {} THEN "goods" ELSE "raw",
                       [tx[t].read EXCEPT !.left = tx[t].read.left \ {i}], {})
  BY <1>4 DEF TakeRaw
<1>9. PICK left : left = tx[t].read.left \ {i}
  OBVIOUS
<1>10. PICK read : read = [tx[t].read EXCEPT !.left = left]
  OBVIOUS
<1>11. PICK pc : pc = IF left = {} THEN "goods" ELSE "raw"
  OBVIOUS
<1>12. i \in RawOf(j) /\ i \in Ingredients /\ Needed(j, i) \in Nat
  BY <1>6, NeededNat
<1>13. read.left = left
  BY <1>7, <1>10
<1>14. CASE Throw(t)
  BY <1>14, UndoKeeps DEF Throw
<1>15. ASSUME Shelve(t, i, 0 - Needed(j, i)), UNCHANGED raced, Continue(t, pc, read, {})
       PROVE  ShelfBooks'
  <2>1. /\ tx'[t].op = "complete" /\ tx'[t].row = tx[t].row /\ tx'[t].read = read
        /\ tx'[t].out = {} /\ tx'[t].pc = pc
    BY <1>1, <1>2, <1>15, ContinueDoes
  <2>2. NumberKept(t)
    BY <2>1 DEF NumberKept
  <2>3. pc \in {"goods", "raw"} /\ (pc # "raw" => left = {})
    BY <1>11
  <2>4. left \subseteq RawOf(j)
    BY <1>6, <1>9
  <2>5. Working(tx'[t], begun)
    BY <1>4, <1>13, <2>1, <2>3, <2>4 DEF Working, Completing
  <2>6. ASSUME NEW k \in Ingredients
        PROVE  Due(tx'[t], k) = Due(tx[t], k) + (IF k = i THEN 0 - Needed(j, i) ELSE 0)
    <3>1. Gained(tx[t], k) = 0 /\ Gained(tx'[t], k) = 0
      BY <1>2, <2>1, <2>3 DEF Gained
    <3>2. Due(tx[t], k) = UsedUp(tx[t], k) + 0 /\ Due(tx'[t], k) = UsedUp(tx'[t], k) + 0
      BY <1>2, <2>1, <3>1, DueIs
    <3>3. Needed(j, k) \in Nat
      BY NeededNat
    <3>4. UsedUp(tx[t], k) = IF k \in RawOf(j) \ tx[t].read.left THEN 0 - Needed(j, k) ELSE 0
      BY <1>4 DEF UsedUp
    <3>5. UsedUp(tx'[t], k) = IF k \in RawOf(j) \ left THEN 0 - Needed(j, k) ELSE 0
      BY <1>4, <1>13, <2>1 DEF UsedUp
    <3>6. CASE k = i
      <4>1. UsedUp(tx[t], k) = 0 /\ UsedUp(tx'[t], k) = 0 - Needed(j, i)
        BY <1>8, <1>9, <1>12, <3>4, <3>5, <3>6
      <4> QED BY <1>12, <3>2, <3>6, <4>1
    <3>7. CASE k # i
      <4>1. k \in RawOf(j) \ tx[t].read.left <=> k \in RawOf(j) \ left
        BY <1>9, <3>7
      <4>2. UsedUp(tx'[t], k) = UsedUp(tx[t], k) /\ UsedUp(tx[t], k) \in Int
        BY <3>3, <3>4, <3>5, <4>1
      <4> QED BY <3>2, <3>7, <4>2
    <3> QED BY <3>6, <3>7
  <2>7. DueMore(t, i, 0 - Needed(j, i))
    BY <2>6 DEF DueMore
  <2>8. 0 - Needed(j, i) \in Int
    BY <1>12
  <2> QED BY <1>12, <1>15, <2>2, <2>5, <2>7, <2>8, ShelveKeepsBooks
<1> QED BY <1>8, <1>9, <1>10, <1>11, <1>14, <1>15

LEMMA AddFinishedBooks ==
  ASSUME BackInv, desk = "stockroom", ShelfBooks, NEW t \in Txns, AddFinished(t)
  PROVE  ShelfBooks'
<1>1. JobRequest(t) /\ RequestShape
  BY ShelvesAre DEF JobTypes
<1>2. tx[t].op = "complete" /\ tx[t].pc = "goods"
  BY DEF AddFinished, Doing
<1>3. PICK j \in Jobs : tx[t].row = Job(j)
  BY <1>1, <1>2 DEF JobRequest
<1>4. tx[t].row[2] = j
  BY <1>3, JobRowsApart
<1>5. PICK i : i = Target[j]
  OBVIOUS
<1>6. Size[j] \in Nat /\ i \in Ingredients
  BY <1>5, ProductionAssumption
<1>7. Shelve(t, i, Size[j]) /\ UNCHANGED raced /\ Continue(t, "set", tx[t].read, tx[t].out)
  BY <1>4, <1>5 DEF AddFinished, GoTo
<1>8. /\ tx'[t].op = "complete" /\ tx'[t].row = tx[t].row /\ tx'[t].read = tx[t].read
      /\ tx'[t].pc = "set"
  BY <1>1, <1>2, <1>7, ContinueDoes
<1>9. Completing(tx[t])
  BY <1>2 DEF ShelfBooks, WorkRight, Working
<1>10. Completing(tx'[t])
  BY <1>2, <1>8, <1>9 DEF Completing
<1>11. NumberKept(t) /\ Working(tx'[t], begun)
  BY <1>8, <1>10 DEF NumberKept, Working
<1>12. ASSUME NEW k \in Ingredients
       PROVE  Due(tx'[t], k) = Due(tx[t], k) + (IF k = i THEN Size[j] ELSE 0)
  <2>1. Gained(tx[t], k) = 0
    BY <1>2 DEF Gained
  <2>2. Gained(tx'[t], k) = IF k = i THEN Size[j] ELSE 0
    BY <1>4, <1>5, <1>8 DEF Gained
  <2>3. UsedUp(tx'[t], k) = UsedUp(tx[t], k)
    BY <1>8 DEF UsedUp
  <2>4. UsedUp(tx[t], k) \in Int
    BY <1>4, NeededNat DEF UsedUp
  <2>5. Due(tx[t], k) = UsedUp(tx[t], k) + Gained(tx[t], k)
        /\ Due(tx'[t], k) = UsedUp(tx'[t], k) + Gained(tx'[t], k)
    BY <1>2, <1>8, DueIs
  <2> QED BY <1>6, <2>1, <2>2, <2>3, <2>4, <2>5
<1>13. DueMore(t, i, Size[j])
  BY <1>12 DEF DueMore
<1> QED BY <1>6, <1>7, <1>11, <1>13, ShelveKeepsBooks

-------------------------------------------------------------------------------
(* What comes onto the shelves is what is told.                            *)

Worth(d) == SumFunctionOnSet([i \in Ingredients |-> Cost[i] * d[i]], Ingredients)
Gives(t) == [i \in Ingredients |-> Due(tx[t], i)]
ToldBy(t) == {e \in tx[t].out : e.kind = "event"}

\* A sum with one term.
LEMMA SumAtOne ==
  ASSUME NEW S, IsFiniteSet(S), NEW y \in S, NEW g, g[y] \in Int, \A x \in S : x # y => g[x] = 0
  PROVE  SumFunctionOnSet(g, S) = g[y]
<1>1. PICK none : none = [x \in S |-> 0]
  OBVIOUS
<1>2. SumFunctionOnSet(none, S) = 0
  BY <1>1, SumZero
<1>3. \A x \in S : none[x] = 0 /\ none[x] \in Int /\ g[x] \in Int
  BY <1>1
<1>4. SumFunctionOnSet(g, S) = SumFunctionOnSet(none, S) + (g[y] - none[y])
  BY <1>3, SumChange
<1> QED BY <1>2, <1>3, <1>4

LEMMA CostTimes ==
  ASSUME NEW i \in Ingredients, NEW a \in Int, NEW b \in Int
  PROVE  /\ Cost[i] \in Nat /\ Cost[i] * a \in Int
         /\ Cost[i] * (a + b) = Cost[i] * a + Cost[i] * b
<1>1. Cost[i] \in Nat
  BY StockCountsAssumption
<1>2. PICK n \in Nat : n = Cost[i]
  BY <1>1
<1>3. n * a \in Int /\ n * (a + b) = n * a + n * b
  OBVIOUS
<1> QED BY <1>1, <1>2, <1>3

LEMMA WorthInt ==
  ASSUME NEW d, \A i \in Ingredients : d[i] \in Int
  PROVE  Worth(d) \in Int
<1>1. IsFiniteSet(Ingredients)
  BY StockCountsAssumption
<1>2. PICK g : g = [i \in Ingredients |-> Cost[i] * d[i]]
  OBVIOUS
<1>3. \A i \in Ingredients : g[i] \in Int
  BY <1>2, CostTimes
<1> QED BY <1>1, <1>2, <1>3, SumInt DEF Worth

\* What one shelf gains is worth its cost.
LEMMA WorthOfOne ==
  ASSUME NEW d, NEW y \in Ingredients, d[y] \in Int, \A i \in Ingredients : i # y => d[i] = 0
  PROVE  Worth(d) = Cost[y] * d[y]
<1>1. IsFiniteSet(Ingredients)
  BY StockCountsAssumption
<1>2. PICK g : g = [i \in Ingredients |-> Cost[i] * d[i]]
  OBVIOUS
<1>3. g[y] \in Int
  BY <1>2, CostTimes
<1>4. ASSUME NEW i \in Ingredients, i # y PROVE g[i] = 0
  <2>1. Cost[i] \in Nat
    BY StockCountsAssumption
  <2>2. g[i] = Cost[i] * d[i] /\ d[i] = 0
    BY <1>2, <1>4
  <2> QED BY <2>1, <2>2
<1> QED BY <1>1, <1>2, <1>3, <1>4, SumAtOne DEF Worth

LEMMA ValueMoves ==
  ASSUME NEW d, \A i \in Ingredients : committed[Shelf(i)] \in Int /\ d[i] \in Int,
         \A i \in Ingredients : committed'[Shelf(i)] = committed[Shelf(i)] + d[i]
  PROVE  ShelvesValue' = ShelvesValue + Worth(d)
<1>1. IsFiniteSet(Ingredients)
  BY StockCountsAssumption
<1>2. PICK old : old = [i \in Ingredients |-> Cost[i] * (committed[Shelf(i)] - Opening[i])]
  OBVIOUS
<1>3. PICK new : new = [i \in Ingredients |-> Cost[i] * (committed'[Shelf(i)] - Opening[i])]
  OBVIOUS
<1>4. PICK g : g = [i \in Ingredients |-> Cost[i] * d[i]]
  OBVIOUS
<1>5. ASSUME NEW i \in Ingredients
      PROVE  old[i] \in Int /\ g[i] \in Int /\ new[i] = old[i] + g[i]
  <2>1. PICK a \in Int : a = committed[Shelf(i)] - Opening[i]
    BY StockCountsAssumption
  <2>2. committed'[Shelf(i)] - Opening[i] = a + d[i]
    BY <2>1, StockCountsAssumption
  <2>3. old[i] = Cost[i] * a /\ g[i] = Cost[i] * d[i] /\ new[i] = Cost[i] * (a + d[i])
    BY <1>2, <1>3, <1>4, <2>1, <2>2
  <2>4. PICK b \in Int : b = d[i]
    OBVIOUS
  <2>5. Cost[i] * a \in Int /\ Cost[i] * b \in Int /\ Cost[i] * (a + b) = Cost[i] * a + Cost[i] * b
    BY CostTimes
  <2> QED BY <2>3, <2>4, <2>5
<1>6. SumFunctionOnSet(new, Ingredients) =
        SumFunctionOnSet(old, Ingredients) + SumFunctionOnSet(g, Ingredients)
  BY <1>1, <1>5, SumPlus
<1> QED BY <1>2, <1>3, <1>4, <1>6 DEF ShelvesValue, Worth

\* The events E are told, each once, and are worth the amount.
Unraced == \A j \in Jobs : Job(j) \notin raced
AccountsFor(E, amount) ==
  /\ EventsTold' = EventsTold \union E /\ IsFiniteSet(E)
  /\ \A e \in E : e.amount \in Int /\ Known(e)'
  /\ Unraced => \/ E = {} /\ amount = 0
                \/ \E e : E = {e} /\ e \notin EventsTold /\ e.amount = amount

LEMMA BookMoves ==
  ASSUME EventsKnown, NEW E, NEW amount \in Int, AccountsFor(E, amount), Unraced
  PROVE  BookValue' = BookValue + amount
<1>1. /\ IsFiniteSet(EventsTold) /\ EventsTold' = EventsTold \union E
      /\ \A e \in EventsTold \union E : e.amount \in Int
  BY DEF EventsKnown, AccountsFor
<1>2. PICK old : old = [e \in EventsTold |-> e.amount]
  OBVIOUS
<1>3. PICK new : new = [e \in EventsTold \union E |-> e.amount]
  OBVIOUS
<1>4. BookValue = SumFunctionOnSet(old, EventsTold)
  BY <1>2 DEF BookValue
<1>5. BookValue' = SumFunctionOnSet(new, EventsTold \union E)
  BY <1>1, <1>3 DEF BookValue
<1>6. SumFunctionOnSet(new, EventsTold) = SumFunctionOnSet(old, EventsTold)
  BY <1>1, <1>2, <1>3, SumAgrees
<1>7. SumFunctionOnSet(old, EventsTold) \in Int
  BY <1>1, <1>2, SumInt
<1>8. CASE E = {} /\ amount = 0
  <2>1. EventsTold \union E = EventsTold
    BY <1>8
  <2> QED BY <1>4, <1>5, <1>6, <1>7, <1>8, <2>1
<1>9. CASE \E e : E = {e} /\ e \notin EventsTold /\ e.amount = amount
  <2>1. PICK e : E = {e} /\ e \notin EventsTold /\ e.amount = amount
    BY <1>9
  <2>2. \A x \in EventsTold \union {e} : new[x] \in Int
    BY <1>1, <1>3, <2>1
  <2>3. SumFunctionOnSet(new, EventsTold \union {e}) = new[e] + SumFunctionOnSet(new, EventsTold)
    BY <1>1, <2>1, <2>2, SumInsert
  <2>4. new[e] = amount
    BY <1>3, <2>1
  <2> QED BY <1>4, <1>5, <1>6, <1>7, <2>1, <2>3, <2>4
<1> QED BY <1>8, <1>9 DEF AccountsFor

\* A step that commits something of the shelves and tells what it is worth.
LEMMA BooksMove ==
  ASSUME BackInv, desk = "stockroom", ShelfBooks, AllNumbered, ApprovedStay,
         DOMAIN log \subseteq DOMAIN log', raced \subseteq raced', WorkRight', OwnNumbers',
         NEW d, \A i \in Ingredients : d[i] \in Int,
         \A i \in Ingredients : committed'[Shelf(i)] = committed[Shelf(i)] + d[i],
         NEW E, AccountsFor(E, Worth(d))
  PROVE  ShelfBooks'
<1>1. EventsKnown /\ BooksFollowShelves /\ begun \in Nat
  BY ShelvesAre DEF ShelfBooks
<1>2. EventsKnown'
  <2>1. \A e \in EventsTold : e.amount \in Int /\ Known(e)'
    BY <1>1, KnownStays DEF EventsKnown
  <2>2. IsFiniteSet(EventsTold \union E)
    BY <1>1, FS_Union DEF EventsKnown, AccountsFor
  <2>3. EventsTold' = EventsTold \union E /\ \A e \in E : e.amount \in Int /\ Known(e)'
    BY DEF AccountsFor
  <2> QED BY <2>1, <2>2, <2>3 DEF EventsKnown
<1>3. ShelvesValue' = ShelvesValue + Worth(d)
  <2>1. \A i \in Ingredients : committed[Shelf(i)] \in Int
    BY ShelvesAre
  <2> QED BY <2>1, ValueMoves
<1>4. ASSUME \A j \in Jobs : Job(j) \notin raced' PROVE ShelvesValue' = BookValue'
  <2>1. Unraced
    BY <1>4 DEF Unraced
  <2>2. BookValue' = BookValue + Worth(d)
    BY <1>1, <2>1, WorthInt, BookMoves
  <2>3. ShelvesValue = BookValue
    BY <1>1, <2>1 DEF BooksFollowShelves, Unraced
  <2> QED BY <1>3, <2>2, <2>3
<1>5. BooksFollowShelves'
  BY <1>4 DEF BooksFollowShelves
<1> QED BY <1>2, <1>5 DEF ShelfBooks

LEMMA PrefixesApart ==
  ASSUME NEW a, NEW b
  PROVE  /\ <<"SALE", a>> # <<"ADJ", b>> /\ <<"SALE", a>> # <<"STOCKCOUNT", b>>
         /\ <<"SALE", a>> # <<"PROD", b>> /\ <<"ADJ", a>> # <<"STOCKCOUNT", b>>
         /\ <<"ADJ", a>> # <<"PROD", b>> /\ <<"STOCKCOUNT", a>> # <<"PROD", b>>
         /\ <<"SALE", a>> = <<"SALE", b>> => a = b
         /\ <<"ADJ", a>> = <<"ADJ", b>> => a = b
         /\ <<"STOCKCOUNT", a>> = <<"STOCKCOUNT", b>> => a = b
         /\ <<"PROD", a>> = <<"PROD", b>> => a = b
OBVIOUS

\* Where an event of a given reference came from.
LEMMA KnownFrom ==
  ASSUME NEW e, Known(e), NEW x
  PROVE  /\ e.key = <<"SALE", x>> => x \in 0 .. begun - 1
         /\ e.key = <<"ADJ", x>> => \A t \in Txns : tx[t].op = "adjust" => tx[t].read.id # x
         /\ e.key = <<"STOCKCOUNT", x>> => committed[Count(x)] = "APPROVED"
         /\ e.key = <<"PROD", x>> => Entries("made", x) # {}
<1>1. CASE FromSale(e)
  BY <1>1, PrefixesApart DEF FromSale
<1>2. CASE FromAdjustment(e)
  BY <1>2, PrefixesApart DEF FromAdjustment
<1>3. CASE FromCount(e)
  BY <1>3, PrefixesApart DEF FromCount
<1>4. CASE FromJob(e)
  BY <1>4, PrefixesApart DEF FromJob
<1> QED BY <1>1, <1>2, <1>3, <1>4 DEF Known

\* An order of the till: a unit less, and its cost is told.
LEMMA SellBooks == ASSUME BackInv, desk = "stockroom", ShelfBooks, Sell PROVE ShelfBooks'
<1>1. RowShape /\ begun \in Nat /\ \A t \in Txns : t # NoTxn
  BY ShelvesAre
<1>2. PICK i \in Ingredients :
        /\ Single /\ committed[Shelf(i)] > 0 /\ Put(Shelf(i), committed[Shelf(i)] - 1)
        /\ Logged({Event(<<"SALE", begun>>, 0 - Cost[i])}) /\ UNCHANGED raced
  BY DEF Sell
<1>3. PICK e : e = Event(<<"SALE", begun>>, 0 - Cost[i])
  OBVIOUS
<1>4. e.kind = "event" /\ e.key = <<"SALE", begun>> /\ e.amount = 0 - Cost[i]
  BY <1>3 DEF Event
<1>5. Cost[i] \in Nat
  BY StockCountsAssumption
<1>6. PICK v : v = committed[Shelf(i)] - 1
  OBVIOUS
<1>7. Shelf(i) \in Rows /\ Put(Shelf(i), v)
  BY <1>2, <1>6, CountRowsApart
<1>8. /\ lock[Shelf(i)] = NoTxn /\ lock' = lock /\ committed'[Shelf(i)] = v
      /\ \A r \in Rows \ {Shelf(i)} : db'[r] = db[r] /\ committed'[r] = committed[r]
  BY <1>1, <1>7, PutDoes
<1>9. /\ tx' = tx /\ begun' = begun + 1
  BY <1>2 DEF Single, OneMore
<1>10. PICK d : d = [k \in Ingredients |-> IF k = i THEN -1 ELSE 0]
  OBVIOUS
<1>11. \A k \in Ingredients : d[k] \in Int /\ d[k] = (IF k = i THEN -1 ELSE 0)
  BY <1>10
<1>12. \A k \in Ingredients : k # i => Shelf(k) \in Rows \ {Shelf(i)}
  BY CountRowsApart
<1>13. ASSUME NEW k \in Ingredients PROVE committed'[Shelf(k)] = committed[Shelf(k)] + d[k]
  <2>1. committed[Shelf(k)] \in Nat
    BY ShelvesAre
  <2>2. CASE k = i
    BY <1>6, <1>8, <1>11, <2>1, <2>2
  <2>3. CASE k # i
    BY <1>8, <1>11, <1>12, <2>1, <2>3
  <2> QED BY <2>2, <2>3
<1>14. Worth(d) = 0 - Cost[i]
  <2>1. Worth(d) = Cost[i] * d[i] /\ d[i] = -1
    BY <1>11, WorthOfOne
  <2> QED BY <1>5, <2>1
<1>15. DOMAIN log' = DOMAIN log \union {e}
  BY <1>2, <1>3, LoggedDoes
<1>16. EventsTold' = EventsTold \union {e}
  BY <1>4, <1>15 DEF EventsTold
<1>17. Known(e)'
  <2>1. begun \in 0 .. begun' - 1
    BY <1>1, <1>9
  <2> QED BY <1>4, <2>1 DEF Known, FromSale
<1>18. e \notin EventsTold
  <2>1. begun \notin 0 .. begun - 1
    BY <1>1
  <2> QED BY <1>4, <2>1, KnownFrom DEF ShelfBooks, EventsKnown
<1>19. AccountsFor({e}, Worth(d))
  <2>1. IsFiniteSet({e})
    BY FS_Singleton
  <2>2. e.amount \in Int /\ e.amount = Worth(d)
    BY <1>4, <1>5, <1>14
  <2> QED BY <1>16, <1>17, <1>18, <2>1, <2>2 DEF AccountsFor
<1>20. AllNumbered
  BY <1>9 DEF AllNumbered, NumberKept
<1>21. ApprovedStay
  <2>1. \A c \in Counts : Count(c) \in Rows \ {Shelf(i)}
    BY CountRowsApart
  <2> QED BY <1>8, <2>1 DEF ApprovedStay
<1>22. OwnNumbers'
  BY <1>9 DEF ShelfBooks, OwnNumbers
<1>23. WorkRight'
  <2>1. OthersWait(NoTxn) /\ NoTxn \notin Txns
    BY <1>9, RequestsAssumption DEF OthersWait
  <2>2. ASSUME NEW u \in Txns, NEW k \in Ingredients PROVE Change(u, k)' = Change(u, k)
    <3>1. CASE k = i
      BY <1>1, <1>8, <3>1 DEF Change
    <3>2. CASE k # i
      BY <1>8, <1>12, <3>2 DEF Change
    <3> QED BY <3>1, <3>2
  <2>3. OthersKeep(NoTxn)
    BY <2>2 DEF OthersKeep
  <2> QED BY <1>1, <1>9, <2>1, <2>3, WorkMoves DEF ShelfBooks
<1>24. raced' = raced
  BY <1>2
<1> QED BY <1>11, <1>13, <1>15, <1>19, <1>20, <1>21, <1>22, <1>23, <1>24, BooksMove

\* An adjustment tells what it is worth.
LEMMA AdjustmentWorth ==
  ASSUME BackInv, desk = "stockroom", ShelfBooks, NEW t \in Txns,
         tx[t].op = "adjust", tx[t].pc = "commit"
  PROVE  ToldBy(t) = Posted(<<"ADJ", tx[t].read.id>>, Worth(Gives(t)))
<1>1. CountRequest(t)
  BY ShelvesAre DEF CountTypes
<1>2. PICK i \in Ingredients : tx[t].row = Shelf(i)
  BY <1>1 DEF CountRequest, LinesRequest, SubmitRequest, ApproveRequest
<1>3. tx[t].read.delta \in Int
  BY <1>1 DEF CountRequest, LinesRequest, SubmitRequest, ApproveRequest
<1>4. tx[t].row[2] = i /\ \A k : tx[t].row = Shelf(k) <=> k = i
  BY <1>2, CountRowsApart
<1>5. \A k \in Ingredients : Gives(t)[k] = IF k = i THEN tx[t].read.delta ELSE 0
  BY <1>4, DueIs DEF Gives
<1>6. Worth(Gives(t)) = Cost[i] * tx[t].read.delta
  BY <1>3, <1>5, WorthOfOne
<1>7. Adjusting(tx[t], begun)
  BY DEF ShelfBooks, WorkRight, Working
<1>8. tx[t].out = Posted(<<"ADJ", tx[t].read.id>>, Worth(Gives(t)))
  BY <1>4, <1>6, <1>7 DEF Adjusting
<1>9. \A e \in tx[t].out : e.kind = "event"
  BY <1>8 DEF Posted, Event
<1> QED BY <1>8, <1>9 DEF ToldBy

\* So does an approval: every variance is applied, and their value is posted.
LEMMA ApprovalWorth ==
  ASSUME BackInv, desk = "stockroom", NEW t \in Txns, tx[t].op = "approve", tx[t].pc = "commit",
         NEW c \in Counts, tx[t].row = Count(c)
  PROVE  ToldBy(t) = Posted(<<"STOCKCOUNT", c>>, Worth(Gives(t)))
<1>1. CountRequest(t) /\ tx[t].row[2] = c
  BY ShelvesAre, CountRowsApart DEF CountTypes
<1>2. PICK b \in Counts : tx[t].row = Count(b) /\ ApproveRequest(t, b)
  BY <1>1 DEF CountRequest, LinesRequest, SubmitRequest
<1>3. b = c
  BY <1>2, CountRowsApart
<1>4. PICK lines : lines = tx[t].read.lines
  OBVIOUS
<1>5. tx[t].out = Approval(c, lines) /\ \A i \in Ingredients : IsLine(lines[i])
  BY <1>2, <1>3, <1>4 DEF ApproveRequest
<1>6. \A i \in Ingredients : Variance(lines[i]) \in Int
  BY <1>5, VarianceInt
<1>7. ASSUME NEW i \in Ingredients PROVE Gives(t)[i] = Variance(lines[i])
  <2>1. i \in ToApply(lines) => Adjustment(c, i, Variance(lines[i])) \in tx[t].out
    BY <1>5 DEF Approval, Adjustments
  <2>2. i \notin ToApply(lines) => Variance(lines[i]) = 0
    BY DEF ToApply
  <2>3. Applied(tx[t], i) = Variance(lines[i])
    BY <1>1, <1>4, <2>1, <2>2 DEF Applied
  <2> QED BY <2>3, DueIs DEF Gives
<1>8. Worth(Gives(t)) = NetOf(lines)
  <2>1. PICK g : g = [j \in Ingredients |-> Cost[j] * Variance(lines[j])]
    OBVIOUS
  <2>2. [j \in Ingredients |-> Cost[j] * Gives(t)[j]] = g
    BY <1>7, <2>1
  <2>3. \A i \in Ingredients : g[i] \in Int
    BY <1>6, <2>1, CostTimes
  <2>4. ASSUME NEW i \in Ingredients, i \notin ToApply(lines) PROVE g[i] = 0
    <3>1. Variance(lines[i]) = 0 /\ Cost[i] \in Nat
      BY <2>4, StockCountsAssumption DEF ToApply
    <3> QED BY <2>1, <3>1
  <2>5. IsFiniteSet(Ingredients) /\ ToApply(lines) \in SUBSET Ingredients
    BY StockCountsAssumption DEF ToApply
  <2>6. \A i \in Ingredients : g[i] = IF i \in ToApply(lines) THEN g[i] ELSE 0
    BY <2>4
  <2>7. \A i \in ToApply(lines) : g[i] \in Int
    BY <2>3, <2>5
  <2>8. SumFunctionOnSet(g, ToApply(lines)) = SumFunctionOnSet(g, Ingredients)
    BY <2>5, <2>6, <2>7, SumPart
  <2> QED BY <2>1, <2>2, <2>8 DEF Worth, NetOf
<1>9. \A e \in Adjustments(c, lines, ToApply(lines)) : e.kind = "adjust"
  BY DEF Adjustments, Adjustment
<1>10. \A e \in Posted(<<"STOCKCOUNT", c>>, NetOf(lines)) : e.kind = "event"
  BY DEF Posted, Event
<1>11. ToldBy(t) = Posted(<<"STOCKCOUNT", c>>, NetOf(lines))
  BY <1>5, <1>9, <1>10 DEF ToldBy, Approval
<1> QED BY <1>8, <1>11

\* The goods are worth what they cost, the raw material taken what it cost.
LEMMA CompletionWorth ==
  ASSUME BackInv, desk = "stockroom", ShelfBooks, NEW t \in Txns, Finishing(t),
         NEW j \in Jobs, tx[t].row = Job(j)
  PROVE  /\ Worth(Gives(t)) = FinishedValue(j) - RawCost(j)
         /\ RawCost(j) \in Nat /\ FinishedValue(j) \in Nat
<1>1. tx[t].op = "complete" /\ tx[t].pc = "commit" /\ tx[t].row[2] = j
  BY JobRowsApart DEF Finishing
<1>2. tx[t].read.left = {}
  BY <1>1 DEF ShelfBooks, WorkRight, Working, Completing
<1>3. IsFiniteSet(Ingredients) /\ RawOf(j) \in SUBSET Ingredients
  BY StockCountsAssumption DEF RawOf
<1>4. /\ Target[j] \in Ingredients /\ Size[j] \in Nat
      /\ \A i \in Ingredients : Needed(j, i) \in Nat
  BY NeededNat, ProductionAssumption
<1>5. PICK raw : raw = [i \in RawOf(j) |-> Cost[i] * Needed(j, i)]
  OBVIOUS
<1>6. PICK used : used = [i \in Ingredients |-> IF i \in RawOf(j) THEN raw[i] ELSE 0]
  OBVIOUS
<1>7. PICK goods : goods = [i \in Ingredients |-> IF i = Target[j] THEN Cost[i] * Size[j] ELSE 0]
  OBVIOUS
<1>8. PICK g : g = [i \in Ingredients |-> Cost[i] * Gives(t)[i]]
  OBVIOUS
<1>9. \A i \in RawOf(j) : raw[i] \in Nat
  <2>1. \A i \in RawOf(j) : Cost[i] \in Nat /\ Needed(j, i) \in Nat
    BY <1>3, <1>4, StockCountsAssumption
  <2>2. \A m, n \in Nat : m * n \in Nat
    OBVIOUS
  <2> QED BY <1>5, <2>1, <2>2
<1>10. RawCost(j) = SumFunctionOnSet(used, Ingredients) /\ RawCost(j) \in Nat
  <2>1. SumFunctionOnSet(raw, RawOf(j)) = SumFunctionOnSet(used, Ingredients)
    BY <1>3, <1>6, <1>9, SumPart
  <2>2. IsFiniteSet(RawOf(j))
    BY <1>3, FS_Subset
  <2>3. SumFunctionOnSet(raw, RawOf(j)) \in Nat
    BY <1>9, <2>2, SumNat
  <2> QED BY <1>5, <2>1, <2>3 DEF RawCost
<1>11. FinishedValue(j) = SumFunctionOnSet(goods, Ingredients) /\ FinishedValue(j) \in Nat
  <2>1. goods[Target[j]] = FinishedValue(j)
    BY <1>4, <1>7 DEF FinishedValue
  <2>2. FinishedValue(j) \in Nat
    <3>1. \A m, n \in Nat : m * n \in Nat
      OBVIOUS
    <3> QED BY <1>4, <3>1, StockCountsAssumption DEF FinishedValue
  <2>3. \A i \in Ingredients : Target[j] # i => goods[i] = 0
    BY <1>7
  <2>4. goods[Target[j]] \in Int
    BY <2>1, <2>2
  <2> QED BY <1>3, <1>4, <2>1, <2>2, <2>3, <2>4, SumAtOne
<1>12. ASSUME NEW i \in Ingredients
       PROVE  /\ goods[i] \in Int /\ g[i] \in Int /\ used[i] \in Int
              /\ goods[i] = g[i] + used[i]
  <2>1. Gives(t)[i] = UsedUp(tx[t], i) + Gained(tx[t], i)
    BY <1>1, DueIs DEF Gives
  <2>2. UsedUp(tx[t], i) = IF i \in RawOf(j) THEN 0 - Needed(j, i) ELSE 0
    BY <1>1, <1>2 DEF UsedUp
  <2>3. Gained(tx[t], i) = IF i = Target[j] THEN Size[j] ELSE 0
    BY <1>1 DEF Gained
  <2>4. PICK u \in Int : u = UsedUp(tx[t], i)
    BY <1>4, <2>2
  <2>5. PICK p \in Int : p = Gained(tx[t], i)
    BY <1>4, <2>3
  <2>6. g[i] = Cost[i] * u + Cost[i] * p /\ Cost[i] * u \in Int /\ Cost[i] * p \in Int
    <3>1. Gives(t)[i] = u + p
      BY <2>1, <2>4, <2>5
    <3>2. g[i] = Cost[i] * (u + p)
      BY <1>8, <3>1
    <3>3. Cost[i] * u \in Int /\ Cost[i] * p \in Int /\ Cost[i] * (u + p) = Cost[i] * u + Cost[i] * p
      BY CostTimes
    <3> QED BY <3>2, <3>3
  <2>7. Cost[i] \in Nat
    BY StockCountsAssumption
  <2>8. goods[i] = Cost[i] * p
    BY <1>7, <2>3, <2>5, <2>7
  <2>9. used[i] = 0 - Cost[i] * u
    <3>1. CASE i \in RawOf(j)
      <4>1. PICK m \in Nat : m = Needed(j, i)
        BY <1>4
      <4>2. u = 0 - m /\ used[i] = Cost[i] * m
        BY <1>5, <1>6, <2>2, <2>4, <3>1, <4>1
      <4>3. PICK n \in Nat : n = Cost[i]
        BY <2>7
      <4>4. n * m = 0 - n * (0 - m)
        OBVIOUS
      <4> QED BY <4>2, <4>3, <4>4
    <3>2. CASE i \notin RawOf(j)
      <4>1. used[i] = 0 /\ u = 0
        BY <1>6, <2>2, <2>4, <3>2
      <4> QED BY <2>7, <4>1
    <3> QED BY <3>1, <3>2
  <2> QED BY <2>6, <2>8, <2>9
<1>13. SumFunctionOnSet(goods, Ingredients) =
         SumFunctionOnSet(g, Ingredients) + SumFunctionOnSet(used, Ingredients)
  BY <1>3, <1>12, SumPlus
<1>14. SumFunctionOnSet(g, Ingredients) \in Int
  BY <1>3, <1>12, SumInt
<1>15. Worth(Gives(t)) = SumFunctionOnSet(g, Ingredients)
  BY <1>8 DEF Worth
<1> QED BY <1>10, <1>11, <1>13, <1>14, <1>15

\* Freshly posted, it accounts for its amount.
LEMMA PostedAccounts ==
  ASSUME NEW ref, NEW amount \in Int, EventsTold' = EventsTold \union Posted(ref, amount),
         \A e \in EventsTold : e.key # ref,
         \A e : e.key = ref => Known(e)'
  PROVE  AccountsFor(Posted(ref, amount), amount)
<1>1. CASE amount = 0
  <2>1. Posted(ref, amount) = {} /\ IsFiniteSet({})
    BY <1>1, FS_EmptySet DEF Posted
  <2> QED BY <1>1, <2>1 DEF AccountsFor
<1>2. CASE amount # 0
  <2>1. PICK e : e = Event(ref, amount)
    OBVIOUS
  <2>2. e.key = ref /\ e.amount = amount
    BY <2>1 DEF Event
  <2>3. Posted(ref, amount) = {e} /\ IsFiniteSet({e})
    BY <1>2, <2>1, FS_Singleton DEF Posted
  <2>4. e \notin EventsTold /\ Known(e)'
    BY <2>2
  <2> QED BY <2>2, <2>3, <2>4 DEF AccountsFor
<1> QED BY <1>1, <1>2

\* What a commit does to the shelves.
LEMMA CommitGives ==
  ASSUME BackInv, desk = "stockroom", ShelfBooks, NEW t \in Txns, Commit(t)
  PROVE  /\ \A i \in Ingredients : committed'[Shelf(i)] = committed[Shelf(i)] + Gives(t)[i]
         /\ \A i \in Ingredients : Gives(t)[i] \in Int
         /\ WorkRight' /\ OwnNumbers' /\ AllNumbered /\ ApprovedStay
         /\ EventsTold' = EventsTold \union ToldBy(t)
         /\ DOMAIN log' = DOMAIN log \union tx[t].out
         /\ raced' = raced /\ begun' = begun /\ tx'[t] = Idle /\ OthersWait(t)
<1>1. RowShape /\ RequestShape /\ begun \in Nat /\ CountTypes /\ \A u \in Txns : u # NoTxn
  BY ShelvesAre
<1>2. KeepWrites(t) /\ Logged(tx[t].out) /\ Finish(t) /\ raced' = raced
  BY DEF Commit
<1>3. /\ db' = db
      /\ \A r \in Rows : lock[r] = t => committed'[r] = db[r] /\ lock'[r] = NoTxn
      /\ \A r \in Rows : lock[r] # t => committed'[r] = committed[r] /\ lock'[r] = lock[r]
  BY <1>1, <1>2, KeepDoes
<1>4. tx'[t] = Idle /\ OthersWait(t) /\ begun' = begun
  BY <1>1, <1>2, FinishDoes DEF Finish
<1>5. DOMAIN log' = DOMAIN log \union tx[t].out
  BY <1>2, LoggedDoes
<1>6. EventsTold' = EventsTold \union ToldBy(t)
  BY <1>5 DEF EventsTold, ToldBy
<1>7. \A i \in Ingredients : Shelf(i) \in Rows /\ db[Shelf(i)] \in Nat /\ committed[Shelf(i)] \in Nat
  BY ShelvesAre
<1>8. ASSUME NEW i \in Ingredients
      PROVE  Gives(t)[i] \in Int /\ committed'[Shelf(i)] = committed[Shelf(i)] + Gives(t)[i]
  <2>1. Gives(t)[i] = Change(t, i)
    BY DEF Gives, ShelfBooks, WorkRight
  <2>2. CASE lock[Shelf(i)] = t
    <3>1. Change(t, i) = db[Shelf(i)] - committed[Shelf(i)]
      BY <2>2 DEF Change
    <3>2. committed'[Shelf(i)] = db[Shelf(i)]
      BY <1>3, <1>7, <2>2
    <3> QED BY <1>7, <2>1, <3>1, <3>2
  <2>3. CASE lock[Shelf(i)] # t
    <3>1. Change(t, i) = 0
      BY <2>3 DEF Change
    <3>2. committed'[Shelf(i)] = committed[Shelf(i)]
      BY <1>3, <1>7, <2>3
    <3> QED BY <1>7, <2>1, <3>1, <3>2
  <2> QED BY <2>2, <2>3
<1>9. ApprovedStay
  <2>1. ASSUME NEW c \in Counts, committed[Count(c)] = "APPROVED"
        PROVE  committed'[Count(c)] = "APPROVED"
    <3>1. Count(c) \in Rows
      BY CountRowsApart
    <3>2. lock[Count(c)] # t
      <4>1. SUFFICES ASSUME lock[Count(c)] = t PROVE FALSE
        OBVIOUS
      <4>2. Claimant(t) /\ tx[t].row = Count(c)
        BY <1>1, <4>1 DEF CountTypes, CountRow
      <4>3. ClaimStands(t)
        BY <1>1, <4>2 DEF CountTypes
      <4> QED BY <2>1, <4>2, <4>3 DEF ClaimStands
    <3> QED BY <1>3, <2>1, <3>1, <3>2
  <2> QED BY <2>1 DEF ApprovedStay
<1>10. AllNumbered
  <2>1. NumberKept(t)
    BY <1>4, IdleIs
  <2>2. ASSUME NEW u \in Txns, u # t PROVE NumberKept(u)
    BY <1>4, <2>2 DEF OthersWait, NumberKept
  <2> QED BY <1>4, <2>1, <2>2 DEF AllNumbered
<1>11. OwnNumbers'
  BY <1>1, <1>4, <1>10, NumbersStay DEF ShelfBooks
<1>12. WorkRight'
  <2>1. ASSUME NEW u \in Txns \ {t}, NEW i \in Ingredients PROVE Change(u, i)' = Change(u, i)
    <3>1. lock'[Shelf(i)] = u <=> lock[Shelf(i)] = u
      BY <1>1, <1>3, <1>7, <2>1
    <3>2. lock[Shelf(i)] = u => committed'[Shelf(i)] = committed[Shelf(i)]
      BY <1>3, <1>7, <2>1
    <3> QED BY <1>3, <3>1, <3>2 DEF Change
  <2>2. ASSUME NEW i \in Ingredients PROVE Change(t, i)' = 0
    <3>1. lock'[Shelf(i)] # t
      BY <1>1, <1>3, <1>7
    <3> QED BY <3>1 DEF Change
  <2>3. Right(t)
    BY <1>4, <2>2, IdleIs DEF Right
  <2>4. OthersKeep(t)
    BY <2>1 DEF OthersKeep
  <2> QED BY <1>1, <1>4, <2>3, <2>4, WorkMoves DEF ShelfBooks
<1> QED BY <1>2, <1>4, <1>5, <1>6, <1>8, <1>9, <1>10, <1>11, <1>12

\* Goods are not made of nothing.
NothingForNothing == \A j \in Jobs : RawCost(j) = 0 => FinishedValue(j) = 0

\* What a commit tells is what it gives, and nobody told it before.
LEMMA CommitAccounts ==
  ASSUME BackInv, desk = "stockroom", ShelfBooks, NothingForNothing, NEW t \in Txns, Commit(t)
  PROVE  AccountsFor(ToldBy(t), Worth(Gives(t)))
<1>1. /\ EventsTold' = EventsTold \union ToldBy(t)
      /\ DOMAIN log' = DOMAIN log \union tx[t].out
      /\ begun' = begun /\ tx'[t] = Idle /\ OthersWait(t) /\ KeepWrites(t) /\ tx[t].pc = "commit"
  BY CommitGives DEF Commit
<1>2. /\ RowShape /\ RequestShape /\ CountRequest(t) /\ JobRequest(t) /\ CountTypes /\ JobTypes
      /\ EventsKnown /\ OwnNumbers
  BY ShelvesAre DEF CountTypes, JobTypes, ShelfBooks
<1>3. Worth(Gives(t)) \in Int
  BY CommitGives, WorthInt
<1>4. \A e \in EventsTold : Known(e)
  BY <1>2 DEF EventsKnown
<1>5. CASE tx[t].op = "adjust"
  <2>1. PICK id : id = tx[t].read.id
    OBVIOUS
  <2>2. ToldBy(t) = Posted(<<"ADJ", id>>, Worth(Gives(t)))
    BY <1>1, <1>5, <2>1, AdjustmentWorth
  <2>3. \A e \in EventsTold : e.key # <<"ADJ", id>>
    BY <1>4, <1>5, <2>1, KnownFrom
  <2>4. ASSUME NEW e, e.key = <<"ADJ", id>> PROVE Known(e)'
    <3>1. id \in 0 .. begun - 1
      BY <1>5, <2>1 DEF ShelfBooks, WorkRight, Working, Adjusting
    <3>2. ASSUME NEW u \in Txns, tx'[u].op = "adjust" PROVE tx'[u].read.id # id
      <4>1. u # t
        BY <1>1, <3>2 DEF Idle
      <4>2. tx'[u] = tx[u]
        BY <1>1, <4>1 DEF OthersWait
      <4> QED BY <1>2, <1>5, <2>1, <3>2, <4>1, <4>2 DEF OwnNumbers
    <3> QED BY <1>1, <2>4, <3>1, <3>2 DEF Known, FromAdjustment
  <2> QED BY <1>1, <1>3, <2>2, <2>3, <2>4, PostedAccounts
<1>6. CASE tx[t].op = "approve"
  <2>1. PICK c \in Counts : tx[t].row = Count(c)
    BY <1>2, <1>6 DEF JobRequest
  <2>2. ToldBy(t) = Posted(<<"STOCKCOUNT", c>>, Worth(Gives(t)))
    BY <1>1, <1>6, <2>1, ApprovalWorth
  <2>3. ClaimStands(t)
    BY <1>1, <1>2, <1>6 DEF CountTypes, Claimant
  <2>4. /\ committed[Count(c)] = "SUBMITTED" /\ db[Count(c)] = "APPROVED"
        /\ lock[Count(c)] = t
    BY <1>6, <2>1, <2>3 DEF ClaimStands
  <2>5. \A e \in EventsTold : e.key # <<"STOCKCOUNT", c>>
    BY <1>4, <2>4, KnownFrom
  <2>6. committed'[Count(c)] = "APPROVED"
    <3>1. Count(c) \in Rows
      BY CountRowsApart
    <3> QED BY <1>1, <1>2, <2>4, <3>1, KeepDoes
  <2>7. ASSUME NEW e, e.key = <<"STOCKCOUNT", c>> PROVE Known(e)'
    BY <2>6, <2>7 DEF Known, FromCount
  <2> QED BY <1>1, <1>3, <2>2, <2>5, <2>7, PostedAccounts
<1>7. CASE tx[t].op = "complete"
  <2>1. PICK j \in Jobs : tx[t].row = Job(j)
    BY <1>2, <1>7 DEF JobRequest
  <2>2. Finishing(t) /\ tx[t].row[2] = j
    BY <1>1, <1>7, <2>1, JobRowsApart DEF Finishing
  <2>3. PICK gain : gain = FinishedValue(j) - RawCost(j)
    OBVIOUS
  <2>4. Worth(Gives(t)) = gain /\ RawCost(j) \in Nat /\ FinishedValue(j) \in Nat /\ gain \in Int
    BY <2>1, <2>2, <2>3, CompletionWorth
  <2>5. tx[t].out = Completion(j)
    BY <1>1, <1>7, <2>2 DEF ShelfBooks, WorkRight, Working, Completing
  <2>6. PICK e : e = Event(<<"PROD", j>>, gain)
    OBVIOUS
  <2>7. e.kind = "event" /\ e.key = <<"PROD", j>> /\ e.amount = gain
    BY <2>6 DEF Event
  <2>8. Made(j).kind = "made" /\ Made(j).key = j
    BY DEF Made
  <2>9. Known(e)'
    <3>1. Made(j) \in DOMAIN log'
      BY <1>1, <2>5 DEF Completion
    <3>2. Made(j) \in Entries("made", j)'
      BY <2>8, <3>1 DEF Entries
    <3> QED BY <2>7, <3>2 DEF Known, FromJob
  <2>10. ASSUME Unraced PROVE e \notin EventsTold
    <3>1. MadeRight(j)
      BY <2>10 DEF BackInv, MadeInv, Unraced
    <3>2. Entries("made", j) = {}
      BY <2>1, <2>2, <3>1 DEF MadeRight
    <3> QED BY <1>4, <2>7, <3>2, KnownFrom
  <2>11. CASE RawCost(j) > 0
    <3>1. ToldBy(t) = {e}
      BY <2>3, <2>5, <2>6, <2>7, <2>8, <2>11 DEF ToldBy, Completion
    <3>2. IsFiniteSet({e})
      BY FS_Singleton
    <3> QED BY <1>1, <2>4, <2>7, <2>9, <2>10, <3>1, <3>2 DEF AccountsFor
  <2>12. CASE ~(RawCost(j) > 0)
    <3>1. ToldBy(t) = {}
      BY <2>5, <2>8, <2>12 DEF ToldBy, Completion
    <3>2. RawCost(j) = 0
      BY <2>4, <2>12
    <3>3. FinishedValue(j) = 0
      BY <3>2 DEF NothingForNothing
    <3>4. Worth(Gives(t)) = 0
      BY <2>3, <2>4, <3>2, <3>3
    <3>5. IsFiniteSet({})
      BY FS_EmptySet
    <3> QED BY <1>1, <3>1, <3>4, <3>5 DEF AccountsFor
  <2> QED BY <2>11, <2>12
<1>8. CASE tx[t].op \notin {"adjust", "approve", "complete"}
  <2>1. tx[t].out = {}
    BY <1>1, <1>2, <1>8 DEF CountRequest, JobRequest, LinesRequest, SubmitRequest, ApproveRequest
  <2>2. ToldBy(t) = {} /\ IsFiniteSet({})
    BY <2>1, FS_EmptySet DEF ToldBy
  <2>3. Worth(Gives(t)) = 0
    <3>1. \A i \in Ingredients : Gives(t)[i] = 0
      BY <1>8, DueIs DEF Gives
    <3>2. PICK g : g = [i \in Ingredients |-> Cost[i] * Gives(t)[i]]
      OBVIOUS
    <3>3. ASSUME NEW i \in Ingredients PROVE g[i] = 0
      <4>1. Cost[i] \in Nat
        BY StockCountsAssumption
      <4> QED BY <3>1, <3>2, <4>1
    <3>4. IsFiniteSet(Ingredients)
      BY StockCountsAssumption
    <3> QED BY <3>2, <3>3, <3>4, SumZero DEF Worth
  <2> QED BY <1>1, <2>2, <2>3 DEF AccountsFor
<1> QED BY <1>5, <1>6, <1>7, <1>8

LEMMA CommitBooks ==
  ASSUME BackInv, desk = "stockroom", ShelfBooks, NothingForNothing, NEW t \in Txns, Commit(t)
  PROVE  ShelfBooks'
<1>1. PICK d : d = Gives(t)
  OBVIOUS
<1>2. AccountsFor(ToldBy(t), Worth(d))
  BY <1>1, CommitAccounts
<1>3. /\ \A i \in Ingredients : committed'[Shelf(i)] = committed[Shelf(i)] + d[i]
      /\ \A i \in Ingredients : d[i] \in Int
      /\ WorkRight' /\ OwnNumbers' /\ AllNumbered /\ ApprovedStay
      /\ DOMAIN log \subseteq DOMAIN log' /\ raced \subseteq raced'
  BY <1>1, CommitGives
<1> QED BY <1>2, <1>3, BooksMove

-------------------------------------------------------------------------------
(* Every step keeps the books of the shelves.                              *)

LEMMA BooksIdle ==
  ASSUME BackInv, desk = "stockroom", ShelfBooks, UNCHANGED serviceVars PROVE ShelfBooks'
<1>1. begun \in Nat /\ NoTxn \notin Txns
  BY ShelvesAre, RequestsAssumption
<1>2. UNCHANGED <<db, committed, lock, tx, log, begun, raced>>
  BY DEF serviceVars
<1>3. OthersWait(NoTxn) /\ ApprovedStay /\ ShelvesStill
  BY <1>2 DEF OthersWait, ApprovedStay, ShelvesStill
<1>4. Calm
  BY <1>1, <1>2, <1>3, CalmIs
<1> QED BY <1>1, <1>3, <1>4, StillKeeps

LEMMA BooksNext ==
  ASSUME BackInv, ShelfBooks, NothingForNothing, [Next]_serviceVars PROVE ShelfBooks'
<1>1. CASE desk # "stockroom"
  <2>1. desk' # "stockroom"
    BY <1>1, DeskStays
  <2> QED BY <2>1 DEF ShelfBooks
<1>2. CASE desk = "stockroom"
  <2>1. CASE UNCHANGED serviceVars
    BY <1>2, <2>1, BooksIdle
  <2>2. CASE StockCountNext \/ ProductionNext
    <3>1. ASSUME Sell PROVE ShelfBooks'
      BY <1>2, <3>1, SellBooks
    <3>2. ASSUME CreateStockCount \/ Cancel \/ CreateProductionOrder PROVE ShelfBooks'
      BY <1>2, <3>2, SinglesKeep
    <3>3. ASSUME NEW t \in Txns, StockCountStep(t) PROVE ShelfBooks'
      BY <1>2, <3>3, BeginningsKeep, CountingKeepsBooks, ApplyVarianceBooks, ApplyDeltaBooks
         DEF StockCountStep
    <3>4. ASSUME NEW t \in Txns, ProductionStep(t) PROVE ShelfBooks'
      BY <1>2, <3>4, BeginningsKeep, JobSetsKeep, TakeRawBooks, AddFinishedBooks DEF ProductionStep
    <3> QED BY <2>2, <3>1, <3>2, <3>3, <3>4 DEF StockCountNext, ProductionNext
  <2>3. ASSUME NEW t \in Txns, Commit(t) PROVE ShelfBooks'
    BY <1>2, <2>3, CommitBooks
  <2>4. ASSUME NEW t \in Txns, Abort(t, Lost(t)) PROVE ShelfBooks'
    <3>1. UndoWrites(t) /\ Finish(t) /\ log' = log /\ raced \subseteq raced'
      BY <2>4 DEF Abort
    <3> QED BY <1>2, <3>1, UndoKeeps
  <2> QED BY <1>2, <2>1, <2>2, <2>3, <2>4 DEF Next
<1> QED BY <1>1, <1>2

\* Nothing came onto the shelves, nothing was told.
LEMMA BooksAtRest ==
  ASSUME \A i \in Ingredients : committed[Shelf(i)] = Opening[i], EventsTold = {}
  PROVE  ShelvesValue = 0 /\ BookValue = 0
<1>1. IsFiniteSet(Ingredients)
  BY StockCountsAssumption
<1>2. PICK g : g = [i \in Ingredients |-> Cost[i] * (committed[Shelf(i)] - Opening[i])]
  OBVIOUS
<1>3. ASSUME NEW i \in Ingredients PROVE g[i] = 0
  <2>1. Cost[i] \in Nat /\ committed[Shelf(i)] - Opening[i] = 0
    BY StockCountsAssumption
  <2> QED BY <1>2, <2>1
<1>4. ShelvesValue = 0
  BY <1>1, <1>2, <1>3, SumZero DEF ShelvesValue
<1>5. BookValue = 0
  BY SumEmpty DEF BookValue
<1> QED BY <1>4, <1>5

LEMMA BooksInit == ASSUME Init PROVE ShelfBooks
<1>1. \A r \in Rows : lock[r] = NoTxn /\ committed[r] = InitialOf(r)
  BY DEF Init, ServiceInit, Initial
<1>2. \A t \in Txns : tx[t] = Idle
  BY DEF Init, ServiceInit
<1>3. EventsTold = {}
  BY DEF Init, ServiceInit, EventsTold
<1>4. ASSUME NEW i \in Ingredients PROVE committed[Shelf(i)] = Opening[i]
  <2>1. Shelf(i) \in StockCountRows /\ Shelf(i) \in Rows
    BY CountRowsApart DEF StockCountRows
  <2>2. StockCountInitial(Shelf(i)) = Opening[i]
    BY DEF StockCountInitial, Shelf
  <2> QED BY <1>1, <2>1, <2>2, InitialRows
<1>5. BooksFollowShelves
  BY <1>3, <1>4, BooksAtRest DEF BooksFollowShelves
<1>6. EventsKnown
  BY <1>3, FS_EmptySet DEF EventsKnown
<1>7. \A t \in Txns : tx[t].op = "none"
  BY <1>2 DEF Idle
<1>8. OwnNumbers
  BY <1>7 DEF OwnNumbers
<1>9. WorkRight
  <2>1. ASSUME NEW t \in Txns, NEW i \in Ingredients PROVE Change(t, i) = Due(tx[t], i)
    <3>1. lock[Shelf(i)] # t
      BY <1>1, CountRowsApart, RequestsAssumption
    <3>2. Due(tx[t], i) = 0
      BY <1>7, DueIs
    <3> QED BY <3>1, <3>2 DEF Change
  <2> QED BY <1>7, <2>1 DEF WorkRight, Working
<1> QED BY <1>5, <1>6, <1>8, <1>9 DEF ShelfBooks

\* The other departments leave the shelves and the events alone.
LEMMA BooksEnough == ASSUME BackInv, ShelfBooks PROVE BooksFollowShelves
<1>1. CASE desk = "stockroom"
  BY <1>1 DEF ShelfBooks
<1>2. CASE desk # "stockroom"
  <2>1. \A r \in Rows : committed[r] \in TypeOf(r)
    BY DEF BackInv, BackTypes, RowsTyped
  <2>2. \A i \in Ingredients : Shelf(i) \in Rows /\ TypeOf(Shelf(i)) = {Opening[i]}
    BY <1>2, RowTypes, CountRowsApart
  <2>3. \A i \in Ingredients : committed[Shelf(i)] = Opening[i]
    BY <2>1, <2>2
  <2>4. EventsTold = {}
    BY <1>2 DEF BackInv, BackTypes, LogTyped, Homely, EventsTold
  <2> QED BY <2>3, <2>4, BooksAtRest DEF BooksFollowShelves
<1> QED BY <1>1, <1>2

\* What the journal is told of the shelves (sales, counts, adjustments, production) is
\* worth what came onto them, for every interleaving of the requests, as long as no job
\* was set from a read that was out of date.  An order whose raw material costs nothing
\* tells nothing (the event is sent if totalRawCost is positive): its goods must then be
\* worth nothing.
THEOREM BooksFollowShelvesHolds ==
  ASSUME \A j \in Jobs : RawCost(j) = 0 => FinishedValue(j) = 0
  PROVE  Spec => []BooksFollowShelves
<1>1. NothingForNothing
  BY DEF NothingForNothing
<1>2. Init => BackInv /\ ShelfBooks
  BY BooksInit, TypesInit, MadeInitInv, CountInitInv, ReorderInitInv, SettleInitInv, StaffInitInv,
     TierInitInv, JournalInitInv DEF BackInv
<1>3. BackInv /\ ShelfBooks /\ [Next]_serviceVars => BackInv' /\ ShelfBooks'
  BY <1>1, BackNext, BooksNext
<1>4. BackInv /\ ShelfBooks => BooksFollowShelves
  BY BooksEnough
<1> QED BY <1>2, <1>3, <1>4, PTL DEF Spec
===============================================================================
