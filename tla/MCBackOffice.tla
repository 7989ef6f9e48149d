------------------------------ MODULE MCBackOffice ------------------------------
(* A small instance: two requests at a time in each department.               *)
EXTENDS BackOffice, TLC

CONSTANTS t1, t2, c1, j1, beans, brew, milk, sugar, ann, here, there, m1, l1,
          latte, cake, invoice, crate, syrup, broth, wages, rent, spill

Bounds == ("stockroom" :> 5) @@ ("reordering" :> 6) @@ ("settlements" :> 6)
            @@ ("staff" :> 7) @@ ("loyalty" :> 5) @@ ("journal" :> 6)

Shelves == (beans :> 2) @@ (brew :> 0)
Costs == (beans :> 2) @@ (brew :> 5)
Targets == (j1 :> brew)
Sizes == (j1 :> 1)
Recipes == (brew :> ((beans :> 1) @@ (brew :> 0))) @@ (beans :> ((beans :> 0) @@ (brew :> 0)))
NullQty == -1
DeltaSet == {-1}

Supplied == (milk :> 2) @@ (sugar :> 2)
Minimum == (milk :> 1) @@ (sugar :> 1)
Homes == (ann :> here)
Tiers == ("REGULAR" :> 0) @@ ("SILVER" :> 2) @@ ("GOLD" :> 3)

\* A sale with a tax that rounds, one of the other branch without recipe, a dear and a
\* free delivery, a job that gains and one at cost, and one of each other kind.
PaperTerms ==
  (latte :> [kind |-> "sale", branch |-> here, net |-> 6550, cogs |-> 1800, method |-> "CASH"])
  @@ (cake :> [kind |-> "sale", branch |-> there, net |-> 555, cogs |-> 0, method |-> "QR_PROMPTPAY"])
  @@ (invoice :> [kind |-> "purchase", branch |-> here, total |-> 5000, standard |-> 4600])
  @@ (crate :> [kind |-> "purchase", branch |-> there, total |-> 0, standard |-> 300])
  @@ (syrup :> [kind |-> "job", branch |-> here, raw |-> 700, finished |-> 900])
  @@ (broth :> [kind |-> "job", branch |-> here, raw |-> 400, finished |-> 400])
  @@ (wages :> [kind |-> "payroll", branch |-> here, gross |-> 9000, net |-> 8550])
  @@ (rent :> [kind |-> "expense", branch |-> there, amount |-> 1200])
  @@ (spill :> [kind |-> "adjustment", branch |-> here, value |-> -150])

TxnSymmetry == Permutations(Txns)
===============================================================================
