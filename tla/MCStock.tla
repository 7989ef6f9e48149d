-------------------------------- MODULE MCStock --------------------------------
(* Small instances of Stock: milk at two branches and beans at the first.     *)
EXTENDS Stock, TLC

CONSTANTS t1, t2, milkA, milkB, beansA, T1

Branches == (milkA :> "A") @@ (milkB :> "B") @@ (beansA :> "A")

Batch(i, q, st, e) == [item |-> i, qty |-> q, st |-> st, exp |-> e]

\* Two batches of milk at A, the newer one expiring first, and two unused ids.
TwoMilk == <<Batch(milkA, 1, "ACTIVE", 2), Batch(milkA, 2, "ACTIVE", 1),
             Batch(milkA, 0, "none", 9), Batch(milkA, 0, "none", 9)>>

OneTransfer == T1 :> [from |-> milkA, to |-> milkB, qty |-> 2]

\* One batch each of milk and beans at A.
MilkAndBeans == <<Batch(milkA, 2, "ACTIVE", 1), Batch(beansA, 2, "ACTIVE", 9)>>
                  \o [n \in 1 .. 4 |-> Batch(milkA, 0, "none", 9)]

OneRecipe == {<<milkA>>, <<milkA, beansA>>, <<beansA, milkA>>}

MilkOnly == {<<milkA>>}

\* Receipts of several lines at A, in both orders; with one ingredient twice.
EitherOrder == {<<milkA, beansA>>, <<beansA, milkA>>}
MilkTwice   == {<<milkA>>, <<milkB>>, <<milkA, milkA>>}

TxnSymmetry == Permutations(Txns)
===============================================================================
