-------------------------------- MODULE MCOrders --------------------------------
(* Small instances of Orders: a latte the kitchen makes, a cake it does not.  *)
EXTENDS Orders, TLC

CONSTANTS latte, cake, milk, cakes, t1, t2

MadeOf == (latte :> milk) @@ (cake :> cakes)
OneEach == (latte :> 1) @@ (cake :> 1)
LatteOnly == (latte :> 1) @@ (cake :> 0)
InStock == (milk :> 2) @@ (cakes :> 3)
Prices == (latte :> 200) @@ (cake :> 300)
CheapCake == (latte :> 200) @@ (cake :> 90)
TxnSymmetry == Permutations(Txns)
===============================================================================
