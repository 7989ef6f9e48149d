------------------------------ MODULE MCPurchasing ------------------------------
(* Small instances of Purchasing: two orders of different size and price.     *)
EXTENDS Purchasing, TLC

CONSTANTS t1, t2, po1, po2

Brings == (po1 :> 1) @@ (po2 :> 2)
Costs == (po1 :> 3) @@ (po2 :> 5)
TxnSymmetry == Permutations(Txns)
===============================================================================
