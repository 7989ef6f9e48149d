SPECIFICATION Spec
CONSTANTS
  t1 = t1
  t2 = t2
  po1 = po1
  po2 = po2
  NoTxn = NoTxn
  Stock = Stock
  Txns = {t1, t2}
  PurchaseOrders = {po1, po2}
  Quantity <- Brings
  Total <- Costs
  MaxOverlaps = 2
  MaxBegun = 10
SYMMETRY TxnSymmetry
INVARIANTS PaymentFollowsReceipt AgingReconciles OrderlyStockFollowsLedger
CHECK_DEADLOCK FALSE
