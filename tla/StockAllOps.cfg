SPECIFICATION Spec
CONSTANTS
  t1 = t1
  t2 = t2
  milkA = milkA
  milkB = milkB
  beansA = beansA
  T1 = T1
  NoTxn = NoTxn
  NoExpiry = 9
  Txns = {t1, t2}
  Items = {milkA, milkB, beansA}
  BranchOf <- Branches
  Batches = {1, 2, 3, 4, 5, 6}
  Transfers = {T1}
  TransferOf <- OneTransfer
  Initial <- MilkAndBeans
  Plans <- OneRecipe
  Deliveries <- EitherOrder
  Quantities = {1, 2}
  ExpiryDays = {1}
  Ops = {"deduct", "restore", "receive", "waste", "dispose", "transfer"}
  MaxBegun = 3
  LastDay = 2
SYMMETRY TxnSymmetry
INVARIANTS StockNonNegative OnlyCrossingsDeadlock
CHECK_DEADLOCK FALSE
