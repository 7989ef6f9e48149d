SPECIFICATION Spec
CONSTANTS
  t1 = t1
  t2 = t2
  milkA = milkA
  milkB = milkB
  beansA = beansA
  T1 = T1
  NoTxn = NoTxn
  NoExpiry = 9
  Txns = {t1, t2}
  Items = {milkA, milkB}
  BranchOf <- Branches
  Batches = {1, 2, 3, 4}
  Transfers = {T1}
  TransferOf <- OneTransfer
  Initial <- TwoMilk
  Plans <- MilkOnly
  Deliveries <- MilkTwice
  Quantities = {1, 2}
  ExpiryDays = {2, 9}
  Ops = {"deduct", "restore", "waste", "dispose"}
  MaxBegun = 2
  LastDay = 2
SYMMETRY TxnSymmetry
INVARIANT CacheMatchesBatches
CHECK_DEADLOCK FALSE
