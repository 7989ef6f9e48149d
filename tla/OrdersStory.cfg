SPECIFICATION Spec
CONSTANTS
  latte = latte
  cake = cake
  milk = milk
  cakes = cakes
  t1 = t1
  t2 = t2
  NoTxn = NoTxn
  NoRequest = NoRequest
  Member = Member
  Txns = {t1, t2}
  Orders = {1, 2}
  Products = {latte, cake}
  Kitchen = {latte}
  Items = {milk, cakes}
  ItemOf <- MadeOf
  InitialRecipe <- LatteOnly
  RecipeChoices = {0}
  InitialStock <- InStock
  Price <- Prices
  Requests = {"r1"}
  InitialPoints = 0
  Redemptions = {0, 2}
  Buyers = {TRUE, FALSE}
  PointsPerUnit = 10
  SpendPerPoint = 100
  MaxRetries = 1
  Ops = {"create", "status", "void", "refund"}
  MaxBegun = 3
  LastDay = 2
SYMMETRY TxnSymmetry
INVARIANTS TypeOK OneOrderPerRequest QueueNumbersConsecutive EventsFollowOrders
PROPERTY StatusMovesForward
CHECK_DEADLOCK FALSE
