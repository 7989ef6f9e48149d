SPECIFICATION Spec
CONSTANTS
  latte = latte
  cake = cake
  milk = milk
  cakes = cakes
  t1 = t1
  t2 = t2
  NoTxn = NoTxn
  NoRequest = NoRequest
  Member = Member
  Txns = {t1, t2}
  Orders = {1, 2}
  Products = {latte, cake}
  Kitchen = {latte}
  Items = {milk, cakes}
  ItemOf <- MadeOf
  InitialRecipe <- OneEach
  RecipeChoices = {}
  InitialStock <- InStock
  Price <- CheapCake
  Requests = {"r1"}
  InitialPoints = 0
  Redemptions = {0}
  Buyers = {TRUE}
  PointsPerUnit = 10
  SpendPerPoint = 100
  MaxRetries = 5
  Ops = {"create", "status", "void", "refund"}
  MaxBegun = 4
  LastDay = 2
SYMMETRY TxnSymmetry
INVARIANTS StockFollowsOrders PointsFollowOrders
CHECK_DEADLOCK FALSE
