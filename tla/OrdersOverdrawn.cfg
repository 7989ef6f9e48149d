SPECIFICATION Spec
CONSTANTS
  latte = latte
  cake = cake
  milk = milk
  cakes = cakes
  t1 = t1
  t2 = t2
  NoTxn = NoTxn
  NoRequest = NoRequest
  Member = Member
  Txns = {t1, t2}
  Orders = {1, 2}
  Products = {latte, cake}
  Kitchen = {latte}
  Items = {milk, cakes}
  ItemOf <- MadeOf
  InitialRecipe <- OneEach
  RecipeChoices = {}
  InitialStock <- InStock
  Price <- Prices
  Requests = {}
  InitialPoints = 10
  Redemptions = {10}
  Buyers = {TRUE}
  PointsPerUnit = 10
  SpendPerPoint = 100
  MaxRetries = 5
  Ops = {"create"}
  MaxBegun = 2
  LastDay = 1
SYMMETRY TxnSymmetry
INVARIANT PointsNonNegative
CHECK_DEADLOCK FALSE
