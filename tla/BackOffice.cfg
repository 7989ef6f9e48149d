SPECIFICATION Spec
CONSTANTS
  t1 = t1
  t2 = t2
  c1 = c1
  j1 = j1
  l1 = l1
  m1 = m1
  beans = beans
  brew = brew
  milk = milk
  sugar = sugar
  ann = ann
  here = here
  there = there
  latte = latte
  cake = cake
  invoice = invoice
  crate = crate
  syrup = syrup
  broth = broth
  wages = wages
  rent = rent
  spill = spill
  NoTxn = NoTxn
  Txns = {t1, t2}
  Rows <- AllRows
  Departments = {"stockroom", "reordering", "settlements", "staff", "loyalty", "journal"}
  MaxBegun <- Bounds
  Ingredients = {beans, brew}
  Opening <- Shelves
  Cost <- Costs
  Counts = {c1}
  Counted = {0, 3}
  Deltas <- DeltaSet
  Null <- NullQty
  Jobs = {j1}
  Target <- Targets
  Size <- Sizes
  Recipe <- Recipes
  Supplies = {milk, sugar}
  InStock <- Supplied
  MinStock <- Minimum
  MinOrder = 1
  POs = {1, 2, 3}
  SettlementIds = {1, 2}
  Employees = {ann}
  Sites = {here, there}
  Home <- Homes
  Salaried = {ann}
  Records = {1, 2, 3}
  Runs = {1, 2, 3}
  Leaves = {l1}
  Members = {m1}
  Prices = {1, 2}
  TierFrom <- Tiers
  Papers = {latte, cake, invoice, crate, syrup, broth, wages, rent, spill}
  Terms <- PaperTerms
  Rates = {7, 10}
SYMMETRY TxnSymmetry
INVARIANTS TypeOK VarianceAppliedOnce MadeOnce BooksFollowShelves OrderedOnce SettledOnce PaidOnce TierFollowsSpend StatementsAgree
CHECK_DEADLOCK FALSE
