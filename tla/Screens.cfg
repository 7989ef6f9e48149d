SPECIFICATION Spec
CONSTANTS
  o1 = o1
  o2 = o2
  h1 = h1
  h2 = h2
  w1 = w1
  w2 = w2
  b1 = b1
  b2 = b2
  latte = latte
  cake = cake
  Tickets = {o1, o2}
  Hands = {h1, h2}
  MaxNews = 2
  MaxTaps = 2
  MaxFaults = 1
  Shops <- TwoShops
  Price <- Prices
  NoTerms <- Plain
  MaxRetries = 1
  MaxIds = 2
  MaxOpens = 2
  MaxTermChanges = 1
  Lines = {1, 2}
  Quantities = {5}
  Blank = Blank
  MaxTyped = 3
  MaxElsewhere = 1
INVARIANTS QuietBoardIsRight OneSalePerGuest ReceiptIsForTheCart QuoteIsCharged CountAsTyped
PROPERTY BoardCatchesUp
CHECK_DEADLOCK FALSE
