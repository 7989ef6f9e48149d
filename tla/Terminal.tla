-------------------------------- MODULE Terminal --------------------------------
(***************************************************************************)
(* The point of sale in the browser: tabs that share one saved cart, the   *)
(* clientRequestId that makes a repeated checkout the same sale, requests  *)
(* that time out, are retried, arrive late or not at all; and the amount   *)
(* the screen quotes against the amount the server charges.                *)
(***************************************************************************)
EXTENDS Integers, FiniteSets

CONSTANTS
  Shops,          \* the shops explored: records of tabs, branches, baskets and offers
  Price,          \* its price in satang, before and after the catalogue is edited
  NoTerms,        \* no promotion and no points; an offer is a record of promo ("none",
                  \* "percent", "fixed"), its value and points
  MaxRetries,     \* of a request that fails without an answer (3 in the code)
  MaxIds,         \* bound on edits of a cart
  MaxOpens,       \* bound on tabs opened, reloaded or switched to another branch
  MaxTermChanges  \* bound on promotions and points applied

VARIABLES
  shop,       \* the shop of this behaviour
  till,       \* what each tab holds
  saved,      \* the cart in localStorage
  inFlight,   \* requests on their way to the server; some never arrive
  orders,     \* orders of the server
  catalogue,  \* 1, and 2 once the prices have been edited
  receipt,    \* the receipt just shown: what was asked and the order returned
  attempts,   \* every checkout confirmed
  amended,    \* guests whose basket was edited after or beside a checkout
  used        \* edits, tabs, changes of terms and guests used up

terminalVars == <<shop, till, saved, inFlight, orders, catalogue, receipt, attempts, amended, used>>

ASSUME ShopsAssumption == \A s \in Shops : "nowhere" \notin s.branches
ASSUME OffersAssumption ==
  \A terms \in (UNION {s.offers : s \in Shops}) \union {NoTerms} :
    terms \in [promo : {"none", "percent", "fixed"}, value : Nat, points : Nat]
ASSUME PricesAssumption ==
  \A s \in Shops : \A basket \in s.baskets : \A at \in 1 .. 2 : Price[at][basket] \in Nat

Tabs == UNION {s.tabs : s \in Shops}

NoCart == [basket |-> "nothing", at |-> 0]
NoRequest == [id |-> 0]
NoReceipt == [id |-> 0]
NotSaved == [branch |-> "nowhere"]
Closed == [branch |-> "nowhere", cart |-> NoCart, terms |-> NoTerms, id |-> 0, guest |-> 0,
           request |-> NoRequest, tries |-> 0, answer |-> "none"]

TerminalInit ==
  /\ shop \in Shops
  /\ till = [w \in Tabs |-> Closed]
  /\ saved = NotSaved
  /\ inFlight = {}
  /\ orders = {}
  /\ catalogue = 1
  /\ receipt = NoReceipt
  /\ attempts = {}
  /\ amended = {}
  /\ used = [ids |-> 0, opens |-> 0, terms |-> 0, guests |-> 0]

-------------------------------------------------------------------------------
(* Money, in hundredths of a satang: percentages of a price are whole.     *)

Lesser(a, b) == IF a < b THEN a ELSE b
Greater(a, b) == IF a > b THEN a ELSE b
RoundHalfUp(money) == (money + 50) \div 100
PointWorth == 1000  \* ten points to the baht

\* The screen: unrounded; a fixed amount reaches it as a string, to which the
\* discount of the points is appended.
Digits(n) == IF n < 10 THEN 10 ELSE IF n < 100 THEN 100 ELSE 1000
FixedAndPoints(value, points) ==
  10000 * (value * Digits(points \div 10) + points \div 10) + PointWorth * (points % 10)
QuotedDiscount(total, terms) ==
  CASE terms.promo = "percent" -> total * terms.value + terms.points * PointWorth
    [] terms.promo = "fixed" -> FixedAndPoints(terms.value, terms.points)
    [] OTHER -> terms.points * PointWorth
Quoted(total, terms) == 100 * total - Lesser(QuotedDiscount(total, terms), 100 * total)

\* The server: points are taken for what the promotion leaves, the discount is
\* rounded to the satang and never exceeds the price.
PromoDiscount(total, terms) == CASE terms.promo = "percent" -> total * terms.value
                                 [] terms.promo = "fixed" -> 10000 * terms.value
                                 [] OTHER -> 0
PointsUsable(left, points) == Lesser(points, Greater(left, 0) \div PointWorth)

\* Mutant: the promotion is computed on what the points leave.
ChargedPointsFirst(total, terms) ==
  LET points == PointsUsable(100 * total, terms.points)
      promo == PromoDiscount(total - (points * PointWorth) \div 100, terms)
  IN  total - Lesser(RoundHalfUp(promo + points * PointWorth), total)

Charged(total, terms) ==
  LET promo == PromoDiscount(total, terms)
      points == PointsUsable(100 * total - promo, terms.points)
  IN  total - Lesser(RoundHalfUp(promo + points * PointWorth), total)

-------------------------------------------------------------------------------
(* The cart.                                                               *)

\* Mutant: one id for all edits of a cart.
SameId(w) == IF till[w].id = 0 THEN used.ids + 1 ELSE till[w].id

\* updateCart: every edit of the basket takes a new id.
FreshId(w) == used.ids + 1

\* The save effect: an empty cart clears the saved one, whoever's it is.
SaveOf(s) == IF s.cart = NoCart THEN NotSaved
             ELSE [branch |-> s.branch, cart |-> s.cart, terms |-> s.terms,
                   id |-> s.id, guest |-> s.guest]

Show(w, s) == till' = [till EXCEPT ![w] = s] /\ saved' = SaveOf(s)

\* Mutant: a restored cart takes a new id.
HydratedAnew(s, branch, old) ==
  IF saved.branch = branch /\ ~old
  THEN [s EXCEPT !.branch = branch, !.cart = saved.cart, !.terms = saved.terms,
                 !.id = saved.id + MaxIds, !.guest = saved.guest]
  ELSE [s EXCEPT !.branch = branch, !.cart = NoCart, !.terms = NoTerms, !.guest = 0]

\* The load effect: the saved cart of this branch with its id, or nothing; a
\* cart older than POS_CART_MAX_AGE_MS counts as none.
Hydrated(s, branch, old) ==
  IF saved.branch = branch /\ ~old
  THEN [s EXCEPT !.branch = branch, !.cart = saved.cart, !.terms = saved.terms,
                 !.id = saved.id, !.guest = saved.guest]
  ELSE [s EXCEPT !.branch = branch, !.cart = NoCart, !.terms = NoTerms, !.guest = 0]

OneMoreTab == used.opens < MaxOpens /\ used' = [used EXCEPT !.opens = @ + 1]

\* A tab is opened or reloaded; a request under way is forgotten, not cancelled.
Open(w, branch) ==
  /\ OneMoreTab
  /\ \E old \in BOOLEAN : Show(w, Hydrated(Closed, branch, old))
  /\ receipt' = NoReceipt
  /\ UNCHANGED <<shop, inFlight, orders, catalogue, attempts, amended>>

SwitchBranch(w, branch) ==
  /\ till[w].branch \notin {branch, Closed.branch}
  /\ OneMoreTab
  /\ \E old \in BOOLEAN : Show(w, Hydrated(till[w], branch, old))
  /\ receipt' = NoReceipt
  /\ UNCHANGED <<shop, inFlight, orders, catalogue, attempts, amended>>

\* Lines are added or removed; an item keeps the price it was added at.
Edit(w, cart) ==
  LET s == till[w]
      first == s.cart = NoCart
      guest == IF first THEN used.guests + 1 ELSE s.guest
      beside == \E a \in attempts : a.guest = guest
      elsewhere == \E v \in Tabs \ {w} : till[v].guest = guest
  IN  /\ s # Closed /\ cart # s.cart
      /\ used.ids < MaxIds
      /\ used' = [used EXCEPT !.ids = @ + 1, !.guests = IF first THEN @ + 1 ELSE @]
      /\ Show(w, [s EXCEPT !.cart = cart, !.id = FreshId(w),
                           !.guest = IF cart = NoCart THEN 0 ELSE guest])
      /\ amended' = IF beside \/ elsewhere THEN amended \union {guest} ELSE amended
      /\ receipt' = NoReceipt
      /\ UNCHANGED <<shop, inFlight, orders, catalogue, attempts>>

\* A promotion or points are applied or cleared: the id stays.
SetTerms(w, terms) ==
  /\ till[w] # Closed /\ terms # till[w].terms
  /\ used.terms < MaxTermChanges /\ used' = [used EXCEPT !.terms = @ + 1]
  /\ Show(w, [till[w] EXCEPT !.terms = terms])
  /\ receipt' = NoReceipt
  /\ UNCHANGED <<shop, inFlight, orders, catalogue, attempts, amended>>

-------------------------------------------------------------------------------
(* Checkout.                                                               *)

RequestOf(w) == [tab |-> w, id |-> till[w].id, guest |-> till[w].guest, branch |-> till[w].branch,
                 cart |-> till[w].cart, terms |-> till[w].terms]

Confirm(w) ==
  /\ till[w].cart # NoCart /\ till[w].request = NoRequest
  /\ till' = [till EXCEPT ![w].request = RequestOf(w), ![w].tries = 0, ![w].answer = "none"]
  /\ inFlight' = inFlight \union {RequestOf(w)}
  /\ attempts' = attempts \union
                   {[id |-> till[w].id, guest |-> till[w].guest, terms |-> till[w].terms]}
  /\ receipt' = NoReceipt
  /\ UNCHANGED <<shop, saved, orders, catalogue, amended, used>>

\* createOrder: prices are read now; a known id conflicts and its order is
\* returned.  The checks that refuse (points, stock, promotion) come before the
\* conflict, so a sale already made may be refused when it is repeated.
Serve(r) ==
  /\ inFlight' = inFlight \ {r}
  /\ \E answer \in {"order", "refused"} :
       /\ till' = IF till[r.tab].request = r /\ till[r.tab].answer = "none"
                  THEN [till EXCEPT ![r.tab].answer = answer] ELSE till
       /\ orders' = IF answer = "order" /\ \A o \in orders : o.id # r.id
                    THEN orders \union {[id |-> r.id, guest |-> r.guest, branch |-> r.branch,
                                         basket |-> r.cart.basket, terms |-> r.terms,
                                         at |-> catalogue]}
                    ELSE orders
  /\ receipt' = NoReceipt
  /\ UNCHANGED <<shop, saved, catalogue, attempts, amended, used>>

\* No answer in time: the same request again, or the cart stays on the screen.
TimeOut(w) ==
  /\ till[w].request # NoRequest
  /\ \/ /\ till[w].tries < MaxRetries
        /\ till' = [till EXCEPT ![w].tries = @ + 1, ![w].answer = "none"]
        /\ inFlight' = inFlight \union {till[w].request}
     \/ /\ till[w].tries = MaxRetries
        /\ till' = [till EXCEPT ![w].request = NoRequest, ![w].tries = 0, ![w].answer = "none"]
        /\ UNCHANGED inFlight
  /\ receipt' = NoReceipt
  /\ UNCHANGED <<shop, saved, orders, catalogue, attempts, amended, used>>

\* A refusal is not retried.
ShowRefusal(w) ==
  /\ till[w].answer = "refused"
  /\ till' = [till EXCEPT ![w].request = NoRequest, ![w].tries = 0, ![w].answer = "none"]
  /\ receipt' = NoReceipt
  /\ UNCHANGED <<shop, saved, inFlight, orders, catalogue, attempts, amended, used>>

\* Success clears the saved cart and the cart on the screen, edited since or not.
ShowReceipt(w) ==
  /\ till[w].answer = "order"
  /\ receipt' = [id |-> till[w].request.id, asked |-> till[w].request,
                 order |-> CHOOSE o \in orders : o.id = till[w].request.id]
  /\ Show(w, [Closed EXCEPT !.branch = till[w].branch])
  /\ UNCHANGED <<shop, inFlight, orders, catalogue, attempts, amended, used>>

\* A manager edits the prices.
Reprice ==
  /\ catalogue = 1 /\ catalogue' = 2
  /\ receipt' = NoReceipt
  /\ UNCHANGED <<shop, till, saved, inFlight, orders, attempts, amended, used>>

-------------------------------------------------------------------------------
Carts == {[basket |-> b, at |-> catalogue] : b \in shop.baskets} \union {NoCart}

TerminalNext ==
  \/ \E w \in shop.tabs :
       \/ \E branch \in shop.branches : Open(w, branch) \/ SwitchBranch(w, branch)
       \/ \E cart \in Carts : Edit(w, cart)
       \/ \E terms \in shop.offers : SetTerms(w, terms)
       \/ Confirm(w) \/ TimeOut(w) \/ ShowRefusal(w) \/ ShowReceipt(w)
  \/ \E r \in inFlight : Serve(r)
  \/ Reprice

-------------------------------------------------------------------------------
\* However often a checkout is repeated, retried, reloaded or delivered late, a
\* guest pays once, unless the cashier edits the basket after a checkout was
\* tried or while another tab holds it.
OneSalePerGuest == \A o, p \in orders : o.guest = p.guest => o = p \/ o.guest \in amended

\* The receipt a cashier hands out is for the basket just confirmed; and for its
\* terms, unless the promotion or the points were changed between two tries.
SameTermsAlways(id) == \A a, b \in attempts : a.id = id /\ b.id = id => a.terms = b.terms
ReceiptIsForTheCart ==
  receipt # NoReceipt =>
    /\ receipt.order.guest = receipt.asked.guest
    /\ receipt.order.basket = receipt.asked.cart.basket
    /\ receipt.order.branch = receipt.asked.branch
    /\ SameTermsAlways(receipt.id) => receipt.order.terms = receipt.asked.terms

\* The guest is charged what the screen quoted: to the satang, or no more than a
\* point's worth when points pay for everything; unless prices or terms changed
\* in between, or the promotion is a fixed amount.
Near(charged, quoted) == \/ 100 * charged - quoted \in -50 .. 50
                         \/ charged <= 10 /\ quoted = 0
QuoteIsCharged ==
  receipt # NoReceipt =>
    LET terms == receipt.asked.terms
        cart == receipt.asked.cart
    IN  /\ terms = receipt.order.terms /\ terms.promo # "fixed" /\ cart.at = receipt.order.at
        => Near(Charged(Price[receipt.order.at][receipt.order.basket], receipt.order.terms),
                Quoted(Price[cart.at][cart.basket], terms))
===============================================================================
