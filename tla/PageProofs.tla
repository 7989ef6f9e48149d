------------------------------- MODULE PageProofs -------------------------------
(***************************************************************************)
(* Theorems about the pages in the browser: the count sheet, the point of   *)
(* sale and the kitchen display, for every set of lines, quantities, shops, *)
(* tabs, prices, offers, orders and displays, and every number of edits,    *)
(* retries, refetches and lost events.                                     *)
(***************************************************************************)
EXTENDS Screens, TLAPS

-------------------------------------------------------------------------------
(* The count sheet.                                                        *)

Entries == Quantities \union {Blank}
Counts == [Lines -> Entries]
Sheets == [lines : Counts, status : {"DRAFT", "SUBMITTED", "CANCELLED"}, stock : Nat]
Sendings == UNION {[L -> Entries] : L \in SUBSET Lines}

SheetTypes ==
  /\ blind \in BOOLEAN /\ counted \in Counts /\ drafts \in Counts /\ typed \in Counts
  /\ status \in {"DRAFT", "SUBMITTED", "CANCELLED"} /\ stock \in Nat
  /\ page \in Sheets
  /\ refetch \in {NoRefetch} \union [state : {"asked"}] \union [state : {"answered"}, count : Sheets]
  /\ mutation \in {Resting} \union
       [state : {"save", "saved", "submit", "submitted", "failed"}, submit : BOOLEAN,
        lines : Sendings]

\* Nothing has happened that may lose typing.
Calm == excused \subseteq (IF blind THEN {"sale"} ELSE {})

\* What the server is to hold once the fields are saved.
Target == [l \in Lines |-> IF drafts[l] = Blank THEN page.lines[l] ELSE drafts[l]]

\* Sales stay hidden, or there were none.
StockHidden == page.status = "DRAFT" /\ page.stock = 0 /\ Answer.stock = 0

\* The server holds what the page shows or what the fields make of it, and every
\* step of a save leads from the one to the other.
DraftInv ==
  /\ StockHidden
  /\ \A l \in Lines : typed[l] \in {Blank, Target[l]}
  /\ counted \in {page.lines, Target}
  /\ refetch.state = "answered" => refetch.count \in {page, Answer}
  /\ mutation.state = "save" => Saved(mutation.lines) = Target
  /\ mutation.state \in {"saved", "submit"} => counted = Target

SheetInv == /\ SheetTypes
            /\ Calm /\ ~blind => stock = 0
            /\ Calm => status # "CANCELLED"
            /\ Calm /\ status = "DRAFT" => DraftInv
            /\ Calm /\ status = "SUBMITTED" => \A l \in Lines : typed[l] \in {Blank, counted[l]}

LEMMA SheetInitInv == ASSUME SheetInit PROVE SheetInv
<1>1. SheetTypes
  BY DEF SheetInit, SheetTypes, Answer, NoRefetch, Resting, Counts, Entries, Sheets
<1>2. Calm /\ status = "DRAFT" => DraftInv
  <2>1. Target = counted /\ \A l \in Lines : typed[l] = Target[l]
    BY DEF SheetInit, Target, Answer
  <2> QED BY <2>1 DEF SheetInit, DraftInv, StockHidden, Answer, NoRefetch, Resting
<1> QED BY <1>1, <1>2 DEF SheetInv, SheetInit

\* What happens elsewhere: a hidden sale changes nothing that is shown.
LEMMA SaleKeeps == ASSUME SheetInv, Sale PROVE SheetInv'
<1> USE DEF Sale, Elsewhere
<1>1. SheetTypes'
  BY DEF SheetInv, SheetTypes
<1>2. Calm' => Calm /\ blind
  BY DEF Calm
<1>3. Calm' /\ status' = "DRAFT" => DraftInv'
  <2> SUFFICES ASSUME Calm', status' = "DRAFT" PROVE DraftInv'
    OBVIOUS
  <2>1. DraftInv /\ blind /\ Answer' = Answer
    BY <1>2 DEF SheetInv, Answer
  <2>2. Target' = Target
    BY DEF Target
  <2> QED BY <2>1, <2>2 DEF DraftInv, StockHidden, Saved
<1> QED BY <1>1, <1>2, <1>3 DEF SheetInv

LEMMA EditKeeps ==
  ASSUME SheetInv, NEW l \in Lines, NEW q \in Quantities, EditElsewhere(l, q) PROVE SheetInv'
<1>1. SheetTypes'
  BY DEF SheetInv, SheetTypes, EditElsewhere, Elsewhere, Counts, Entries
<1>2. ~Calm'
  BY DEF Calm, EditElsewhere, Elsewhere
<1> QED BY <1>1, <1>2 DEF SheetInv

LEMMA CancelKeeps == ASSUME SheetInv, CancelElsewhere PROVE SheetInv'
<1>1. SheetTypes'
  BY DEF SheetInv, SheetTypes, CancelElsewhere, Elsewhere
<1>2. ~Calm'
  BY DEF Calm, CancelElsewhere, Elsewhere
<1> QED BY <1>1, <1>2 DEF SheetInv

\* Typing into a page that shows what the server holds.
LEMMA TypeKeeps ==
  ASSUME SheetInv, NEW l \in Lines, NEW q \in Entries, Type(l, q) PROVE SheetInv'
<1> USE DEF Type
<1>1. SheetTypes'
  BY DEF SheetInv, SheetTypes, Counts
<1>2. Calm' => Calm /\ ~Hurried
  BY DEF Calm
<1>3. Calm' /\ status' = "DRAFT" => DraftInv'
  <2> SUFFICES ASSUME Calm', status' = "DRAFT" PROVE DraftInv'
    OBVIOUS
  <2>1. DraftInv /\ Answer' = Answer /\ mutation = Resting /\ counted = page.lines
    BY <1>2 DEF SheetInv, Answer, Hurried
  <2>2. \A k \in Lines : typed'[k] \in {Blank, Target'[k]}
    <3> TAKE k \in Lines
    <3>1. CASE k = l
      BY <3>1 DEF SheetInv, SheetTypes, Counts, Target
    <3>2. CASE k # l
      BY <2>1, <3>2 DEF SheetInv, SheetTypes, Counts, Target, DraftInv
    <3> QED BY <3>1, <3>2
  <2>3. mutation'.state = "none"
    BY <2>1 DEF Resting
  <2>4. (counted \in {page.lines, Target})'
    BY <2>1
  <2>5. StockHidden' /\ (refetch.state = "answered" => refetch.count \in {page, Answer})'
    BY <2>1 DEF DraftInv, StockHidden
  <2> QED BY <2>2, <2>3, <2>4, <2>5 DEF DraftInv
<1>4. Calm' => status' # "SUBMITTED"
  BY <1>2 DEF Hurried, Type
<1> QED BY <1>1, <1>2, <1>3, <1>4 DEF SheetInv

\* Steps that only ask for the count again, or answer it.
LEMMA AskKeeps ==
  ASSUME SheetInv, UNCHANGED <<blind, counted, status, stock, page, drafts, typed, excused>>,
         SheetTypes',
         refetch'.state = "answered" => \/ refetch' = refetch
                                        \/ refetch'.count = Answer,
         mutation'.state = "save" => \/ mutation' = mutation
                                     \/ Calm /\ status = "DRAFT" => Saved(mutation'.lines) = Target,
         mutation'.state \in {"saved", "submit"} =>
            \/ mutation.state \in {"saved", "submit"}
            \/ Calm /\ status = "DRAFT" => counted = Target
  PROVE  SheetInv'
<1>1. Calm' = Calm /\ Target' = Target /\ Answer' = Answer /\ (StockHidden => StockHidden')
  BY DEF Calm, Target, Answer, StockHidden
<1>2. Calm /\ status = "DRAFT" => DraftInv'
  <2> SUFFICES ASSUME Calm, status = "DRAFT" PROVE DraftInv'
    OBVIOUS
  <2>1. DraftInv
    BY DEF SheetInv
  <2>2. (mutation.state = "save" => Saved(mutation.lines) = Target)'
    BY <1>1, <2>1 DEF DraftInv, Saved
  <2>3. (refetch.state = "answered" => refetch.count \in {page, Answer})'
    BY <1>1, <2>1 DEF DraftInv
  <2>4. (mutation.state \in {"saved", "submit"} => counted = Target)'
    BY <1>1, <2>1 DEF DraftInv
  <2> QED BY <1>1, <2>1, <2>2, <2>3, <2>4 DEF DraftInv
<1> QED BY <1>1, <1>2 DEF SheetInv

LEMMA RefetchKeeps == ASSUME SheetInv, Refetch \/ AnswerRefetch PROVE SheetInv'
<1>1. Answer \in Sheets
  BY DEF SheetInv, SheetTypes, Answer, Sheets
<1>2. SheetTypes'
  BY <1>1 DEF SheetInv, SheetTypes, Refetch, AnswerRefetch, AskAgain
<1>3. CASE Refetch
  BY <1>2, <1>3, AskKeeps DEF Refetch, AskAgain
<1>4. CASE AnswerRefetch
  BY <1>2, <1>4, AskKeeps DEF AnswerRefetch
<1> QED BY <1>3, <1>4

\* What lands is what the page showed already, or what the fields came to.
LEMMA LandKeeps == ASSUME SheetInv, Land PROVE SheetInv'
<1> USE DEF Land
<1>1. refetch.count \in Sheets
  BY DEF SheetInv, SheetTypes, NoRefetch
<1>2. SheetTypes'
  <2>1. drafts' \in Counts
    BY <1>1 DEF SheetInv, SheetTypes, DraftsAfter, Sheets
  <2> QED BY <1>1, <2>1 DEF SheetInv, SheetTypes
<1>3. Calm' = Calm
  BY DEF Calm
<1>4. Calm /\ status = "DRAFT" => DraftInv'
  <2> SUFFICES ASSUME Calm, status = "DRAFT" PROVE DraftInv'
    OBVIOUS
  <2>1. DraftInv
    BY DEF SheetInv
  <2>2. refetch'.state = "idle"
    BY DEF NoRefetch
  <2>3. CASE refetch.count = page
    <3>1. page' = page /\ drafts' = drafts /\ Target' = Target /\ Answer' = Answer
      BY <2>3 DEF DraftsAfter, Target, Answer
    <3> QED BY <2>1, <2>2, <3>1 DEF DraftInv, StockHidden, Saved
  <2>4. CASE refetch.count # page
    <3>1. page' = Answer /\ Answer' = Answer /\ drafts' = counted /\ page.status = "DRAFT"
          /\ page.stock = 0 /\ Answer.stock = 0
      BY <2>1, <2>4 DEF DraftInv, DraftsAfter, Answer, StockHidden
    <3>2. counted # page.lines
      <4>1. page = [lines |-> page.lines, status |-> page.status, stock |-> page.stock]
        BY DEF SheetInv, SheetTypes, Sheets
      <4>2. refetch.count = Answer
        BY <2>1, <2>4 DEF DraftInv
      <4> QED BY <2>4, <3>1, <4>1, <4>2 DEF Answer
    <3>3. Target = counted
      BY <2>1, <3>2 DEF DraftInv
    <3>4. page'.lines = counted /\ page'.status = "DRAFT" /\ page'.stock = 0
      BY <3>1 DEF Answer
    <3>5. Target' = counted
      <4>1. \A l \in Lines : (IF drafts'[l] = Blank THEN page'.lines[l] ELSE drafts'[l]) = counted[l]
        BY <3>1, <3>4
      <4> QED BY <4>1 DEF Target, SheetInv, SheetTypes, Counts
    <3>6. StockHidden'
      BY <3>1, <3>4 DEF StockHidden
    <3>7. (mutation.state = "save" => Saved(mutation.lines) = Target)'
      BY <2>1, <3>3, <3>5 DEF DraftInv, Saved
    <3> QED BY <2>1, <2>2, <3>3, <3>4, <3>5, <3>6, <3>7 DEF DraftInv
  <2> QED BY <2>3, <2>4
<1> QED BY <1>2, <1>3, <1>4 DEF SheetInv

\* What is sent makes the fields of what the server holds.
LEMMA SavedIsTarget ==
  ASSUME SheetTypes, counted \in {page.lines, Target}
  PROVE  /\ Saved([l \in Dirty |-> drafts[l]]) = Target
         /\ Dirty = {} => counted = Target
<1>1. page.lines \in Counts /\ drafts \in Counts
  BY DEF SheetTypes, Sheets
<1>2. \A l \in Lines : (IF l \in Dirty THEN drafts[l] ELSE counted[l])
                         = IF drafts[l] = Blank THEN page.lines[l] ELSE drafts[l]
  BY DEF Dirty, Target
<1>3. Saved([l \in Dirty |-> drafts[l]]) = [l \in Lines |-> IF l \in Dirty THEN drafts[l] ELSE counted[l]]
  BY DEF Saved
<1>4. Saved([l \in Dirty |-> drafts[l]]) = Target
  BY <1>2, <1>3 DEF Target
<1>5. ASSUME Dirty = {} PROVE counted = Target
  <2>1. Target = page.lines
    BY <1>1, <1>5 DEF Dirty, Target, Counts
  <2> QED BY <2>1
<1> QED BY <1>4, <1>5

LEMMA SendKeeps == ASSUME SheetInv, Save \/ Submit PROVE SheetInv'
<1>1. [l \in Dirty |-> drafts[l]] \in Sendings
  <2>1. Dirty \in SUBSET Lines
    BY DEF Dirty
  <2>2. [l \in Dirty |-> drafts[l]] \in [Dirty -> Entries]
    BY <2>1 DEF SheetInv, SheetTypes, Counts
  <2> QED BY <2>1, <2>2 DEF Sendings
<1>2. PICK state \in {"save", "submit"}, submit \in BOOLEAN :
        /\ mutation' = [state |-> state, submit |-> submit, lines |-> [l \in Dirty |-> drafts[l]]]
        /\ state = "submit" => Dirty = {}
  BY DEF Save, Submit, Send
<1>3. SheetTypes'
  <2>1. mutation' \in [state : {"save", "saved", "submit", "submitted", "failed"}, submit : BOOLEAN,
                       lines : Sendings]
    BY <1>1, <1>2
  <2> QED BY <2>1 DEF SheetInv, SheetTypes, Save, Submit
<1>4. Calm /\ status = "DRAFT" =>
        /\ Saved([l \in Dirty |-> drafts[l]]) = Target
        /\ Dirty = {} => counted = Target
  BY SavedIsTarget DEF SheetInv, DraftInv
<1>5. UNCHANGED <<blind, counted, status, stock, page, drafts, typed, excused, refetch>>
  BY DEF Save, Submit
<1> QED BY <1>2, <1>3, <1>4, <1>5, AskKeeps

\* The server takes what was sent.
LEMMA ServeSaveKeeps == ASSUME SheetInv, ServeSave PROVE SheetInv'
<1> USE DEF ServeSave
<1>1. mutation \in [state : {"save", "saved", "submit", "submitted", "failed"}, submit : BOOLEAN,
                    lines : Sendings]
  BY DEF SheetInv, SheetTypes, Resting
<1>2. Saved(mutation.lines) \in Counts
  BY <1>1 DEF SheetInv, SheetTypes, Sendings, Saved, Counts
<1>3. SheetTypes'
  BY <1>1, <1>2 DEF SheetInv, SheetTypes
<1>4. CASE status = "DRAFT"
  <2>1. counted' = Saved(mutation.lines) /\ mutation'.state = "saved"
    BY <1>1, <1>4
  <2>2. Calm => DraftInv'
    <3> SUFFICES ASSUME Calm PROVE DraftInv'
      OBVIOUS
    <3>1. DraftInv
      BY <1>4 DEF SheetInv
    <3>2. Target' = Target /\ counted' = Target
      BY <2>1, <3>1 DEF DraftInv, Target
    <3>3. StockHidden'
      BY <3>1 DEF DraftInv, StockHidden, Answer
    <3>4. (refetch.state = "answered" => refetch.count \in {page, Answer})'
      <4>1. CASE counted = Target
        <5>1. Answer' = Answer
          BY <3>2, <4>1 DEF Answer
        <5> QED BY <3>1, <5>1 DEF DraftInv
      <4>2. CASE counted = page.lines
        <5>1. Answer = [lines |-> page.lines, status |-> "DRAFT", stock |-> 0]
          BY <1>4, <3>1, <4>2 DEF DraftInv, StockHidden, Answer
        <5>2. page = [lines |-> page.lines, status |-> page.status, stock |-> page.stock]
          BY DEF SheetInv, SheetTypes, Sheets
        <5>3. page = Answer
          BY <3>1, <5>1, <5>2 DEF DraftInv, StockHidden
        <5> QED BY <3>1, <5>3 DEF DraftInv
      <4> QED BY <3>1, <4>1, <4>2 DEF DraftInv
    <3> QED BY <2>1, <3>1, <3>2, <3>3, <3>4 DEF DraftInv
  <2>3. Calm' = Calm
    BY DEF Calm
  <2> QED BY <1>3, <1>4, <2>2, <2>3 DEF SheetInv
<1>5. CASE status # "DRAFT"
  <2>1. mutation'.state = "failed" /\ counted' = counted
    BY <1>1, <1>5
  <2> QED BY <1>3, <2>1, AskKeeps
<1> QED BY <1>4, <1>5

\* A count is submitted once the server holds what the fields come to.
LEMMA ServeSubmitKeeps == ASSUME SheetInv, ServeSubmit PROVE SheetInv'
<1> USE DEF ServeSubmit
<1>1. mutation \in [state : {"save", "saved", "submit", "submitted", "failed"}, submit : BOOLEAN,
                    lines : Sendings]
  BY DEF SheetInv, SheetTypes, Resting
<1>2. SheetTypes'
  BY <1>1 DEF SheetInv, SheetTypes
<1>3. CASE status = "DRAFT" /\ status' = "SUBMITTED"
  <2>1. Calm' = Calm
    BY DEF Calm
  <2>2. Calm => \A l \in Lines : typed[l] \in {Blank, counted[l]}
    BY <1>3 DEF SheetInv, DraftInv
  <2> QED BY <1>2, <1>3, <2>1, <2>2 DEF SheetInv
<1>4. CASE status' = status
  <2>1. mutation'.state \in {"failed", "submitted"}
    BY <1>1
  <2> QED BY <1>2, <1>4, <2>1, AskKeeps
<1> QED BY <1>3, <1>4

LEMMA AnswersKeep == ASSUME SheetInv, LoseAnswer \/ Settle PROVE SheetInv'
<1>1. mutation \in [state : {"save", "saved", "submit", "submitted", "failed"}, submit : BOOLEAN,
                    lines : Sendings]
  BY DEF SheetInv, SheetTypes, Resting, LoseAnswer, Settle
<1>2. SheetTypes'
  BY <1>1 DEF SheetInv, SheetTypes, LoseAnswer, Settle, AskAgain
<1>3. mutation'.state # "save" /\ (mutation'.state \in {"saved", "submit"} => mutation.state = "saved")
  BY <1>1 DEF LoseAnswer, Settle, Resting
<1>4. refetch'.state = "answered" => refetch' = refetch
  BY DEF LoseAnswer, Settle, AskAgain
<1>5. UNCHANGED <<blind, counted, status, stock, page, drafts, typed, excused>>
  BY DEF LoseAnswer, Settle
<1> QED BY <1>2, <1>3, <1>4, <1>5, AskKeeps

LEMMA SheetStepKeeps == ASSUME SheetInv, SheetNext PROVE SheetInv'
<1>1. CASE Sale \/ CancelElsewhere
  BY <1>1, SaleKeeps, CancelKeeps
<1>2. CASE \E l \in Lines, q \in Quantities : EditElsewhere(l, q)
  BY <1>2, EditKeeps
<1>3. CASE \E l \in Lines, q \in Quantities \union {Blank} : Type(l, q)
  BY <1>3, TypeKeeps DEF Entries
<1>4. CASE Refetch \/ AnswerRefetch \/ Land
  BY <1>4, RefetchKeeps, LandKeeps
<1>5. CASE Save \/ Submit \/ ServeSave \/ ServeSubmit
  BY <1>5, SendKeeps, ServeSaveKeeps, ServeSubmitKeeps
<1>6. CASE LoseAnswer \/ Settle
  BY <1>6, AnswersKeep
<1> QED BY <1>1, <1>2, <1>3, <1>4, <1>5, <1>6 DEF SheetNext

\* A submitted count holds what was last typed into each field that was not left
\* empty, whatever refetches, lost answers and repeated saves came between: the
\* effect on [count] of the stocktake page resets the drafts only to what they
\* came to.
THEOREM CountAsTypedHolds == Spec => []CountAsTyped
<1>1. Init => SheetInv
  BY SheetInitInv DEF Init
<1>2. SheetInv /\ [Next]_screensVars => SheetInv'
  <2> SUFFICES ASSUME SheetInv, [Next]_screensVars PROVE SheetInv'
    OBVIOUS
  <2>1. CASE SheetNext
    BY <2>1, SheetStepKeeps
  <2>2. CASE UNCHANGED sheetVars
    <3>1. SheetTypes'
      BY <2>2 DEF SheetInv, SheetTypes, sheetVars
    <3> QED BY <2>2, <3>1, AskKeeps DEF sheetVars
  <2> QED BY <2>1, <2>2 DEF Next, screensVars
<1>3. SheetInv => CountAsTyped
  BY DEF SheetInv, CountAsTyped, Calm
<1> QED BY <1>1, <1>2, <1>3, PTL DEF Spec

-------------------------------------------------------------------------------
(* The point of sale.                                                      *)

Branches == UNION {s.branches : s \in Shops}
Offers == (UNION {s.offers : s \in Shops}) \union {NoTerms}
FullCarts == [basket : UNION {s.baskets : s \in Shops}, at : 1 .. 2]
Requests == [tab : Tabs, id : Nat, guest : Nat, branch : Branches \union {"nowhere"}, cart : FullCarts,
             terms : Offers]
Tills == [branch : Branches \union {"nowhere"}, cart : FullCarts \union {NoCart}, terms : Offers, id : Nat,
          guest : Nat, request : {NoRequest} \union Requests, tries : Nat,
          answer : {"none", "order", "refused"}]
Saves == [branch : Branches \union {"nowhere"}, cart : FullCarts, terms : Offers, id : Nat, guest : Nat]
Sales == [id : Nat, guest : Nat, branch : Branches \union {"nowhere"},
          basket : UNION {s.baskets : s \in Shops}, terms : Offers, at : 1 .. 2]

TillTypes ==
  /\ shop \in Shops
  /\ till \in [Tabs -> Tills]
  /\ saved \in {NotSaved} \union Saves
  /\ inFlight \in SUBSET Requests
  /\ orders \in SUBSET Sales
  /\ catalogue \in 1 .. 2
  /\ attempts \in SUBSET [id : Nat, guest : Nat, terms : Offers]
  /\ used \in [ids : Nat, opens : Nat, terms : Nat, guests : Nat]

\* What an id stands for, wherever it is kept: on a screen, in the browser's
\* storage, in a request or on the server.
Named(id, guest, branch, basket) ==
  [id |-> id, guest |-> guest, branch |-> branch, basket |-> basket]
CartName(h) == Named(h.id, h.guest, h.branch, h.cart.basket)
OrderName(o) == Named(o.id, o.guest, o.branch, o.basket)

ScreenNames == {CartName(till[w]) : w \in {v \in Tabs : till[v].cart # NoCart}}
SavedNames == IF saved = NotSaved THEN {} ELSE {CartName(saved)}
Asked == inFlight \union ({till[w].request : w \in Tabs} \ {NoRequest})
Names == ScreenNames \union SavedNames \union {CartName(r) : r \in Asked} \union {OrderName(o) : o \in orders}

NameInv == /\ \A n \in Names : n.id \in 1 .. used.ids /\ n.guest \in 1 .. used.guests
           /\ \A m, n \in Names : m.id = n.id => m = n

\* Who may pay for what: the carts still to be confirmed and the checkouts
\* confirmed of one guest have one id, unless the basket was amended.
Claims == {[id |-> n.id, guest |-> n.guest] : n \in ScreenNames \union SavedNames \union attempts}
ClaimInv == /\ \A c \in Claims : c.id \in 1 .. used.ids /\ c.guest \in 1 .. used.guests
            /\ \A c, d \in Claims : c.guest = d.guest => c.id = d.id \/ c.guest \in amended

\* Everything the server has or will get was confirmed by a cashier.
AttemptOf(r) == [id |-> r.id, guest |-> r.guest, terms |-> r.terms]
OrderInv == /\ \A r \in Asked \union orders : AttemptOf(r) \in attempts
            /\ \A o, p \in orders : o.id = p.id => o = p

PromiseInv == \A w \in Tabs :
  till[w].answer = "order" =>
    till[w].request # NoRequest /\ \E o \in orders : o.id = till[w].request.id

\* The receipt pairs a request with the order of its id.
ReceiptInv == receipt # NoReceipt =>
                /\ receipt.asked \in Requests /\ receipt.order \in orders
                /\ receipt.id = receipt.asked.id
                /\ CartName(receipt.asked) = OrderName(receipt.order)
                /\ AttemptOf(receipt.asked) \in attempts

TillInv == TillTypes /\ NameInv /\ ClaimInv /\ OrderInv /\ PromiseInv /\ ReceiptInv

LEMMA TillInitInv == ASSUME TerminalInit PROVE TillInv
<1> USE DEF TerminalInit
<1>1. TillTypes
  <2>1. Closed \in Tills
    BY DEF Closed, Tills, Offers
  <2> QED BY <2>1 DEF TillTypes
<1>2. \A w \in Tabs : till[w] = Closed
  OBVIOUS
<1>3. ScreenNames = {}
  BY <1>2 DEF ScreenNames, Closed
<1>4. SavedNames = {}
  BY DEF SavedNames
<1>5. Asked = {}
  BY <1>2 DEF Asked, Closed
<1>6. NameInv
  BY <1>3, <1>4, <1>5 DEF NameInv, Names
<1>7. ClaimInv
  BY <1>3, <1>4 DEF ClaimInv, Claims
<1>8. OrderInv
  BY <1>5 DEF OrderInv
<1>9. PromiseInv
  BY <1>2 DEF PromiseInv, Closed
<1> QED BY <1>1, <1>6, <1>7, <1>8, <1>9 DEF TillInv, ReceiptInv

LEMMA FewerNames ==
  ASSUME NameInv, used.ids \in Nat, used.guests \in Nat, used'.ids \in Nat, used'.guests \in Nat,
         Names' \subseteq Names, used.ids <= used'.ids, used.guests <= used'.guests
  PROVE  NameInv'
<1>1. \A n \in Names' : n.id \in 1 .. used'.ids /\ n.guest \in 1 .. used'.guests
  BY DEF NameInv
<1> QED BY <1>1 DEF NameInv

LEMMA FewerClaims ==
  ASSUME ClaimInv, used.ids \in Nat, used.guests \in Nat, used'.ids \in Nat, used'.guests \in Nat,
         Claims' \subseteq Claims, used.ids <= used'.ids, used.guests <= used'.guests,
         amended \subseteq amended'
  PROVE  ClaimInv'
<1>1. \A c \in Claims' : c.id \in 1 .. used'.ids /\ c.guest \in 1 .. used'.guests
  BY DEF ClaimInv
<1> QED BY <1>1 DEF ClaimInv

NamesOf(s) == IF s.cart = NoCart THEN {} ELSE {CartName(s)}
OtherNames(w) == {CartName(till[v]) : v \in {u \in Tabs \ {w} : till[u].cart # NoCart}}

\* What a tab shows after Show, and what is saved with it.
LEMMA AfterShow ==
  ASSUME TillTypes, NEW w \in Tabs, NEW s \in Tills, Show(w, s)
  PROVE  /\ till' \in [Tabs -> Tills] /\ saved' \in {NotSaved} \union Saves
         /\ till'[w] = s /\ \A v \in Tabs \ {w} : till'[v] = till[v]
         /\ ScreenNames' \union SavedNames' \subseteq OtherNames(w) \union NamesOf(s)
<1> USE DEF OtherNames, NamesOf
<1>1. till' = [till EXCEPT ![w] = s] /\ till \in [Tabs -> Tills]
  BY DEF Show, TillTypes
<1>2. till'[w] = s /\ (\A v \in Tabs \ {w} : till'[v] = till[v]) /\ till' \in [Tabs -> Tills]
  BY <1>1
<1>3. CASE s.cart = NoCart
  <2>1. saved' = NotSaved
    BY <1>3 DEF Show, SaveOf
  <2> QED BY <1>2, <1>3, <2>1 DEF ScreenNames, SavedNames
<1>4. CASE s.cart # NoCart
  <2>1. saved' = [branch |-> s.branch, cart |-> s.cart, terms |-> s.terms, id |-> s.id,
                  guest |-> s.guest]
    BY <1>4 DEF Show, SaveOf
  <2>2. saved' \in Saves
    BY <1>4, <2>1 DEF Saves, Tills
  <2>3. SavedNames' \subseteq {CartName(s)}
    BY <2>1 DEF SavedNames, CartName
  <2> QED BY <1>2, <1>4, <2>2, <2>3 DEF ScreenNames
<1> QED BY <1>2, <1>3, <1>4

\* A tab shows a cart that was on a screen or saved, or none.
LEMMA ShowKeeps ==
  ASSUME TillInv, NEW w \in Tabs, NEW s \in Tills, Show(w, s),
         s.cart # NoCart => CartName(s) \in ScreenNames \union SavedNames,
         \/ s.request = till[w].request /\ s.answer = till[w].answer
         \/ s.request = NoRequest /\ s.answer = "none",
         used' \in [ids : Nat, opens : Nat, terms : Nat, guests : Nat],
         used'.ids = used.ids, used'.guests = used.guests,
         UNCHANGED <<shop, inFlight, orders, catalogue, attempts, amended>>
  PROVE  TillTypes' /\ NameInv' /\ ClaimInv' /\ OrderInv' /\ PromiseInv'
<1>1. TillTypes /\ used.ids \in Nat /\ used.guests \in Nat
  BY DEF TillInv, TillTypes
<1>2. /\ till' \in [Tabs -> Tills] /\ saved' \in {NotSaved} \union Saves
      /\ till'[w] = s /\ \A v \in Tabs \ {w} : till'[v] = till[v]
      /\ ScreenNames' \union SavedNames' \subseteq OtherNames(w) \union NamesOf(s)
  BY <1>1, AfterShow
<1>3. TillTypes'
  BY <1>1, <1>2 DEF TillTypes
<1>4. Asked' \subseteq Asked
  BY <1>2 DEF Asked
<1>5. ScreenNames' \union SavedNames' \subseteq ScreenNames \union SavedNames
  <2>1. OtherNames(w) \subseteq ScreenNames
    BY DEF ScreenNames, OtherNames
  <2>2. NamesOf(s) \subseteq ScreenNames \union SavedNames
    BY DEF NamesOf
  <2> QED BY <1>2, <2>1, <2>2
<1>6. Names' \subseteq Names
  BY <1>4, <1>5 DEF Names
<1>7. Claims' \subseteq Claims
  BY <1>5 DEF Claims
<1>8. NameInv' /\ ClaimInv'
  BY <1>1, <1>6, <1>7, FewerNames, FewerClaims DEF TillInv
<1>9. OrderInv'
  BY <1>4 DEF OrderInv, TillInv, AttemptOf
<1>10. PromiseInv'
  BY <1>2 DEF PromiseInv, TillInv
<1> QED BY <1>3, <1>8, <1>9, <1>10

\* A tab that loads takes over the saved cart of its branch, name and all.
LEMMA HydratedCart ==
  ASSUME TillTypes, NEW s \in Tills, NEW branch \in Branches, branch # "nowhere", NEW old \in BOOLEAN
  PROVE  /\ Hydrated(s, branch, old) \in Tills
         /\ Hydrated(s, branch, old).cart # NoCart =>
              CartName(Hydrated(s, branch, old)) \in ScreenNames \union SavedNames
         /\ Hydrated(s, branch, old).request = s.request /\ Hydrated(s, branch, old).answer = s.answer
<1>1. CASE saved.branch = branch /\ ~old
  <2>1. saved # NotSaved /\ saved \in Saves
    BY <1>1 DEF NotSaved, TillTypes
  <2>2. PICK h : h = [s EXCEPT !.branch = branch, !.cart = saved.cart, !.terms = saved.terms,
                               !.id = saved.id, !.guest = saved.guest]
    OBVIOUS
  <2>3. Hydrated(s, branch, old) = h
    BY <1>1, <2>2 DEF Hydrated
  <2>4. h \in Tills /\ h.request = s.request /\ h.answer = s.answer
    BY <2>1, <2>2 DEF Tills, Saves
  <2>5. h.id = saved.id /\ h.guest = saved.guest /\ h.branch = saved.branch /\ h.cart = saved.cart
    BY <1>1, <2>2 DEF Tills
  <2>6. CartName(h) \in SavedNames
    BY <2>1, <2>5 DEF SavedNames, CartName
  <2> QED BY <2>3, <2>4, <2>6
<1>2. CASE ~(saved.branch = branch /\ ~old)
  <2>1. PICK h : h = [s EXCEPT !.branch = branch, !.cart = NoCart, !.terms = NoTerms, !.guest = 0]
    OBVIOUS
  <2>2. Hydrated(s, branch, old) = h
    BY <1>2, <2>1 DEF Hydrated
  <2>3. h \in Tills /\ h.request = s.request /\ h.answer = s.answer /\ h.cart = NoCart
    BY <2>1 DEF Tills, Offers
  <2> QED BY <2>2, <2>3
<1> QED BY <1>1, <1>2

LEMMA OpenKeeps ==
  ASSUME TillInv, NEW w \in shop.tabs, NEW branch \in shop.branches,
         Open(w, branch) \/ SwitchBranch(w, branch)
  PROVE  TillInv'
<1>1. TillTypes /\ w \in Tabs /\ branch \in Branches /\ branch # "nowhere"
  BY ShopsAssumption DEF TillInv, TillTypes, Tabs, Branches
<1>2. Closed \in Tills /\ Closed.request = NoRequest /\ Closed.answer = "none" /\ till[w] \in Tills
  BY <1>1 DEF Closed, Tills, Offers, TillTypes
<1>3. PICK s \in Tills, old \in BOOLEAN : /\ s = Closed \/ s = till[w]
                                         /\ Show(w, Hydrated(s, branch, old))
  BY <1>2 DEF Open, SwitchBranch
<1>4. PICK h : h = Hydrated(s, branch, old)
  OBVIOUS
<1>5. /\ h \in Tills
      /\ h.cart # NoCart => CartName(h) \in ScreenNames \union SavedNames
      /\ h.request = s.request /\ h.answer = s.answer
  BY <1>1, <1>4, HydratedCart
<1>6. \/ h.request = till[w].request /\ h.answer = till[w].answer
      \/ h.request = NoRequest /\ h.answer = "none"
  BY <1>2, <1>3, <1>5
<1>7. /\ used' \in [ids : Nat, opens : Nat, terms : Nat, guests : Nat]
      /\ used'.ids = used.ids /\ used'.guests = used.guests
  BY <1>1 DEF Open, SwitchBranch, OneMoreTab, TillTypes
<1>8. /\ UNCHANGED <<shop, inFlight, orders, catalogue, attempts, amended>> /\ receipt' = NoReceipt
      /\ Show(w, h)
  BY <1>3, <1>4 DEF Open, SwitchBranch
<1>9. TillTypes' /\ NameInv' /\ ClaimInv' /\ OrderInv' /\ PromiseInv'
  BY <1>1, <1>5, <1>6, <1>7, <1>8, ShowKeeps
<1> QED BY <1>8, <1>9 DEF TillInv, ReceiptInv

LEMMA SetTermsKeeps ==
  ASSUME TillInv, NEW w \in shop.tabs, NEW terms \in shop.offers, SetTerms(w, terms)
  PROVE  TillInv'
<1>1. TillTypes /\ w \in Tabs /\ terms \in Offers /\ till[w] \in Tills
  BY DEF TillInv, TillTypes, Tabs, Offers
<1>2. PICK h : h = [till[w] EXCEPT !.terms = terms]
  OBVIOUS
<1>3. h \in Tills /\ h.request = till[w].request /\ h.answer = till[w].answer
  BY <1>1, <1>2 DEF Tills
<1>4. h.id = till[w].id /\ h.guest = till[w].guest /\ h.branch = till[w].branch /\ h.cart = till[w].cart
  BY <1>1, <1>2 DEF Tills
<1>5. h.cart # NoCart => CartName(h) \in ScreenNames \union SavedNames
  BY <1>1, <1>4 DEF CartName, ScreenNames
<1>6. /\ used' \in [ids : Nat, opens : Nat, terms : Nat, guests : Nat]
      /\ used'.ids = used.ids /\ used'.guests = used.guests
  BY <1>1 DEF SetTerms, TillTypes
<1>7. /\ UNCHANGED <<shop, inFlight, orders, catalogue, attempts, amended>> /\ receipt' = NoReceipt
      /\ Show(w, h)
  BY <1>2 DEF SetTerms
<1>8. TillTypes' /\ NameInv' /\ ClaimInv' /\ OrderInv' /\ PromiseInv'
  BY <1>1, <1>3, <1>5, <1>6, <1>7, ShowKeeps
<1> QED BY <1>7, <1>8 DEF TillInv, ReceiptInv

LEMMA ShowReceiptKeeps ==
  ASSUME TillInv, NEW w \in shop.tabs, ShowReceipt(w)
  PROVE  TillInv'
<1>1. TillTypes /\ w \in Tabs /\ till[w] \in Tills
  BY DEF TillInv, TillTypes, Tabs
<1>2. PICK h : h = [Closed EXCEPT !.branch = till[w].branch]
  OBVIOUS
<1>3. h \in Tills /\ h.request = NoRequest /\ h.answer = "none" /\ h.cart = NoCart
  BY <1>1, <1>2 DEF Tills, Closed, Offers
<1>4. /\ UNCHANGED <<shop, inFlight, orders, catalogue, attempts, amended, used>>
      /\ Show(w, h)
  BY <1>2 DEF ShowReceipt
<1>5. used' \in [ids : Nat, opens : Nat, terms : Nat, guests : Nat]
  BY <1>1, <1>4 DEF TillTypes
<1>6. TillTypes' /\ NameInv' /\ ClaimInv' /\ OrderInv' /\ PromiseInv'
  BY <1>1, <1>3, <1>4, <1>5, ShowKeeps
<1>7. PICK r : r = till[w].request
  OBVIOUS
<1>8. r \in Requests /\ r \in Asked /\ \E o \in orders : o.id = r.id
  BY <1>1, <1>7 DEF ShowReceipt, TillInv, PromiseInv, Tills, Asked
<1>9. PICK o : o = CHOOSE x \in orders : x.id = r.id
  OBVIOUS
<1>10. o \in orders /\ o.id = r.id
  BY <1>8, <1>9
<1>11. receipt' = [id |-> r.id, asked |-> r, order |-> o]
  BY <1>7, <1>9 DEF ShowReceipt
<1>12. CartName(r) = OrderName(o)
  <2>1. CartName(r) \in Names /\ OrderName(o) \in Names
    BY <1>8, <1>10 DEF Names
  <2>2. CartName(r).id = OrderName(o).id
    BY <1>10 DEF CartName, OrderName, Named
  <2> QED BY <2>1, <2>2 DEF TillInv, NameInv
<1>13. AttemptOf(r) \in attempts
  BY <1>8 DEF TillInv, OrderInv
<1>14. ReceiptInv'
  BY <1>4, <1>8, <1>10, <1>11, <1>12, <1>13 DEF ReceiptInv
<1> QED BY <1>6, <1>14 DEF TillInv

\* An edit names a new sale.  Its guest is new, or a guest no other tab serves
\* and who has not checked out, or is noted as amended.
LEMMA EditCartKeeps ==
  ASSUME TillInv, NEW w \in shop.tabs, NEW cart \in Carts, Edit(w, cart)
  PROVE  TillInv'
<1>1. TillTypes /\ w \in Tabs /\ till[w] \in Tills /\ cart \in FullCarts \union {NoCart}
  BY DEF TillInv, TillTypes, Tabs, Carts, FullCarts
<1>2. PICK guest : guest = IF till[w].cart = NoCart THEN used.guests + 1 ELSE till[w].guest
  OBVIOUS
<1>3. PICK h : h = [till[w] EXCEPT !.cart = cart, !.id = used.ids + 1,
                                  !.guest = IF cart = NoCart THEN 0 ELSE guest]
  OBVIOUS
<1>4. /\ used' = [used EXCEPT !.ids = @ + 1,
                             !.guests = IF till[w].cart = NoCart THEN @ + 1 ELSE @]
      /\ Show(w, h) /\ UNCHANGED <<shop, inFlight, orders, catalogue, attempts>>
      /\ receipt' = NoReceipt
      /\ amended' = IF (\E a \in attempts : a.guest = guest)
                         \/ (\E v \in Tabs \ {w} : till[v].guest = guest)
                    THEN amended \union {guest} ELSE amended
  BY <1>2, <1>3 DEF Edit, FreshId
<1>5. used.ids \in Nat /\ used.guests \in Nat
  BY <1>1 DEF TillTypes
<1>6. /\ used'.ids = used.ids + 1 /\ used.guests <= used'.guests /\ used'.guests \in Nat
      /\ used' \in [ids : Nat, opens : Nat, terms : Nat, guests : Nat]
      /\ till[w].cart = NoCart => used'.guests = used.guests + 1
  <2>1. used \in [ids : Nat, opens : Nat, terms : Nat, guests : Nat]
    BY <1>1 DEF TillTypes
  <2>2. PICK more \in Nat : /\ more = IF till[w].cart = NoCart THEN used.guests + 1 ELSE used.guests
                           /\ used.guests <= more
    BY <1>5
  <2>3. PICK next \in Nat : next = used.ids + 1
    BY <1>5
  <2>4. PICK u : u = [used EXCEPT !.ids = next, !.guests = more]
    OBVIOUS
  <2>6. used' = u
    BY <1>4, <2>2, <2>3, <2>4
  <2>7. u.ids = next /\ u.guests = more /\ u \in [ids : Nat, opens : Nat, terms : Nat, guests : Nat]
    BY <2>1, <2>4
  <2>5. till[w].cart = NoCart => more = used.guests + 1
    BY <2>2
  <2> QED BY <2>2, <2>3, <2>5, <2>6, <2>7
<1>7. guest \in Nat /\ guest \in 1 .. used'.guests
  <2>1. CASE till[w].cart = NoCart
    BY <1>2, <1>5, <1>6, <2>1
  <2>2. CASE till[w].cart # NoCart
    <3>1. CartName(till[w]) \in Names
      BY <1>1, <2>2 DEF Names, ScreenNames
    <3>2. till[w].guest \in 1 .. used.guests
      BY <3>1 DEF TillInv, NameInv, CartName, Named
    <3> QED BY <1>2, <1>5, <1>6, <2>2, <3>2
  <2> QED BY <2>1, <2>2
<1>8. /\ h \in Tills /\ h.cart = cart /\ h.id = used.ids + 1 /\ h.branch = till[w].branch
      /\ cart # NoCart => h.guest = guest
      /\ h.request = till[w].request /\ h.answer = till[w].answer
  <2>1. PICK whose \in Nat : whose = IF cart = NoCart THEN 0 ELSE guest
    BY <1>7
  <2>2. h = [till[w] EXCEPT !.cart = cart, !.id = used.ids + 1, !.guest = whose]
    BY <1>3, <2>1
  <2>3. used.ids + 1 \in Nat
    BY <1>5
  <2>4. h \in Tills /\ h.cart = cart /\ h.id = used.ids + 1 /\ h.guest = whose
        /\ h.branch = till[w].branch /\ h.request = till[w].request /\ h.answer = till[w].answer
    BY <1>1, <2>1, <2>2, <2>3 DEF Tills
  <2> QED BY <2>1, <2>4
<1>9. /\ till' \in [Tabs -> Tills] /\ saved' \in {NotSaved} \union Saves
      /\ till'[w] = h /\ \A v \in Tabs \ {w} : till'[v] = till[v]
      /\ ScreenNames' \union SavedNames' \subseteq OtherNames(w) \union NamesOf(h)
  BY <1>1, <1>4, <1>8, AfterShow
<1>10. TillTypes'
  BY <1>1, <1>4, <1>6, <1>9 DEF TillTypes
<1>11. Asked' \subseteq Asked
  BY <1>4, <1>8, <1>9 DEF Asked
<1>12. OtherNames(w) \subseteq ScreenNames
  BY DEF OtherNames, ScreenNames
<1>13. NamesOf(h) \subseteq {CartName(h)}
  BY DEF NamesOf
<1>14. NamesOf(h) # {} => CartName(h).id = used.ids + 1 /\ CartName(h).guest = guest
  BY <1>8 DEF NamesOf, CartName, Named
<1>15. NameInv'
  <2>1. Names' \subseteq Names \union NamesOf(h)
    BY <1>4, <1>9, <1>11, <1>12 DEF Names
  <2>2. \A n \in Names : n.id \in 1 .. used.ids /\ n.guest \in 1 .. used.guests
    BY DEF TillInv, NameInv
  <2>3. \A n \in NamesOf(h) : n = CartName(h) /\ n.id = used.ids + 1 /\ n.guest \in 1 .. used'.guests
    BY <1>7, <1>13, <1>14
  <2>4. \A n \in Names' : n.id \in 1 .. used'.ids /\ n.guest \in 1 .. used'.guests
    BY <1>5, <1>6, <2>1, <2>2, <2>3
  <2>5. \A m, n \in Names : m.id = n.id => m = n
    BY DEF TillInv, NameInv
  <2>6. \A m, n \in Names' : m.id = n.id => m = n
    BY <1>5, <2>1, <2>2, <2>3, <2>5
  <2> QED BY <2>4, <2>6 DEF NameInv
<1>16. ClaimInv'
  <2> DEFINE Claim(n) == [id |-> n.id, guest |-> n.guest]
  <2>1. Claims' \subseteq {Claim(n) : n \in OtherNames(w) \union attempts} \union {Claim(n) : n \in NamesOf(h)}
    BY <1>4, <1>9 DEF Claims
  <2>2. \A c \in {Claim(n) : n \in OtherNames(w) \union attempts} :
          c \in Claims /\ (c.guest # guest \/ guest \in amended')
    <3> SUFFICES ASSUME NEW n \in OtherNames(w) \union attempts
                 PROVE  Claim(n) \in Claims /\ (n.guest # guest \/ guest \in amended')
      OBVIOUS
    <3>1. Claim(n) \in Claims
      BY <1>12 DEF Claims
    <3>2. CASE n \in attempts
      BY <1>4, <3>1, <3>2
    <3>3. CASE n \in OtherNames(w)
      <4>1. PICK v \in Tabs \ {w} : n = CartName(till[v])
        BY <3>3 DEF OtherNames
      <4>2. n.guest = till[v].guest
        BY <4>1 DEF CartName, Named
      <4> QED BY <1>4, <3>1, <4>2
    <3> QED BY <3>2, <3>3
  <2>3. \A c \in {Claim(n) : n \in NamesOf(h)} : c.id = used.ids + 1 /\ c.guest = guest
    BY <1>13, <1>14
  <2>4. \A c \in Claims : c.id \in 1 .. used.ids /\ c.guest \in 1 .. used.guests
    BY DEF TillInv, ClaimInv
  <2>5. \A c \in Claims' : c.id \in 1 .. used'.ids /\ c.guest \in 1 .. used'.guests
    BY <1>5, <1>6, <1>7, <2>1, <2>2, <2>3, <2>4
  <2>6. \A c, d \in Claims : c.guest = d.guest => c.id = d.id \/ c.guest \in amended
    BY DEF TillInv, ClaimInv
  <2>7. amended \subseteq amended'
    BY <1>4
  <2>8. \A c, d \in Claims' : c.guest = d.guest => c.id = d.id \/ c.guest \in amended'
    BY <2>1, <2>2, <2>3, <2>6, <2>7
  <2> QED BY <2>5, <2>8 DEF ClaimInv
<1>17. OrderInv'
  BY <1>4, <1>11 DEF TillInv, OrderInv, AttemptOf
<1>18. PromiseInv'
  BY <1>4, <1>8, <1>9 DEF TillInv, PromiseInv
<1> QED BY <1>4, <1>10, <1>15, <1>16, <1>17, <1>18 DEF TillInv, ReceiptInv

\* Nothing changes on a screen but the request under way and its answer.
LEMMA WaitKeeps ==
  ASSUME TillInv, NEW w \in Tabs, NEW s \in Tills, till' = [till EXCEPT ![w] = s],
         CartName(s) = CartName(till[w]), s.cart = till[w].cart,
         orders' \in SUBSET Sales, inFlight' \in SUBSET Requests,
         attempts' \in SUBSET [id : Nat, guest : Nat, terms : Offers], attempts \subseteq attempts',
         {CartName(r) : r \in Asked'} \union {OrderName(o) : o \in orders'} \subseteq Names,
         Claims' \subseteq Claims, OrderInv', PromiseInv', receipt' = NoReceipt,
         UNCHANGED <<shop, saved, catalogue, amended, used>>
  PROVE  TillInv'
<1>1. TillTypes /\ till \in [Tabs -> Tills]
  BY DEF TillInv, TillTypes
<1>2. till'[w] = s /\ (\A v \in Tabs \ {w} : till'[v] = till[v]) /\ till' \in [Tabs -> Tills]
  BY <1>1
<1>3. TillTypes'
  BY <1>1, <1>2 DEF TillTypes
<1>4. ScreenNames' \subseteq ScreenNames
  <2> SUFFICES ASSUME NEW v \in Tabs, till'[v].cart # NoCart PROVE CartName(till'[v]) \in ScreenNames
    BY DEF ScreenNames
  <2>1. till[v].cart # NoCart /\ CartName(till'[v]) = CartName(till[v])
    BY <1>2
  <2> QED BY <2>1 DEF ScreenNames
<1>5. SavedNames' = SavedNames
  BY DEF SavedNames
<1>6. Names' \subseteq Names
  BY <1>4, <1>5 DEF Names
<1>7. NameInv' /\ ClaimInv'
  BY <1>1, <1>6, FewerNames, FewerClaims DEF TillInv, TillTypes
<1> QED BY <1>3, <1>7 DEF TillInv, ReceiptInv

\* A request is given up or answered with a refusal, or sent again.
LEMMA TimeOutKeeps ==
  ASSUME TillInv, NEW w \in shop.tabs, TimeOut(w) \/ ShowRefusal(w)
  PROVE  TillInv'
<1>1. TillTypes /\ w \in Tabs /\ till[w] \in Tills
  BY DEF TillInv, TillTypes, Tabs
<1>2. PICK request \in {till[w].request, NoRequest}, tries \in Nat :
        /\ till' = [till EXCEPT ![w].request = request, ![w].tries = tries, ![w].answer = "none"]
        /\ inFlight' \subseteq inFlight \union ({till[w].request} \ {NoRequest})
  <2>1. CASE TimeOut(w) /\ till[w].tries < MaxRetries
                        /\ till' = [till EXCEPT ![w].tries = @ + 1, ![w].answer = "none"]
                        /\ inFlight' = inFlight \union {till[w].request}
    <3>1. PICK t \in Nat : t = till[w].tries + 1
      BY <1>1 DEF Tills
    <3>2. till' = [till EXCEPT ![w].request = till[w].request, ![w].tries = t, ![w].answer = "none"]
      BY <1>1, <2>1, <3>1 DEF TillTypes, Tills
    <3> QED BY <2>1, <3>1, <3>2 DEF TimeOut
  <2>2. CASE /\ till' = [till EXCEPT ![w].request = NoRequest, ![w].tries = 0, ![w].answer = "none"]
             /\ UNCHANGED inFlight
    BY <2>2
  <2> QED BY <2>1, <2>2 DEF TimeOut, ShowRefusal
<1>3. PICK s : s = [till[w] EXCEPT !.request = request, !.tries = tries, !.answer = "none"]
  OBVIOUS
<1>4. till' = [till EXCEPT ![w] = s]
  BY <1>1, <1>2, <1>3 DEF TillTypes
<1>5. /\ s \in Tills /\ s.cart = till[w].cart /\ s.request = request /\ s.answer = "none"
      /\ s.id = till[w].id /\ s.guest = till[w].guest /\ s.branch = till[w].branch
  BY <1>1, <1>2, <1>3 DEF Tills
<1>6. till'[w] = s /\ \A v \in Tabs \ {w} : till'[v] = till[v]
  BY <1>1, <1>4 DEF TillTypes
<1>7. Asked' \subseteq Asked
  <2>1. inFlight' \subseteq Asked
    BY <1>1, <1>2 DEF Asked
  <2>2. ASSUME NEW v \in Tabs, till'[v].request # NoRequest PROVE till'[v].request \in Asked
    <3>1. till'[v].request = till[v].request
      BY <1>2, <1>5, <1>6, <2>2
    <3> QED BY <2>2, <3>1 DEF Asked
  <2> QED BY <2>1, <2>2 DEF Asked
<1>8. UNCHANGED <<shop, saved, orders, catalogue, attempts, amended, used>> /\ receipt' = NoReceipt
  BY DEF TimeOut, ShowRefusal
<1>9. CartName(s) = CartName(till[w])
  BY <1>5 DEF CartName
<1>10. inFlight' \in SUBSET Requests
  BY <1>1, <1>2 DEF TillTypes, Tills
<1>11. {CartName(r) : r \in Asked'} \union {OrderName(o) : o \in orders'} \subseteq Names
  BY <1>7, <1>8 DEF Names
<1>12. Claims' \subseteq Claims
  <2>1. ScreenNames' \subseteq ScreenNames
    <3> SUFFICES ASSUME NEW v \in Tabs, till'[v].cart # NoCart PROVE CartName(till'[v]) \in ScreenNames
      BY DEF ScreenNames
    <3>1. till[v].cart # NoCart /\ CartName(till'[v]) = CartName(till[v])
      BY <1>5, <1>6, <1>9
    <3> QED BY <3>1 DEF ScreenNames
  <2> QED BY <1>8, <2>1 DEF Claims, SavedNames
<1>13. OrderInv'
  BY <1>7, <1>8 DEF TillInv, OrderInv, AttemptOf
<1>14. PromiseInv'
  BY <1>5, <1>6, <1>8 DEF TillInv, PromiseInv
<1>15. /\ orders' \in SUBSET Sales /\ attempts' \in SUBSET [id : Nat, guest : Nat, terms : Offers]
       /\ attempts \subseteq attempts'
  BY <1>1, <1>8 DEF TillTypes
<1> QED BY <1>1, <1>4, <1>5, <1>8, <1>9, <1>10, <1>11, <1>12, <1>13, <1>14, <1>15, WaitKeeps

LEMMA SameScreens ==
  ASSUME NEW w \in Tabs, till \in [Tabs -> Tills], NEW s \in Tills, till' = [till EXCEPT ![w] = s],
         CartName(s) = CartName(till[w]), s.cart = till[w].cart
  PROVE  ScreenNames' \subseteq ScreenNames
<1> SUFFICES ASSUME NEW v \in Tabs, till'[v].cart # NoCart PROVE CartName(till'[v]) \in ScreenNames
  BY DEF ScreenNames
<1>1. till[v].cart # NoCart /\ CartName(till'[v]) = CartName(till[v])
  OBVIOUS
<1> QED BY <1>1 DEF ScreenNames

LEMMA ConfirmKeeps ==
  ASSUME TillInv, NEW w \in shop.tabs, Confirm(w)
  PROVE  TillInv'
<1>1. TillTypes /\ w \in Tabs /\ till[w] \in Tills
  BY DEF TillInv, TillTypes, Tabs
<1>2. PICK r : r = RequestOf(w)
  OBVIOUS
<1>3. /\ r \in Requests /\ r.id = till[w].id /\ r.guest = till[w].guest /\ r.branch = till[w].branch
      /\ r.cart = till[w].cart /\ r.terms = till[w].terms
  BY <1>1, <1>2 DEF RequestOf, Requests, Tills, Confirm
<1>4. PICK s : s = [till[w] EXCEPT !.request = r, !.tries = 0, !.answer = "none"]
  OBVIOUS
<1>5. till' = [till EXCEPT ![w] = s]
  BY <1>1, <1>2, <1>4 DEF TillTypes, Confirm
<1>6. /\ s \in Tills /\ s.cart = till[w].cart /\ s.request = r /\ s.answer = "none"
      /\ s.id = till[w].id /\ s.guest = till[w].guest /\ s.branch = till[w].branch
  BY <1>1, <1>3, <1>4 DEF Tills
<1>7. till'[w] = s /\ \A v \in Tabs \ {w} : till'[v] = till[v]
  BY <1>1, <1>5 DEF TillTypes
<1>8. /\ UNCHANGED <<shop, saved, orders, catalogue, amended, used>> /\ receipt' = NoReceipt
      /\ inFlight' = inFlight \union {r} /\ attempts' = attempts \union {AttemptOf(r)}
  BY <1>2, <1>3 DEF Confirm, AttemptOf
<1>9. Asked' \subseteq Asked \union {r}
  <2>1. ASSUME NEW v \in Tabs, till'[v].request # NoRequest PROVE till'[v].request \in Asked \union {r}
    BY <1>6, <1>7, <2>1 DEF Asked
  <2> QED BY <1>8, <2>1 DEF Asked
<1>10. CartName(s) = CartName(till[w]) /\ CartName(r) = CartName(till[w])
  BY <1>3, <1>6 DEF CartName
<1>11. CartName(till[w]) \in ScreenNames
  BY <1>1 DEF ScreenNames, Confirm
<1>12. {CartName(x) : x \in Asked'} \union {OrderName(o) : o \in orders'} \subseteq Names
  BY <1>8, <1>9, <1>10, <1>11 DEF Names
<1>13. Claims' \subseteq Claims
  <2>1. ScreenNames' \subseteq ScreenNames
    BY <1>1, <1>5, <1>6, <1>10, SameScreens DEF TillTypes
  <2>2. SavedNames' = SavedNames
    BY <1>8 DEF SavedNames
  <2>3. AttemptOf(r).id = CartName(till[w]).id /\ AttemptOf(r).guest = CartName(till[w]).guest
    BY <1>3 DEF AttemptOf, CartName, Named
  <2>4. [id |-> AttemptOf(r).id, guest |-> AttemptOf(r).guest] \in Claims
    BY <1>11, <2>3 DEF Claims
  <2>5. SUFFICES ASSUME NEW n \in (ScreenNames \union SavedNames \union attempts)'
                 PROVE  [id |-> n.id, guest |-> n.guest] \in Claims
    BY DEF Claims
  <2>6. n \in ScreenNames \union SavedNames \union attempts \/ n = AttemptOf(r)
    BY <1>8, <2>1, <2>2
  <2> QED BY <2>4, <2>6 DEF Claims
<1>14. OrderInv'
  BY <1>8, <1>9 DEF TillInv, OrderInv, AttemptOf
<1>15. PromiseInv'
  BY <1>6, <1>7, <1>8 DEF TillInv, PromiseInv
<1>16. inFlight' \in SUBSET Requests /\ orders' \in SUBSET Sales
       /\ attempts' \in SUBSET [id : Nat, guest : Nat, terms : Offers] /\ attempts \subseteq attempts'
  BY <1>1, <1>3, <1>8 DEF TillTypes, AttemptOf, Requests
<1> QED BY <1>1, <1>5, <1>6, <1>8, <1>10, <1>12, <1>13, <1>14, <1>15, <1>16, WaitKeeps

\* The server makes the order of an id it does not know, from the request.
LEMMA ServeKeeps ==
  ASSUME TillInv, NEW r \in inFlight, Serve(r)
  PROVE  TillInv'
<1>1. TillTypes /\ r \in Requests /\ r.tab \in Tabs /\ till[r.tab] \in Tills
  BY DEF TillInv, TillTypes, Requests
<1>2. PICK w \in Tabs : w = r.tab
  BY <1>1
<1>3. PICK answer \in {"order", "refused"} :
       /\ till' = IF till[w].request = r /\ till[w].answer = "none"
                  THEN [till EXCEPT ![w].answer = answer] ELSE till
       /\ orders' = IF answer = "order" /\ \A o \in orders : o.id # r.id
                    THEN orders \union {[id |-> r.id, guest |-> r.guest, branch |-> r.branch,
                                         basket |-> r.cart.basket, terms |-> r.terms,
                                         at |-> catalogue]}
                    ELSE orders
  BY <1>2 DEF Serve
<1>4. /\ UNCHANGED <<shop, saved, catalogue, attempts, amended, used>> /\ receipt' = NoReceipt
      /\ inFlight' = inFlight \ {r}
  BY DEF Serve
<1>5. PICK made : made = [id |-> r.id, guest |-> r.guest, branch |-> r.branch,
                          basket |-> r.cart.basket, terms |-> r.terms, at |-> catalogue]
  OBVIOUS
<1>6. made \in Sales /\ made.id = r.id /\ OrderName(made) = CartName(r) /\ AttemptOf(made) = AttemptOf(r)
  BY <1>1, <1>5 DEF TillTypes, Sales, Requests, FullCarts, OrderName, CartName, AttemptOf
<1>7. \/ orders' = orders
      \/ orders' = orders \union {made} /\ \A o \in orders : o.id # r.id
  BY <1>3, <1>5
<1>8. answer = "order" => \E o \in orders' : o.id = r.id
  BY <1>3, <1>5, <1>6
<1>9. PICK s \in Tills :
        /\ till' = [till EXCEPT ![w] = s] /\ CartName(s) = CartName(till[w])
        /\ s.cart = till[w].cart /\ s.request = till[w].request
        /\ \/ s.answer = till[w].answer
           \/ s.answer = answer /\ s.request = r
  <2>1. CASE till[w].request = r /\ till[w].answer = "none"
    <3>1. PICK s : s = [till[w] EXCEPT !.answer = answer]
      OBVIOUS
    <3>2. till' = [till EXCEPT ![w] = s]
      BY <1>1, <1>3, <2>1, <3>1 DEF TillTypes
    <3>3. /\ s \in Tills /\ s.cart = till[w].cart /\ s.request = till[w].request /\ s.answer = answer
          /\ s.id = till[w].id /\ s.guest = till[w].guest /\ s.branch = till[w].branch
      BY <1>1, <1>2, <3>1 DEF Tills
    <3> QED BY <2>1, <3>2, <3>3 DEF CartName
  <2>2. CASE ~(till[w].request = r /\ till[w].answer = "none")
    <3>1. till' = [till EXCEPT ![w] = till[w]]
      BY <1>1, <1>3, <2>2 DEF TillTypes
    <3>2. PICK s \in Tills : s = till[w]
      BY <1>1, <1>2
    <3>3. till' = [till EXCEPT ![w] = s] /\ CartName(s) = CartName(till[w])
          /\ s.cart = till[w].cart /\ s.request = till[w].request /\ s.answer = till[w].answer
      BY <3>1, <3>2
    <3> QED BY <3>3
  <2> QED BY <2>1, <2>2
<1>10. till'[w] = s /\ \A v \in Tabs \ {w} : till'[v] = till[v]
  BY <1>1, <1>9 DEF TillTypes
<1>11. r \in Asked
  BY DEF Asked
<1>12. Asked' \subseteq Asked
  <2>1. ASSUME NEW v \in Tabs, till'[v].request # NoRequest PROVE till'[v].request \in Asked
    BY <1>9, <1>10, <2>1 DEF Asked
  <2> QED BY <1>4, <2>1 DEF Asked
<1>13. CartName(r) \in Names
  BY <1>11 DEF Names
<1>14. {CartName(x) : x \in Asked'} \union {OrderName(o) : o \in orders'} \subseteq Names
  BY <1>6, <1>7, <1>12, <1>13 DEF Names
<1>15. Claims' \subseteq Claims
  <2>1. ScreenNames' \subseteq ScreenNames
    BY <1>1, <1>9, SameScreens DEF TillTypes
  <2> QED BY <1>4, <2>1 DEF Claims, SavedNames
<1>16. OrderInv'
  <2>1. AttemptOf(r) \in attempts
    BY <1>11 DEF TillInv, OrderInv
  <2>2. \A x \in Asked \union orders : AttemptOf(x) \in attempts
    BY DEF TillInv, OrderInv
  <2>3. \A x \in Asked' \union orders' : AttemptOf(x) \in attempts
    BY <1>6, <1>7, <1>12, <2>1, <2>2
  <2>4. \A x \in Asked' \union orders' : AttemptOf(x) \in attempts'
    BY <1>4, <2>3
  <2>5. \A o, p \in orders : o.id = p.id => o = p
    BY DEF TillInv, OrderInv
  <2>6. \A o, p \in orders' : o.id = p.id => o = p
    BY <1>6, <1>7, <2>5
  <2> QED BY <2>4, <2>6 DEF OrderInv, AttemptOf
<1>17. PromiseInv'
  <2> SUFFICES ASSUME NEW v \in Tabs, till'[v].answer = "order"
               PROVE  till'[v].request # NoRequest /\ \E o \in orders' : o.id = till'[v].request.id
    BY DEF PromiseInv
  <2>1. CASE till'[v].answer = till[v].answer /\ till'[v].request = till[v].request
    BY <1>7, <2>1 DEF TillInv, PromiseInv
  <2>2. CASE v = w /\ s.answer = answer /\ s.request = r
    <3>1. answer = "order"
      BY <1>10, <2>2
    <3>2. CartName(r).id # 0
      <4>1. CartName(r).id \in 1 .. used.ids
        BY <1>13 DEF TillInv, NameInv
      <4> QED BY <1>1, <4>1 DEF TillTypes
    <3>3. r # NoRequest
      BY <3>2 DEF NoRequest, CartName, Named
    <3> QED BY <1>8, <1>10, <2>2, <3>1, <3>3
  <2> QED BY <1>9, <1>10, <2>1, <2>2
<1>18. inFlight' \in SUBSET Requests /\ orders' \in SUBSET Sales
       /\ attempts' \in SUBSET [id : Nat, guest : Nat, terms : Offers] /\ attempts \subseteq attempts'
  BY <1>1, <1>4, <1>6, <1>7 DEF TillTypes
<1> QED BY <1>4, <1>9, <1>14, <1>15, <1>16, <1>17, <1>18, WaitKeeps

\* The discount of a promotion and n points, rounded by the server, against the
\* unrounded one of the screen.
LEMMA MoneyNear ==
  ASSUME NEW total \in Nat, NEW promo \in Nat, NEW n \in Nat,
         NEW usable, usable = Lesser(n, Greater(100 * total - promo, 0) \div PointWorth)
  PROVE  Near(total - Lesser(RoundHalfUp(promo + usable * PointWorth), total),
              100 * total - Lesser(promo + n * PointWorth, 100 * total))
<1> USE DEF PointWorth
<1>1. PICK left \in Nat : left = Greater(100 * total - promo, 0)
  <2>1. PICK x \in Int : x = 100 * total - promo
    <3>1. total \in Int /\ promo \in Int /\ 100 \in Int
      OBVIOUS
    <3>2. 100 * total - promo \in Int
      BY ONLY <3>1
    <3> QED BY ONLY <3>2
  <2>2. Greater(x, 0) \in Nat
    BY <2>1 DEF Greater
  <2> QED BY <2>1, <2>2
<1>2. PICK most \in Nat : most = left \div 1000 /\ 1000 * most <= left /\ left < 1000 * most + 1000
  BY <1>1
<1>3. usable \in Nat /\ usable = Lesser(n, most)
  BY <1>1, <1>2 DEF Lesser
<1>4. PICK taken \in Nat : taken = promo + usable * 1000
  BY <1>3
<1>5. PICK rounded \in Nat : /\ rounded = RoundHalfUp(taken)
                            /\ 100 * rounded <= taken + 50 /\ taken + 50 < 100 * rounded + 100
  BY <1>4 DEF RoundHalfUp
<1>6. CASE promo + n * 1000 <= 100 * total
  <2>1. n <= most
    BY <1>1, <1>2, <1>6 DEF Greater
  <2>2. usable = n /\ taken = promo + n * 1000
    BY <1>2, <1>3, <1>4, <2>1 DEF Lesser
  <2>3. rounded <= total
    BY <1>5, <1>6, <2>2
  <2>4. Lesser(rounded, total) = rounded /\ Lesser(taken, 100 * total) = taken
    BY <1>6, <2>2, <2>3 DEF Lesser
  <2>5. Near(total - rounded, 100 * total - taken)
    <3>1. PICK gap \in Int : gap = 100 * (total - rounded) - (100 * total - taken)
      OBVIOUS
    <3>2. gap = taken - 100 * rounded
      BY <3>1
    <3>3. gap \in -50 .. 50
      BY <1>5, <3>2
    <3> QED BY <3>1, <3>3 DEF Near
  <2> QED BY <1>4, <1>5, <2>2, <2>4, <2>5
<1>7. CASE promo + n * 1000 > 100 * total
  <2>1. Lesser(promo + n * 1000, 100 * total) = 100 * total
    BY <1>7 DEF Lesser
  <2>2. 100 * total - 999 <= taken
    <3>1. CASE promo >= 100 * total
      BY <1>3, <1>4, <3>1
    <3>2. CASE promo < 100 * total
      BY <1>1, <1>2, <1>3, <1>4, <1>7, <3>2 DEF Greater, Lesser
    <3> QED BY <3>1, <3>2
  <2>3. total - Lesser(rounded, total) <= 10
    BY <1>5, <2>2 DEF Lesser
  <2> QED BY <1>4, <1>5, <2>1, <2>3 DEF Near
<1> QED BY <1>6, <1>7

LEMMA ChargeNearQuote ==
  ASSUME NEW total \in Nat, NEW terms \in Offers, terms.promo # "fixed"
  PROVE  Near(Charged(total, terms), Quoted(total, terms))
<1>1. terms.promo \in {"none", "percent", "fixed"} /\ terms.value \in Nat /\ terms.points \in Nat
  BY OffersAssumption DEF Offers
<1>2. PICK promo \in Nat : /\ promo = PromoDiscount(total, terms)
                          /\ QuotedDiscount(total, terms) = promo + terms.points * PointWorth
  <2>1. CASE terms.promo = "percent"
    BY <1>1, <2>1 DEF PromoDiscount, QuotedDiscount, PointWorth
  <2>2. CASE terms.promo = "none"
    BY <1>1, <2>2 DEF PromoDiscount, QuotedDiscount, PointWorth
  <2> QED BY <1>1, <2>1, <2>2
<1>3. PICK usable : usable = PointsUsable(100 * total - promo, terms.points)
  OBVIOUS
<1>4. usable = Lesser(terms.points, Greater(100 * total - promo, 0) \div PointWorth)
  BY <1>3 DEF PointsUsable
<1>5. Charged(total, terms) = total - Lesser(RoundHalfUp(promo + usable * PointWorth), total)
  BY <1>2, <1>3 DEF Charged
<1>6. Quoted(total, terms) = 100 * total - Lesser(promo + terms.points * PointWorth, 100 * total)
  BY <1>2 DEF Quoted
<1>7. Near(total - Lesser(RoundHalfUp(promo + usable * PointWorth), total),
           100 * total - Lesser(promo + terms.points * PointWorth, 100 * total))
  BY <1>1, <1>4, MoneyNear
<1> QED BY <1>5, <1>6, <1>7

LEMMA TillStill ==
  ASSUME TillInv, UNCHANGED <<shop, till, saved, inFlight, orders, attempts, amended, used>>,
         catalogue' \in 1 .. 2, receipt' \in {receipt, NoReceipt}
  PROVE  TillInv'
<1>1. TillTypes'
  BY DEF TillInv, TillTypes
<1>2. ScreenNames' = ScreenNames /\ SavedNames' = SavedNames /\ Asked' = Asked
  BY DEF ScreenNames, SavedNames, Asked
<1>3. Names' = Names /\ Claims' = Claims
  BY <1>2 DEF Names, Claims
<1>4. NameInv' /\ ClaimInv'
  BY <1>3 DEF TillInv, NameInv, ClaimInv
<1>5. OrderInv' /\ PromiseInv'
  BY <1>2 DEF TillInv, OrderInv, PromiseInv, AttemptOf
<1>6. ReceiptInv'
  <2>1. CASE receipt' = receipt
    BY <2>1 DEF TillInv, ReceiptInv
  <2>2. CASE receipt' = NoReceipt
    BY <2>2 DEF ReceiptInv
  <2> QED BY <2>1, <2>2
<1> QED BY <1>1, <1>4, <1>5, <1>6 DEF TillInv

LEMMA TillStepKeeps == ASSUME TillInv, TerminalNext PROVE TillInv'
<1>1. CASE \E w \in shop.tabs, branch \in shop.branches : Open(w, branch) \/ SwitchBranch(w, branch)
  BY <1>1, OpenKeeps
<1>2. CASE \E w \in shop.tabs, cart \in Carts : Edit(w, cart)
  BY <1>2, EditCartKeeps
<1>3. CASE \E w \in shop.tabs, terms \in shop.offers : SetTerms(w, terms)
  BY <1>3, SetTermsKeeps
<1>4. CASE \E w \in shop.tabs : Confirm(w)
  BY <1>4, ConfirmKeeps
<1>5. CASE \E w \in shop.tabs : TimeOut(w) \/ ShowRefusal(w)
  BY <1>5, TimeOutKeeps
<1>6. CASE \E w \in shop.tabs : ShowReceipt(w)
  BY <1>6, ShowReceiptKeeps
<1>7. CASE \E r \in inFlight : Serve(r)
  BY <1>7, ServeKeeps
<1>8. CASE Reprice
  BY <1>8, TillStill DEF Reprice
<1> QED BY <1>1, <1>2, <1>3, <1>4, <1>5, <1>6, <1>7, <1>8 DEF TerminalNext

\* Two orders of a guest are two confirmed checkouts of that guest, so have one
\* id; and an id has one order.
LEMMA TillMeansOneSale == TillInv => OneSalePerGuest
<1> SUFFICES ASSUME TillInv, NEW o \in orders, NEW p \in orders, o.guest = p.guest, o.guest \notin amended
             PROVE  o = p
  BY DEF OneSalePerGuest
<1>1. AttemptOf(o) \in attempts /\ AttemptOf(p) \in attempts
  BY DEF TillInv, OrderInv
<1>2. [id |-> o.id, guest |-> o.guest] \in Claims /\ [id |-> p.id, guest |-> p.guest] \in Claims
  BY <1>1 DEF Claims, AttemptOf
<1>3. o.id = p.id
  BY <1>2 DEF TillInv, ClaimInv
<1> QED BY <1>3 DEF TillInv, OrderInv

LEMMA TillMeansReceipt == TillInv => ReceiptIsForTheCart
<1> SUFFICES ASSUME TillInv, receipt # NoReceipt
             PROVE  /\ receipt.order.guest = receipt.asked.guest
                    /\ receipt.order.basket = receipt.asked.cart.basket
                    /\ receipt.order.branch = receipt.asked.branch
                    /\ SameTermsAlways(receipt.id) => receipt.order.terms = receipt.asked.terms
  BY DEF ReceiptIsForTheCart
<1>1. PICK r, o : r = receipt.asked /\ o = receipt.order
  OBVIOUS
<1>2. CartName(r) = OrderName(o) /\ receipt.id = r.id /\ o \in orders /\ AttemptOf(r) \in attempts
  BY <1>1 DEF TillInv, ReceiptInv
<1>3. o.id = r.id /\ o.guest = r.guest /\ o.branch = r.branch /\ o.basket = r.cart.basket
  BY <1>2 DEF CartName, OrderName, Named
<1>4. AttemptOf(o) \in attempts
  BY <1>2 DEF TillInv, OrderInv
<1>5. SameTermsAlways(r.id) => o.terms = r.terms
  <2>1. AttemptOf(o).id = r.id /\ AttemptOf(r).id = r.id
    BY <1>3 DEF AttemptOf
  <2>2. SameTermsAlways(r.id) => AttemptOf(o).terms = AttemptOf(r).terms
    BY <1>2, <1>4, <2>1 DEF SameTermsAlways
  <2> QED BY <2>2 DEF AttemptOf
<1> QED BY <1>1, <1>2, <1>3, <1>5

LEMMA TillMeansQuote == TillInv => QuoteIsCharged
<1> SUFFICES ASSUME TillInv, receipt # NoReceipt, receipt.asked.terms = receipt.order.terms,
                    receipt.asked.terms.promo # "fixed", receipt.asked.cart.at = receipt.order.at
             PROVE  Near(Charged(Price[receipt.order.at][receipt.order.basket], receipt.order.terms),
                         Quoted(Price[receipt.asked.cart.at][receipt.asked.cart.basket],
                                receipt.asked.terms))
  BY DEF QuoteIsCharged
<1>1. receipt.order.basket = receipt.asked.cart.basket
  BY TillMeansReceipt DEF ReceiptIsForTheCart
<1>2. PICK r : r = receipt.asked /\ r \in Requests
  BY DEF TillInv, ReceiptInv
<1>3. r.cart \in FullCarts /\ r.terms \in Offers
  BY <1>2 DEF Requests
<1>4. PICK total \in Nat : total = Price[r.cart.at][r.cart.basket]
  BY <1>3, PricesAssumption DEF FullCarts
<1>5. Near(Charged(total, r.terms), Quoted(total, r.terms))
  BY <1>2, <1>3, ChargeNearQuote
<1> QED BY <1>1, <1>2, <1>4, <1>5

LEMMA TillAlways == Spec => []TillInv
<1>1. Init => TillInv
  BY TillInitInv DEF Init
<1>2. TillInv /\ [Next]_screensVars => TillInv'
  <2> SUFFICES ASSUME TillInv, [Next]_screensVars PROVE TillInv'
    OBVIOUS
  <2>1. CASE TerminalNext
    BY <2>1, TillStepKeeps
  <2>2. CASE UNCHANGED terminalVars
    <3>1. catalogue \in 1 .. 2
      BY DEF TillInv, TillTypes
    <3> QED BY <2>2, <3>1, TillStill DEF terminalVars
  <2> QED BY <2>1, <2>2 DEF Next, screensVars
<1> QED BY <1>1, <1>2, PTL DEF Spec

\* However many tabs, retries, reloads and late answers there are, a guest pays
\* once: the clientRequestId that pos-cart-storage keeps with the cart names the
\* sale, and the server makes one order of an id.
THEOREM OneSalePerGuestHolds == Spec => []OneSalePerGuest
BY TillAlways, TillMeansOneSale, PTL

\* The receipt is for the basket just confirmed, for its guest, its branch and,
\* unless they were changed between two tries, its terms: createOrder returns the
\* order of the id that was sent.
THEOREM ReceiptIsForTheCartHolds == Spec => []ReceiptIsForTheCart
BY TillAlways, TillMeansReceipt, PTL

\* The screen's total and the server's agree to the satang, or to a point's worth
\* when points pay for everything, for every price, percentage and number of points.
THEOREM QuoteIsChargedHolds == Spec => []QuoteIsCharged
BY TillAlways, TillMeansQuote, PTL

-------------------------------------------------------------------------------
(* The kitchen display: for every set of orders and hands, and every number *)
(* of events, taps and faults.                                             *)

Statuses == KdsStatuses \union {"COMPLETED", "CANCELLED"}
Boards == [Tickets -> KdsStatuses \union {NoTicket}]

\* What the first n events of an order say.
At(o, n) == IF n = 0 THEN "none" ELSE story[o][n]

StoryInv == /\ story \in [Tickets -> Seq(Statuses)]
            /\ \A event \in wire : /\ event = <<event[1], event[2]>>
                                   /\ event[1] \in Tickets
                                   /\ event[2] \in 1 .. Len(story[event[1]])
            /\ heard \in [Tickets -> Nat]
            /\ \A o \in Tickets : heard[o] <= Len(story[o])

\* An order that left the kitchen does not come back.
LeavesForGood ==
  \A o \in Tickets : \A i, j \in 1 .. Len(story[o]) :
    i < j /\ story[o][i] \notin KdsStatuses => story[o][j] \notin KdsStatuses

TapRecords == {NoTap} \union [state : {"toast"}, order : Tickets]
                \union [state : {"sent", "accepted", "refused"}, order : Tickets,
                        to : KdsStatuses \union {"COMPLETED"}, previous : Boards]

PageInv == /\ board \in Boards
           /\ taps \in [Hands -> TapRecords]
           /\ fetch.state \in {"idle", "asked", "answered"}

\* An answer is the board of some past moment.
AnswerInv ==
  fetch.state = "answered" =>
    /\ fetch.board \in Boards /\ fetch.heard \in [Tickets -> Nat]
    /\ \A o \in Tickets : /\ fetch.heard[o] <= Len(story[o])
                          /\ fetch.board[o] = Ticket(At(o, fetch.heard[o]))

\* The page shows an order as of the last event heard, or has removed it ahead of
\* that: an older event came late.
Placed(o) == \/ board[o] = Ticket(At(o, heard[o]))
             \/ /\ board[o] = NoTicket
                /\ \E m \in 1 .. Len(story[o]) : m > heard[o] /\ story[o][m] \notin KdsStatuses

Settled == fetch.state = "idle" /\ ~unsure /\ \A h \in Hands : Free(h)
BoardInv == Settled => \A o \in Tickets : o \in missed \/ Placed(o)

KitchenInv == StoryInv /\ LeavesForGood /\ PageInv /\ AnswerInv /\ BoardInv

-------------------------------------------------------------------------------
(* Stories only grow, and what was said of them stays true.                *)

Grows == \A o \in Tickets : /\ Len(story[o]) <= Len(story'[o])
                            /\ \A n \in 1 .. Len(story[o]) : story'[o][n] = story[o][n]

\* Publishing an event of an order still in the kitchen, or one that takes it
\* out, keeps every story in order.
LEMMA PublishGrows ==
  ASSUME StoryInv, LeavesForGood, NEW o \in Tickets, NEW next \in Statuses,
         story[o] = <<>> \/ Stage(o) \in KdsStatuses \/ next \notin KdsStatuses,
         Publish(o, next), UNCHANGED heard
  PROVE  StoryInv' /\ LeavesForGood' /\ Grows
<1> DEFINE told == Append(story[o], next)
<1>1. /\ story[o] \in Seq(Statuses) /\ told \in Seq(Statuses)
      /\ Len(told) = Len(story[o]) + 1
      /\ told[Len(story[o]) + 1] = next
      /\ \A n \in 1 .. Len(story[o]) : told[n] = story[o][n]
  BY DEF StoryInv
<1>2. /\ story' \in [Tickets -> Seq(Statuses)] /\ story'[o] = told
      /\ \A p \in Tickets \ {o} : story'[p] = story[p]
  BY <1>1 DEF Publish, StoryInv
<1> HIDE DEF told
<1>3. \A p \in Tickets : Len(story[p]) \in Nat
  BY DEF StoryInv
<1>4. Grows
  BY <1>1, <1>2, <1>3 DEF Grows
<1>5. StoryInv'
  <2>1. \A event \in wire' : /\ event = <<event[1], event[2]>>
                             /\ event[1] \in Tickets
                             /\ event[2] \in 1 .. Len(story'[event[1]])
    <3> SUFFICES ASSUME NEW event \in wire'
                 PROVE  /\ event = <<event[1], event[2]>>
                        /\ event[1] \in Tickets
                        /\ event[2] \in 1 .. Len(story'[event[1]])
      OBVIOUS
    <3>1. CASE event \in wire
      BY <3>1, <1>3, <1>4 DEF StoryInv, Grows
    <3>2. CASE event = <<o, Len(story[o]) + 1>>
      BY <3>2, <1>1, <1>2, <1>3
    <3> QED BY <3>1, <3>2 DEF Publish
  <2>2. heard' \in [Tickets -> Nat] /\ \A p \in Tickets : heard'[p] <= Len(story'[p])
    BY <1>3, <1>4, <1>2 DEF StoryInv, Grows
  <2> QED BY <1>2, <2>1, <2>2 DEF StoryInv
<1>6. LeavesForGood'
  <2> SUFFICES ASSUME NEW p \in Tickets, NEW i \in 1 .. Len(story'[p]),
                      NEW j \in 1 .. Len(story'[p]), i < j, story'[p][i] \notin KdsStatuses
               PROVE  story'[p][j] \notin KdsStatuses
    BY DEF LeavesForGood
  <2>1. CASE p # o
    BY <2>1, <1>2 DEF LeavesForGood
  <2>2. CASE p = o
    <3>1. i \in 1 .. Len(story[o]) /\ story[o][i] \notin KdsStatuses
      BY <2>2, <1>1, <1>2, <1>3
    <3>2. CASE j <= Len(story[o])
      BY <3>1, <3>2, <2>2, <1>1, <1>2, <1>3 DEF LeavesForGood
    <3>3. CASE j = Len(story[o]) + 1
      <4>1. Stage(o) \notin KdsStatuses
        BY <3>1, <1>3 DEF LeavesForGood, Stage
      <4>2. story[o] # <<>>
        BY <3>1
      <4> QED BY <4>1, <4>2, <3>3, <2>2, <1>1, <1>2
    <3> QED BY <3>2, <3>3, <2>2, <1>1, <1>2, <1>3
  <2> QED BY <2>1, <2>2
<1> QED BY <1>4, <1>5, <1>6

LEMMA AnswerKept ==
  ASSUME StoryInv, AnswerInv, Grows, UNCHANGED fetch
  PROVE  AnswerInv'
<1> SUFFICES ASSUME fetch.state = "answered", NEW o \in Tickets
             PROVE  /\ fetch.heard[o] <= Len(story'[o])
                    /\ fetch.board[o] = Ticket(At(o, fetch.heard[o]))'
  BY DEF AnswerInv
<1>1. /\ fetch.heard[o] \in Nat /\ fetch.heard[o] <= Len(story[o]) /\ Len(story[o]) \in Nat
      /\ fetch.board[o] = Ticket(At(o, fetch.heard[o]))
  BY DEF AnswerInv, StoryInv
<1>2. Len(story'[o]) \in Int /\ Len(story[o]) <= Len(story'[o])
  BY <1>1 DEF Grows
<1>3. At(o, fetch.heard[o])' = At(o, fetch.heard[o])
  BY <1>1 DEF At, Grows
<1> QED BY <1>1, <1>2, <1>3 DEF Ticket

LEMMA BoardKept ==
  ASSUME StoryInv, BoardInv, Grows, UNCHANGED <<board, heard, missed>>, Settled' => Settled
  PROVE  BoardInv'
<1> SUFFICES ASSUME Settled, NEW o \in Tickets, o \notin missed
             PROVE  Placed(o)'
  BY DEF BoardInv
<1>1. Placed(o)
  BY DEF BoardInv
<1>2. /\ heard[o] \in Nat /\ heard[o] <= Len(story[o]) /\ Len(story[o]) \in Nat
      /\ Len(story'[o]) \in Int /\ Len(story[o]) <= Len(story'[o])
  BY DEF StoryInv, Grows
<1>3. CASE board[o] = Ticket(At(o, heard[o]))
  <2>1. At(o, heard[o])' = At(o, heard[o])
    BY <1>2 DEF At, Grows
  <2> QED BY <1>3, <2>1 DEF Placed, Ticket
<1>4. CASE /\ board[o] = NoTicket
           /\ \E m \in 1 .. Len(story[o]) : m > heard[o] /\ story[o][m] \notin KdsStatuses
  <2>1. PICK m \in 1 .. Len(story[o]) : m > heard[o] /\ story[o][m] \notin KdsStatuses
    BY <1>4
  <2>2. m \in 1 .. Len(story'[o]) /\ story'[o][m] = story[o][m]
    BY <1>2 DEF Grows
  <2> QED BY <1>4, <2>1, <2>2 DEF Placed
<1> QED BY <1>1, <1>3, <1>4 DEF Placed

\* Whatever event of an order arrives, in its turn, late or again, the board shows
\* the order as of that event, or has removed it for good already.
LEMMA HearPlaces ==
  ASSUME StoryInv, LeavesForGood, board \in Boards,
         NEW event \in wire, Hear(event), NEW o \in Tickets, Placed(o)
  PROVE  o \in missed' \/ Placed(o)'
<1> DEFINE p == event[1]
           n == event[2]
<1>1. /\ p \in Tickets /\ n \in 1 .. Len(story[p]) /\ Len(story[p]) \in Nat
      /\ heard[p] \in Nat /\ heard[p] <= Len(story[p])
  BY DEF StoryInv
<1>2. /\ story' = story
      /\ board' = [board EXCEPT ![p] = Shown(@, n = 1, story[p][n])]
      /\ heard' = [heard EXCEPT ![p] = n]
      /\ missed' = IF n > heard[p] + 1 THEN missed \union {p} ELSE missed
  BY DEF Hear
<1> HIDE DEF p, n
<1>3. CASE o # p
  <2>1. board'[o] = board[o] /\ heard'[o] = heard[o]
    BY <1>2, <1>3 DEF StoryInv, Boards
  <2> QED BY <1>2, <2>1 DEF Placed, At, Ticket
<1>4. CASE o = p /\ n > heard[p] + 1
  BY <1>2, <1>4
<1>5. CASE o = p /\ n <= heard[p] + 1
  <2> DEFINE now == board[o]
             next == story[o][n]
  <2>1. board'[o] = Shown(now, n = 1, next) /\ heard'[o] = n
    BY <1>1, <1>2, <1>5 DEF StoryInv, Boards
  <2>2. At(o, heard[o])' = next
    BY <1>1, <1>2, <2>1 DEF At
  <2>3. now \in KdsStatuses \union {NoTicket}
    BY DEF Boards
  <2>4. \A m \in 1 .. Len(story[o]) : m > n /\ next \notin KdsStatuses => story[o][m] \notin KdsStatuses
    BY <1>1, <1>5 DEF LeavesForGood
  <2>5. \A m \in 1 .. Len(story[o]) : m < n /\ story[o][m] \notin KdsStatuses => next \notin KdsStatuses
    BY <1>1, <1>5 DEF LeavesForGood
  <2> DEFINE shown == Shown(now, n = 1, next)
             gone == \E m \in 1 .. Len(story[o]) : m > n /\ story[o][m] \notin KdsStatuses
  <2>6. shown = Ticket(next) \/ (shown = NoTicket /\ gone)
    <3>1. CASE n = 1 /\ next \in KdsStatuses
      BY <3>1 DEF Shown, Ticket
    <3>2. CASE n = 1 /\ next \notin KdsStatuses
      <4>1. now = NoTicket
        <5>1. CASE heard[o] = 0 /\ now = Ticket(At(o, heard[o]))
          BY <5>1 DEF At, Ticket, KdsStatuses
        <5>2. CASE heard[o] = 1 /\ now = Ticket(At(o, heard[o]))
          BY <5>2, <3>2 DEF At, Ticket
        <5>3. CASE heard[o] > 1 /\ now = Ticket(At(o, heard[o]))
          BY <5>3, <3>2, <2>4, <1>1, <1>5 DEF At, Ticket
        <5> QED BY <5>1, <5>2, <5>3, <1>1, <1>5 DEF Placed
      <4> QED BY <4>1, <3>2 DEF Shown, Ticket
    <3>3. CASE n # 1 /\ next \notin KdsStatuses
      BY <3>3 DEF Shown, Ticket
    <3>4. CASE n # 1 /\ next \in KdsStatuses /\ now # NoTicket
      BY <3>4 DEF Shown, Ticket
    <3>5. CASE n # 1 /\ next \in KdsStatuses /\ now = NoTicket
      <4>1. shown = NoTicket
        BY <3>5 DEF Shown
      <4>2. CASE now = Ticket(At(o, heard[o]))
        <5>1. heard[o] > 0 /\ story[o][heard[o]] \notin KdsStatuses
          BY <4>2, <3>5, <1>1, <1>5 DEF At, Ticket, NoTicket, KdsStatuses
        <5>2. heard[o] # n - 1
          BY <5>1, <3>5, <2>5, <1>1, <1>5
        <5>3. heard[o] > n
          BY <5>1, <5>2, <3>5, <1>1, <1>5
        <5> QED BY <4>1, <5>1, <5>3, <1>1, <1>5
      <4>3. CASE \E m \in 1 .. Len(story[o]) : m > heard[o] /\ story[o][m] \notin KdsStatuses
        <5>1. PICK m \in 1 .. Len(story[o]) : m > heard[o] /\ story[o][m] \notin KdsStatuses
          BY <4>3
        <5>2. m # n
          BY <5>1, <3>5
        <5>3. m > n
          BY <5>1, <5>2, <1>1, <1>5
        <5> QED BY <4>1, <5>1, <5>3
      <4> QED BY <4>2, <4>3 DEF Placed
    <3> QED BY <3>1, <3>2, <3>3, <3>4, <3>5
  <2> QED BY <1>2, <2>1, <2>2, <2>6 DEF Placed, Ticket
<1> QED BY <1>1, <1>3, <1>4, <1>5

LEMMA HearKeeps ==
  ASSUME KitchenInv, NEW event \in wire, Hear(event), wire' \subseteq wire
  PROVE  KitchenInv'
<1>1. /\ event[1] \in Tickets /\ event[2] \in 1 .. Len(story[event[1]])
      /\ story[event[1]] \in Seq(Statuses)
      /\ story[event[1]][event[2]] \in Statuses
  BY DEF KitchenInv, StoryInv
<1>2. StoryInv'
  <2>1. heard' \in [Tickets -> Nat] /\ \A o \in Tickets : heard'[o] <= Len(story[o])
    BY <1>1 DEF KitchenInv, StoryInv, Hear
  <2> QED BY <2>1 DEF KitchenInv, StoryInv, Hear
<1>3. LeavesForGood'
  BY DEF KitchenInv, LeavesForGood, Hear
<1>4. PageInv'
  <2>1. Shown(board[event[1]], event[2] = 1, story[event[1]][event[2]])
          \in KdsStatuses \union {NoTicket}
    BY <1>1 DEF KitchenInv, PageInv, Boards, Shown
  <2>2. board' \in Boards
    BY <2>1, <1>1 DEF KitchenInv, PageInv, Boards, Hear
  <2> QED BY <2>2 DEF KitchenInv, PageInv, Hear
<1>5. AnswerInv'
  BY DEF KitchenInv, AnswerInv, Hear, At, Ticket
<1>6. BoardInv'
  <2> SUFFICES ASSUME Settled', NEW o \in Tickets
               PROVE  o \in missed' \/ Placed(o)'
    BY DEF BoardInv
  <2>1. Settled
    BY DEF Settled, Free, Hear
  <2>2. CASE o \in missed
    BY <2>2 DEF Hear
  <2>3. CASE Placed(o)
    BY <2>3, HearPlaces DEF KitchenInv, PageInv
  <2> QED BY <2>1, <2>2, <2>3 DEF KitchenInv, BoardInv
<1> QED BY <1>2, <1>3, <1>4, <1>5, <1>6 DEF KitchenInv

-------------------------------------------------------------------------------
(* Every action keeps the invariant.                                       *)

LEMMA NewsKeeps ==
  ASSUME KitchenInv, NEW o \in Tickets, NEW next \in Statuses,
         story[o] = <<>> \/ Stage(o) \in KdsStatuses \/ next \notin KdsStatuses,
         Publish(o, next), UNCHANGED <<board, fetch, unsure, heard, missed>>,
         taps' \in [Hands -> TapRecords], (\A h \in Hands : Free(h)') => (\A h \in Hands : Free(h))
  PROVE  KitchenInv'
<1>1. StoryInv' /\ LeavesForGood' /\ Grows
  BY PublishGrows DEF KitchenInv
<1>2. PageInv'
  BY DEF KitchenInv, PageInv
<1>3. AnswerInv'
  BY <1>1, AnswerKept DEF KitchenInv
<1>4. BoardInv'
  <2>1. Settled' => Settled
    BY DEF Settled
  <2> QED BY <1>1, <2>1, BoardKept DEF KitchenInv
<1> QED BY <1>1, <1>2, <1>3, <1>4 DEF KitchenInv

LEMMA PlaceKeeps ==
  ASSUME KitchenInv, NEW o \in Tickets, Place(o)
  PROVE  KitchenInv'
<1>1. PICK next \in {"PENDING", "COMPLETED"} : Publish(o, next)
  BY DEF Place
<1>2. next \in Statuses /\ story[o] = <<>>
  BY DEF Place, Statuses, KdsStatuses
<1>3. UNCHANGED <<board, fetch, unsure, taps, heard, missed>>
  BY DEF Place
<1> QED BY <1>1, <1>2, <1>3, NewsKeeps DEF KitchenInv, PageInv, Free

LEMMA MoveKeeps ==
  ASSUME KitchenInv, NEW o \in Tickets, MoveElsewhere(o)
  PROVE  KitchenInv'
<1>1. PICK next \in {"PREPARING", "COMPLETED", "CANCELLED"} :
        /\ CanTransition(Stage(o), next) \/ next = "CANCELLED"
        /\ Publish(o, next)
  BY DEF MoveElsewhere
<1>2. next \in Statuses /\ (Stage(o) \in KdsStatuses \/ next \notin KdsStatuses)
  BY <1>1 DEF CanTransition, Statuses, KdsStatuses
<1>3. UNCHANGED <<board, fetch, unsure, taps, heard, missed>>
  BY DEF MoveElsewhere
<1> QED BY <1>1, <1>2, <1>3, NewsKeeps DEF KitchenInv, PageInv, Free

\* What is known of a tap under way.
LEMMA TapFields ==
  ASSUME PageInv, NEW h \in Hands, taps[h].state \in {"sent", "accepted", "refused"}
  PROVE  /\ taps[h].order \in Tickets
         /\ taps[h].to \in KdsStatuses \union {"COMPLETED"}
         /\ taps[h].previous \in Boards
         /\ \A state \in {"sent", "accepted", "refused"} :
              [taps EXCEPT ![h].state = state] \in [Hands -> TapRecords]
<1>1. taps[h] \in [state : {"sent", "accepted", "refused"}, order : Tickets,
                   to : KdsStatuses \union {"COMPLETED"}, previous : Boards]
  BY DEF PageInv, TapRecords, NoTap
<1>2. ASSUME NEW state \in {"sent", "accepted", "refused"}
      PROVE  [taps EXCEPT ![h].state = state] \in [Hands -> TapRecords]
  <2>1. [taps[h] EXCEPT !.state = state] \in TapRecords
    BY <1>1 DEF TapRecords
  <2> QED BY <2>1 DEF PageInv
<1> QED BY <1>1, <1>2

\* A page with a tap or a snapshot under way promises nothing of its board.
LEMMA UnsettledKeeps ==
  ASSUME KitchenInv, UNCHANGED <<story, wire, heard>>, PageInv', AnswerInv', ~Settled'
  PROVE  KitchenInv'
<1>1. StoryInv' /\ LeavesForGood'
  BY DEF KitchenInv, StoryInv, LeavesForGood
<1> QED BY <1>1 DEF KitchenInv, BoardInv

LEMMA ServeTapKeeps ==
  ASSUME KitchenInv, NEW h \in Hands, ServeTap(h)
  PROVE  KitchenInv'
<1> DEFINE o == taps[h].order
           to == taps[h].to
<1>1. /\ taps[h].state = "sent" /\ UNCHANGED <<board, fetch, unsure, heard, missed>>
      /\ taps \in [Hands -> TapRecords]
  BY DEF ServeTap, KitchenInv, PageInv
<1>2. /\ o \in Tickets /\ to \in KdsStatuses \union {"COMPLETED"}
      /\ \A state \in {"sent", "accepted", "refused"} :
           [taps EXCEPT ![h].state = state] \in [Hands -> TapRecords]
  BY <1>1, TapFields DEF KitchenInv
<1>3. CASE /\ CanTransition(Stage(o), to)
           /\ Publish(o, to)
           /\ taps' = [taps EXCEPT ![h].state = "accepted"]
  <2>1. taps' \in [Hands -> TapRecords]
    BY <1>2, <1>3
  <2>2. ~Free(h)'
    BY <1>1, <1>3 DEF Free
  <2>3. to \in Statuses /\ Stage(o) \in KdsStatuses
    BY <1>2, <1>3 DEF CanTransition, Statuses, KdsStatuses
  <2> HIDE DEF o, to
  <2> QED BY <1>1, <1>2, <1>3, <2>1, <2>2, <2>3, NewsKeeps
<1>4. CASE /\ taps' = [taps EXCEPT ![h].state = IF Stage(o) = to THEN "accepted" ELSE "refused"]
           /\ UNCHANGED <<story, wire>>
  <2>1. taps' \in [Hands -> TapRecords]
    BY <1>2, <1>4
  <2>2. ~Free(h)'
    BY <1>1, <1>4 DEF Free
  <2>3. PageInv' /\ AnswerInv' /\ ~Settled'
    BY <1>1, <1>4, <2>1, <2>2 DEF KitchenInv, PageInv, AnswerInv, Settled, At, Ticket
  <2> QED BY <1>1, <1>4, <2>3, UnsettledKeeps
<1> QED BY <1>3, <1>4 DEF ServeTap

LEMMA SocketKeeps ==
  ASSUME KitchenInv, wire' \subseteq wire,
         UNCHANGED <<story, board, fetch, unsure, taps, heard, missed>>
  PROVE  KitchenInv'
<1>1. StoryInv' /\ LeavesForGood' /\ PageInv' /\ AnswerInv'
  BY DEF KitchenInv, StoryInv, LeavesForGood, PageInv, AnswerInv, At, Ticket
<1>2. BoardInv'
  BY DEF KitchenInv, BoardInv, Settled, Free, Placed, At, Ticket
<1> QED BY <1>1, <1>2 DEF KitchenInv

LEMMA AskBoardKeeps ==
  ASSUME KitchenInv, Ask, UNCHANGED <<story, wire, board, taps, heard>>
  PROVE  KitchenInv'
BY UnsettledKeeps DEF Ask, KitchenInv, PageInv, AnswerInv, Settled

LEMMA AnswerFetchKeeps ==
  ASSUME KitchenInv, AnswerFetch
  PROVE  KitchenInv'
<1>1. /\ fetch' = [state |-> "answered",
                   board |-> [o \in Tickets |-> Ticket(Stage(o))],
                   heard |-> [o \in Tickets |-> Len(story[o])]]
      /\ UNCHANGED <<story, wire, board, taps, heard>>
  BY DEF AnswerFetch
<1>2. \A o \in Tickets : Len(story[o]) \in Nat /\ Stage(o) = At(o, Len(story[o]))
  BY DEF KitchenInv, StoryInv, Stage, At
<1>3. fetch'.board \in Boards /\ fetch'.heard \in [Tickets -> Nat]
  BY <1>1, <1>2 DEF Boards, Ticket
<1>4. \A o \in Tickets : /\ fetch'.heard[o] = Len(story[o])
                         /\ fetch'.board[o] = Ticket(At(o, Len(story[o])))
  BY <1>1, <1>2
<1>5. AnswerInv'
  BY <1>1, <1>2, <1>3, <1>4 DEF AnswerInv, At, Ticket
<1>6. PageInv' /\ ~Settled'
  BY <1>1 DEF KitchenInv, PageInv, Settled
<1> QED BY <1>1, <1>5, <1>6, UnsettledKeeps

LEMMA ReceiveFetchKeeps ==
  ASSUME KitchenInv, ReceiveFetch
  PROVE  KitchenInv'
<1>1. /\ fetch.state = "answered" /\ fetch'.state = "idle"
      /\ board' = fetch.board /\ heard' = fetch.heard
      /\ UNCHANGED <<story, wire, taps>>
  BY DEF ReceiveFetch, NoFetch
<1>2. StoryInv' /\ LeavesForGood'
  BY <1>1 DEF KitchenInv, StoryInv, LeavesForGood, AnswerInv
<1>3. PageInv' /\ AnswerInv'
  BY <1>1 DEF KitchenInv, PageInv, AnswerInv
<1>4. \A o \in Tickets : Placed(o)'
  BY <1>1 DEF KitchenInv, AnswerInv, Placed, At, Ticket
<1> QED BY <1>2, <1>3, <1>4 DEF KitchenInv, BoardInv

LEMMA FailFetchKeeps ==
  ASSUME KitchenInv, FailFetch
  PROVE  KitchenInv'
<1>1. PageInv' /\ AnswerInv' /\ ~Settled'
  BY DEF FailFetch, NoFetch, KitchenInv, PageInv, AnswerInv, Settled
<1> QED BY <1>1, UnsettledKeeps DEF FailFetch

LEMMA TapKeeps ==
  ASSUME KitchenInv, NEW h \in Hands, NEW o \in Tickets,
         NEW to \in KdsStatuses \union {"COMPLETED"}, Tap(h, o, to)
  PROVE  KitchenInv'
<1> DEFINE tap == [state |-> "sent", order |-> o, to |-> to, previous |-> board]
<1>1. /\ fetch'.state = "idle" /\ UNCHANGED <<story, wire, heard>>
      /\ board' = [board EXCEPT ![o] = IF @ = NoTicket THEN @ ELSE Ticket(to)]
      /\ taps' = [taps EXCEPT ![h] = tap]
  BY DEF Tap, NoFetch
<1>2. board \in Boards /\ taps \in [Hands -> TapRecords]
  BY DEF KitchenInv, PageInv
<1>3. board' \in Boards
  BY <1>1, <1>2 DEF Boards, Ticket
<1>4. tap \in TapRecords /\ tap.state = "sent"
  BY <1>2 DEF TapRecords
<1> HIDE DEF tap
<1>5. taps' \in [Hands -> TapRecords] /\ ~Free(h)'
  BY <1>1, <1>2, <1>4 DEF Free
<1>6. PageInv' /\ AnswerInv' /\ ~Settled'
  BY <1>1, <1>3, <1>5 DEF PageInv, AnswerInv, Settled
<1> QED BY <1>1, <1>6, UnsettledKeeps

LEMMA UndoKeeps ==
  ASSUME KitchenInv, NEW h \in Hands, Undo(h)
  PROVE  KitchenInv'
<1>1. taps[h].order \in Tickets
  <2>1. taps[h] \in TapRecords /\ taps[h].state = "toast"
    BY DEF Undo, KitchenInv, PageInv
  <2> QED BY <2>1 DEF TapRecords, NoTap
<1> QED BY <1>1, TapKeeps DEF Undo, KdsStatuses

LEMMA FailTapKeeps ==
  ASSUME KitchenInv, NEW h \in Hands, FailTap(h)
  PROVE  KitchenInv'
<1>1. /\ taps[h].state \in {"sent", "accepted", "refused"}
      /\ taps' = [taps EXCEPT ![h].state = "refused"]
      /\ UNCHANGED <<story, wire, board, fetch, heard>>
      /\ taps \in [Hands -> TapRecords]
  BY DEF FailTap, KitchenInv, PageInv
<1>2. taps' \in [Hands -> TapRecords]
  BY <1>1, TapFields DEF KitchenInv
<1>3. ~Free(h)'
  BY <1>1 DEF Free
<1>4. PageInv' /\ AnswerInv' /\ ~Settled'
  BY <1>1, <1>2, <1>3 DEF KitchenInv, PageInv, AnswerInv, Settled, At, Ticket
<1> QED BY <1>1, <1>4, UnsettledKeeps

LEMMA SettleTapKeeps ==
  ASSUME KitchenInv, NEW h \in Hands, SettleTap(h)
  PROVE  KitchenInv'
<1>1. /\ taps[h].state \in {"accepted", "refused"}
      /\ board' = IF taps[h].state = "refused" THEN taps[h].previous ELSE board
      /\ UNCHANGED <<story, wire, heard>>
      /\ fetch'.state = "asked"
  BY DEF SettleTap, Ask
<1>2. taps[h].order \in Tickets /\ taps[h].previous \in Boards
  BY <1>1, TapFields DEF KitchenInv
<1>3. board' \in Boards
  BY <1>1, <1>2 DEF KitchenInv, PageInv
<1>4. taps' \in [Hands -> TapRecords]
  <2>1. [state |-> "toast", order |-> taps[h].order] \in TapRecords /\ NoTap \in TapRecords
    BY <1>2 DEF TapRecords
  <2> QED BY <2>1 DEF SettleTap, KitchenInv, PageInv
<1>5. PageInv' /\ AnswerInv' /\ ~Settled'
  BY <1>1, <1>3, <1>4 DEF PageInv, AnswerInv, Settled
<1> QED BY <1>1, <1>5, UnsettledKeeps

-------------------------------------------------------------------------------
LEMMA KitchenInitInv == KitchenInit => KitchenInv
<1> SUFFICES ASSUME KitchenInit PROVE KitchenInv
  OBVIOUS
<1>1. \A o \in Tickets : story[o] = <<>> /\ Len(story[o]) = 0
  BY DEF KitchenInit
<1>2. StoryInv
  BY <1>1 DEF KitchenInit, StoryInv
<1>3. LeavesForGood
  BY <1>1 DEF LeavesForGood
<1>4. PageInv
  BY DEF KitchenInit, PageInv, Boards, TapRecords
<1>5. AnswerInv /\ BoardInv
  BY DEF KitchenInit, AnswerInv, BoardInv, Settled
<1> QED BY <1>2, <1>3, <1>4, <1>5 DEF KitchenInv

LEMMA KitchenNextKeeps ==
  ASSUME KitchenInv, KitchenNext
  PROVE  KitchenInv'
<1>1. CASE \E o \in Tickets : Place(o) \/ MoveElsewhere(o)
  BY <1>1, PlaceKeeps, MoveKeeps
<1>2. CASE \E h \in Hands, o \in Tickets : Start(h, o) \/ ConfirmDone(h, o)
  <2>1. "PREPARING" \in KdsStatuses \union {"COMPLETED"} /\ "COMPLETED" \in KdsStatuses \union {"COMPLETED"}
    BY DEF KdsStatuses
  <2> QED BY <1>2, <2>1, TapKeeps DEF Start, ConfirmDone
<1>3. CASE \E h \in Hands : Undo(h) \/ ServeTap(h) \/ FailTap(h) \/ SettleTap(h)
  BY <1>3, UndoKeeps, ServeTapKeeps, FailTapKeeps, SettleTapKeeps
<1>4. CASE \E event \in wire : Deliver(event) \/ DeliverAndRepeat(event) \/ Lose(event)
  <2>1. PICK event \in wire : Deliver(event) \/ DeliverAndRepeat(event) \/ Lose(event)
    BY <1>4
  <2>2. CASE Deliver(event) \/ DeliverAndRepeat(event)
    <3>1. Hear(event) /\ wire' \subseteq wire
      BY <2>2 DEF Deliver, DeliverAndRepeat
    <3> QED BY <3>1, HearKeeps
  <2>3. CASE Lose(event)
    BY <2>3, SocketKeeps DEF Lose
  <2> QED BY <2>1, <2>2, <2>3
<1>5. CASE Connect \/ Disconnect
  BY <1>5, SocketKeeps DEF Connect, Disconnect
<1>6. CASE AnswerFetch
  BY <1>6, AnswerFetchKeeps
<1>7. CASE Poll \/ Refocus
  BY <1>7, AskBoardKeeps DEF Poll, Refocus
<1>8. CASE ReceiveFetch
  BY <1>8, ReceiveFetchKeeps
<1>9. CASE FailFetch
  BY <1>9, FailFetchKeeps
<1> QED BY <1>1, <1>2, <1>3, <1>4, <1>5, <1>6, <1>7, <1>8, <1>9 DEF KitchenNext

LEMMA QuietMeansRight == KitchenInv => QuietBoardIsRight
<1> SUFFICES ASSUME KitchenInv, Quiet, NEW o \in Tickets, heard[o] = Len(story[o]), o \notin missed
             PROVE  BoardRight(o)
  BY DEF QuietBoardIsRight
<1>1. Placed(o)
  BY DEF KitchenInv, BoardInv, Settled, Quiet
<1>2. Len(story[o]) \in Nat /\ story[o] \in Seq(Statuses)
  BY DEF KitchenInv, StoryInv
<1>3. board[o] = Ticket(At(o, Len(story[o])))
  BY <1>1, <1>2 DEF Placed
<1> QED BY <1>2, <1>3 DEF BoardRight, At, Stage

\* A display that has heard the whole story of an order and has nothing under way
\* shows it as the server has it, whatever order events, snapshots, taps and
\* rollbacks crossed in: useKitchenQueue patches one cache from all of them.
THEOREM QuietBoardHolds == Spec => []QuietBoardIsRight
<1>1. Init => KitchenInv
  BY KitchenInitInv DEF Init
<1>2. KitchenInv /\ [Next]_screensVars => KitchenInv'
  <2> SUFFICES ASSUME KitchenInv, [Next]_screensVars PROVE KitchenInv'
    OBVIOUS
  <2>1. CASE KitchenNext
    BY <2>1, KitchenNextKeeps
  <2>2. CASE UNCHANGED kitchenVars
    BY <2>2, SocketKeeps DEF kitchenVars
  <2> QED BY <2>1, <2>2 DEF Next, screensVars
<1>3. KitchenInv => QuietBoardIsRight
  BY QuietMeansRight
<1> QED BY <1>1, <1>2, <1>3, PTL DEF Spec
===============================================================================
