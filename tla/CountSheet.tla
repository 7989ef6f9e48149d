------------------------------- MODULE CountSheet -------------------------------
(***************************************************************************)
(* The page on which a stock count is filled in: what is typed (drafts),   *)
(* the page's copy of the count, which refetches replace and which resets  *)
(* the drafts whenever it changed, and the saved lines on the server.      *)
(***************************************************************************)
EXTENDS Integers

CONSTANTS
  Lines,
  Quantities,    \* what is typed into a line
  Blank,         \* an empty field; on the server, a line not counted
  MaxTyped,      \* bound on quantities typed
  MaxElsewhere   \* bound on sales and on edits by others

VARIABLES
  blind,     \* does the count hide the stock while it is filled in?
  counted,   \* the server's lines
  status,    \* DRAFT, SUBMITTED or CANCELLED
  stock,     \* how often the stock has changed
  page,      \* the cached count
  drafts,    \* what the fields hold
  refetch,   \* the refetch under way
  mutation,     \* the mutation under way
  typed,     \* what was last typed into a line
  excused,   \* what has happened that may lose typing
  effort     \* typing and outside changes used up

sheetVars == <<blind, counted, status, stock, page, drafts, refetch, mutation, typed, excused,
               effort>>

\* getStockCount: the live stock is hidden in a blind draft.
Answer == [lines |-> counted, status |-> status,
           stock |-> IF blind /\ status = "DRAFT" THEN 0 ELSE stock]

NoRefetch == [state |-> "idle"]
Resting == [state |-> "none"]

SheetInit ==
  /\ blind \in BOOLEAN
  /\ counted = [l \in Lines |-> Blank]
  /\ status = "DRAFT"
  /\ stock = 0
  /\ page = Answer
  /\ drafts = counted
  /\ refetch = NoRefetch
  /\ mutation = Resting
  /\ typed = counted
  /\ excused = {}
  /\ effort = [typed |-> 0, elsewhere |-> 0]

-------------------------------------------------------------------------------
(* Elsewhere.                                                              *)

Elsewhere(what) ==
  /\ effort.elsewhere < MaxElsewhere
  /\ effort' = [effort EXCEPT !.elsewhere = @ + 1]
  /\ excused' = excused \union {what}
  /\ UNCHANGED <<blind, page, drafts, refetch, mutation, typed>>

Sale == stock' = stock + 1 /\ Elsewhere("sale") /\ UNCHANGED <<counted, status>>

\* Somebody else saves a line.  It stands also for an edit of an ingredient's name or
\* cost, which the cached count carries as well, in a blind count too.
EditElsewhere(l, q) == /\ status = "DRAFT" /\ counted[l] # q
                       /\ counted' = [counted EXCEPT ![l] = q]
                       /\ Elsewhere("edit") /\ UNCHANGED <<status, stock>>

CancelElsewhere == /\ status = "DRAFT" /\ status' = "CANCELLED"
                   /\ Elsewhere("edit") /\ UNCHANGED <<counted, stock>>

-------------------------------------------------------------------------------
(* The fields.                                                             *)

\* A save is under way, or what it did is not on the page yet.
Hurried == mutation # Resting \/ page.lines # counted \/ page.status # status

Type(l, q) ==
  /\ page.status = "DRAFT" /\ drafts[l] # q
  /\ effort.typed < MaxTyped
  /\ effort' = [effort EXCEPT !.typed = @ + 1]
  /\ drafts' = [drafts EXCEPT ![l] = q]
  /\ typed' = [typed EXCEPT ![l] = q]
  /\ excused' = IF Hurried THEN excused \union {"hurry"} ELSE excused
  /\ UNCHANGED <<blind, counted, status, stock, page, refetch, mutation>>

\* Against the page's copy; an empty field is never sent.
Dirty == {l \in Lines : drafts[l] \notin {Blank, page.lines[l]}}

-------------------------------------------------------------------------------
(* Refetches.                                                              *)

AskAgain == refetch' = [state |-> "asked"]

\* The window gets the focus after a minute.
Refetch == /\ refetch = NoRefetch /\ AskAgain
           /\ UNCHANGED <<blind, counted, status, stock, page, drafts, mutation, typed, excused,
                          effort>>

AnswerRefetch ==
  /\ refetch.state = "asked"
  /\ refetch' = [state |-> "answered", count |-> Answer]
  /\ UNCHANGED <<blind, counted, status, stock, page, drafts, mutation, typed, excused, effort>>

\* Mutant: every refetch resets the drafts.
DraftsAlways(count) == count.lines

\* The effect on [count]: equal data is the same object and leaves the drafts.
DraftsAfter(count) == IF count = page THEN drafts ELSE count.lines

Land ==
  /\ refetch.state = "answered"
  /\ page' = refetch.count
  /\ drafts' = DraftsAfter(refetch.count)
  /\ refetch' = NoRefetch
  /\ UNCHANGED <<blind, counted, status, stock, mutation, typed, excused, effort>>

-------------------------------------------------------------------------------
(* Saving and submitting.                                                  *)

Send(state, submit) ==
  mutation' = [state |-> state, submit |-> submit, lines |-> [l \in Dirty |-> drafts[l]]]

Save == /\ mutation = Resting /\ page.status = "DRAFT" /\ Dirty # {}
        /\ Send("save", FALSE)
        /\ UNCHANGED <<blind, counted, status, stock, page, drafts, refetch, typed, excused,
                       effort>>

\* What is dirty is saved first.
Submit == /\ mutation = Resting /\ page.status = "DRAFT"
          /\ Send(IF Dirty = {} THEN "submit" ELSE "save", TRUE)
          /\ UNCHANGED <<blind, counted, status, stock, page, drafts, refetch, typed, excused,
                       effort>>

Saved(lines) == [l \in Lines |-> IF l \in DOMAIN lines THEN lines[l] ELSE counted[l]]

\* updateLines, then submit: only a draft, and only with a line counted.
ServeSave ==
  /\ mutation.state = "save"
  /\ \/ /\ status = "DRAFT"
        /\ counted' = Saved(mutation.lines)
        /\ mutation' = [mutation EXCEPT !.state = "saved"]
     \/ /\ status # "DRAFT"
        /\ mutation' = [mutation EXCEPT !.state = "failed"]
        /\ UNCHANGED counted
  /\ UNCHANGED <<blind, status, stock, page, drafts, refetch, typed, excused, effort>>

ServeSubmit ==
  /\ mutation.state = "submit"
  /\ \/ /\ status = "DRAFT" /\ \E l \in Lines : counted[l] # Blank
        /\ status' = "SUBMITTED"
        /\ mutation' = [mutation EXCEPT !.state = "submitted"]
     \/ /\ status # "DRAFT" \/ \A l \in Lines : counted[l] = Blank
        /\ mutation' = [mutation EXCEPT !.state = "failed"]
        /\ UNCHANGED status
  /\ UNCHANGED <<blind, counted, stock, page, drafts, refetch, typed, excused, effort>>

\* The request is lost, or its answer is; the page asks for nothing.
LoseAnswer ==
  /\ mutation.state \in {"save", "saved", "submit", "submitted"}
  /\ mutation' = [mutation EXCEPT !.state = "failed"]
  /\ UNCHANGED <<blind, counted, status, stock, page, drafts, refetch, typed, excused, effort>>

\* A success asks for the count again; a save that is to be submitted goes on.
Settle ==
  /\ \/ mutation.state = "saved" /\ ~mutation.submit /\ mutation' = Resting /\ AskAgain
     \/ /\ mutation.state = "saved" /\ mutation.submit
        /\ mutation' = [mutation EXCEPT !.state = "submit"] /\ AskAgain
     \/ mutation.state = "submitted" /\ mutation' = Resting /\ AskAgain
     \/ mutation.state = "failed" /\ mutation' = Resting /\ UNCHANGED refetch
  /\ UNCHANGED <<blind, counted, status, stock, page, drafts, typed, excused, effort>>

-------------------------------------------------------------------------------
SheetNext ==
  \/ Sale \/ CancelElsewhere
  \/ \E l \in Lines, q \in Quantities : EditElsewhere(l, q)
  \/ \E l \in Lines, q \in Quantities \union {Blank} : Type(l, q)
  \/ Refetch \/ AnswerRefetch \/ Land
  \/ Save \/ Submit \/ ServeSave \/ ServeSubmit \/ LoseAnswer \/ Settle

-------------------------------------------------------------------------------
\* A submitted count holds what was last typed into each field that was not left
\* empty: refetches, saves and the submission's own save lose and add nothing;
\* unless somebody else edited the count or one of its ingredients, something was
\* sold while the page of a count that is not blind was open, or a field was typed
\* into before the page showed what a save did.
CountAsTyped ==
  status = "SUBMITTED" /\ excused \subseteq (IF blind THEN {"sale"} ELSE {}) =>
    \A l \in Lines : typed[l] \in {Blank, counted[l]}
===============================================================================
