------------------------------- MODULE Production -------------------------------
(***************************************************************************)
(* Production orders of a central kitchen: raw ingredients become finished *)
(* ones.  The board moves an order by id; completing it, in a transaction, *)
(* consumes and produces, and then sets the status by id as well.          *)
(***************************************************************************)
EXTENDS StockCounts

CONSTANTS
  Jobs,     \* ProductionOrder ids; the number of an order is its own (a sequence)
  Target,   \* the ingredient a job makes
  Size,     \* quantityToProduce of a job
  Recipe    \* per ingredient made, the quantity of each raw one in a unit

ASSUME ProductionAssumption == /\ Target \in [Jobs -> Ingredients]
                               /\ Size \in [Jobs -> Nat \ {0}]
                               /\ Recipe \in [Ingredients -> [Ingredients -> Nat]]

Job(j) == <<"job", j>>
ProductionRows == {Job(j) : j \in Jobs}
JobStatuses == {"none", "PLANNED", "IN_PROGRESS", "COMPLETED", "CANCELLED"}
Terminal == {"COMPLETED", "CANCELLED"}

Needed(j, i) == Recipe[Target[j]][i] * Size[j]
RawOf(j) == {i \in Ingredients : Needed(j, i) > 0}
RawCost(j) == SumFunctionOnSet([i \in RawOf(j) |-> Cost[i] * Needed(j, i)], RawOf(j))
FinishedValue(j) == Cost[Target[j]] * Size[j]

CreateProductionOrder == \E j \in Jobs :
  /\ Single
  /\ committed[Job(j)] = "none"
  /\ Put(Job(j), "PLANNED")
  /\ UNCHANGED <<log, raced>>

\* Mutant: the board may move an order out of its last column.
MoveJobFreely(t) == \E j \in Jobs, st \in JobStatuses \ {"none", "COMPLETED"} :
  /\ committed[Job(j)] # "none"
  /\ Begin(t, "move", "set", Job(j), [st |-> committed[Job(j)], to |-> st])

\* updateOrderStatus reads the order ...
MoveJob(t) == \E j \in Jobs, st \in JobStatuses \ {"none", "COMPLETED"} :
  /\ committed[Job(j)] \notin {"none"} \union Terminal
  /\ Begin(t, "move", "set", Job(j), [st |-> committed[Job(j)], to |-> st])

\* ... and sets its status by id.
SetJob(t) ==
  LET row == tx[t].row
  IN /\ Doing(t, "move", "set")
     /\ Put(row, tx[t].read.to)
     /\ Races(row, tx[t].read.st)
     /\ Finish(t)
     /\ UNCHANGED log

\* completeProductionOrder, inside its transaction: the order as it is ...
Complete(t) == \E j \in Jobs :
  /\ committed[Job(j)] \notin {"none"} \union Terminal
  /\ RawOf(j) # {}
  /\ Begin(t, "complete", "raw", Job(j), [st |-> committed[Job(j)], left |-> RawOf(j)])

\* ... the raw ingredients ...
TakeRaw(t) == Doing(t, "complete", "raw") /\ \E i \in tx[t].read.left :
  LET left == tx[t].read.left \ {i}
      taken == 0 - Needed(tx[t].row[2], i)
  IN \/ TooLittle(t, i, taken) /\ Throw(t)
     \/ /\ Shelve(t, i, taken)
        /\ Continue(t, IF left = {} THEN "goods" ELSE "raw",
                    [tx[t].read EXCEPT !.left = left], {})
        /\ UNCHANGED raced

\* ... the finished goods ...
AddFinished(t) ==
  LET j == tx[t].row[2]
  IN /\ Doing(t, "complete", "goods")
     /\ Shelve(t, Target[j], Size[j])
     /\ GoTo(t, "set")
     /\ UNCHANGED raced

\* ... the status, by id, and the event if the raw material costs anything.
SetCompleted(t) ==
  LET j == tx[t].row[2]
      done == [kind |-> "made", key |-> j, amount |-> Size[j]]
  IN /\ Doing(t, "complete", "set")
     /\ MayWrite(t, Job(j))
     /\ Write(t, Job(j), "COMPLETED")
     /\ Races(Job(j), tx[t].read.st)
     /\ Continue(t, "commit", tx[t].read, {done} \union
          IF RawCost(j) > 0 THEN {Event(<<"PROD", j>>, FinishedValue(j) - RawCost(j))} ELSE {})

ProductionStep(t) == \/ MoveJob(t) \/ SetJob(t)
                     \/ Complete(t) \/ TakeRaw(t) \/ AddFinished(t) \/ SetCompleted(t)

ProductionNext == CreateProductionOrder \/ \E t \in Txns : ProductionStep(t)

-------------------------------------------------------------------------------
(* Properties.                                                             *)

\* Goods are made once for a completed order and never for another, unless the
\* order was written from a read that was out of date: neither the board nor the
\* completion looks at the status again.
MadeOnce == desk = "stockroom" =>
  \A j \in Jobs : Job(j) \notin raced =>
    TotalOf(Entries("made", j)) = IF committed[Job(j)] = "COMPLETED" THEN Size[j] ELSE 0

\* The journal posts a reference once: an event counts once, however often it is told.
EventsTold == {e \in DOMAIN log : e.kind = "event"}
BookValue == SumFunctionOnSet([e \in EventsTold |-> e.amount], EventsTold)

\* What came onto the shelves of the branch since the start, at standard cost.
ShelvesValue ==
  SumFunctionOnSet([i \in Ingredients |-> Cost[i] * (committed[Shelf(i)] - Opening[i])], Ingredients)

\* docs/architecture.md: the inventory account follows the shelves.  The journal
\* posts a reference once, so an order completed twice breaks it; nothing else does.
\* Sales, counts, adjustments and production share the shelves.
BooksFollowShelves ==
  (\A j \in Jobs : Job(j) \notin raced) => ShelvesValue = BookValue
===============================================================================
