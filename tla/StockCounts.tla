------------------------------ MODULE StockCounts ------------------------------
(***************************************************************************)
(* Physical stock counts and manual adjustments of one branch.  A count is *)
(* drafted, its lines are filled in, it is submitted (the balances of that *)
(* moment become the expected quantities) and approved (the differences    *)
(* are applied to stock).  The deduction from the batches is the subject   *)
(* of Stock; here a shelf is the cached quantity alone.                    *)
(***************************************************************************)
EXTENDS Service

CONSTANTS
  Ingredients,  \* all stocked at the branch
  Opening,      \* quantities on the shelves at the start
  Cost,         \* standard cost of a unit
  Counts,       \* StockCount ids
  Counted,      \* quantities the staff may write down
  Deltas,       \* manual adjustments
  Null          \* a quantity not entered

ASSUME StockCountsAssumption == /\ IsFiniteSet(Ingredients)
                                /\ Opening \in [Ingredients -> Nat]
                                /\ Cost \in [Ingredients -> Nat]
                                /\ Counted \subseteq Nat
                                /\ Deltas \subseteq Int \ {0}
                                /\ Null \in Int \ Nat

Shelf(i) == <<"shelf", i>>
Count(c) == <<"count", c>>
Line(c, i) == <<"line", c, i>>

StockCountRows == {Shelf(i) : i \in Ingredients} \union {Count(c) : c \in Counts}
                    \union {Line(c, i) : c \in Counts, i \in Ingredients}

Blank == [counted |-> Null, expected |-> Null]
StockCountInitial(r) == CASE r[1] = "shelf" -> Opening[r[2]]
                          [] r[1] = "count" -> "none"
                          [] OTHER -> Blank

CountStatuses == {"none", "DRAFT", "SUBMITTED", "APPROVED", "CANCELLED"}
Open == {"DRAFT", "SUBMITTED"}

Event(ref, amount) == [kind |-> "event", key |-> ref, amount |-> amount]
Adjustment(c, i, delta) == [kind |-> "adjust", key |-> <<c, i>>, amount |-> delta]

\* Mutant: the decrement does not look at what is there.
ShelveUnchecked(t, i, delta) == /\ MayWrite(t, Shelf(i))
                                /\ Write(t, Shelf(i), db[Shelf(i)] + delta)

\* applyStockDelta: a negative delta needs that much on the shelf.
Shelve(t, i, delta) == /\ MayWrite(t, Shelf(i))
                       /\ db[Shelf(i)] + delta >= 0
                       /\ Write(t, Shelf(i), db[Shelf(i)] + delta)

TooLittle(t, i, delta) == MayWrite(t, Shelf(i)) /\ db[Shelf(i)] + delta < 0

\* An order of the till takes a unit; it commits as a whole (module Orders).
Sell == \E i \in Ingredients :
  /\ Single
  /\ committed[Shelf(i)] > 0
  /\ Put(Shelf(i), committed[Shelf(i)] - 1)
  /\ Logged({Event(<<"SALE", begun>>, 0 - Cost[i])})
  /\ UNCHANGED raced

-------------------------------------------------------------------------------
(* The operations.                                                         *)

\* createStockCount: the partial unique index allows one open count.
CreateStockCount == \E c \in Counts :
  /\ Single
  /\ committed[Count(c)] = "none"
  /\ \A d \in Counts : committed[Count(d)] \notin Open /\ lock[Count(d)] = NoTxn
  /\ Put(Count(c), "DRAFT")
  /\ UNCHANGED <<log, raced>>

\* updateLines looks at the status before its transaction starts.
UpdateLines(t) == \E c \in Counts, i \in Ingredients, q \in Counted :
  /\ committed[Count(c)] = "DRAFT"
  /\ Begin(t, "lines", "write", Count(c), [item |-> i, qty |-> q])

\* Is somebody submitting or deciding this count?
Moving(c) == \/ db[Count(c)] # "DRAFT"
             \/ \E u \in Txns : tx[u].op \in {"submit", "approve"} /\ tx[u].row = Count(c)

WriteLine(t) ==
  LET row == tx[t].row
      line == Line(row[2], tx[t].read.item)
  IN /\ Doing(t, "lines", "write")
     /\ MayWrite(t, line)
     /\ Write(t, line, [db[line] EXCEPT !.counted = tx[t].read.qty])
     /\ raced' = IF Moving(row[2]) THEN raced \union {row} ELSE raced
     /\ GoTo(t, "commit")

LinesOf(t, c) == [i \in Ingredients |-> Seen(t, Line(c, i))]

\* Is somebody filling in a line of this count?
Editing(c) == \E u \in Txns : tx[u].op = "lines" /\ tx[u].row = Count(c)

\* submit, inside its transaction: the count with its lines ...
Submit(t) == \E c \in Counts :
  LET lines == LinesOf(t, c)
      filled == {i \in Ingredients : lines[i].counted # Null}
  IN /\ committed[Count(c)] = "DRAFT"
     /\ filled # {}
     /\ BeginBeside(t, "submit", "balances", Count(c), [left |-> filled],
                    IF Editing(c) THEN {Count(c)} ELSE {})

\* ... the balances of the branch ...
ReadBalances(t) ==
  /\ Doing(t, "submit", "balances")
  /\ Continue(t, "expect", [left |-> tx[t].read.left,
                            stock |-> [i \in Ingredients |-> Seen(t, Shelf(i))]], {})
  /\ UNCHANGED <<db, lock, raced>>

\* ... each becomes the expected quantity of its line ...
Expect(t) == Doing(t, "submit", "expect") /\ \E i \in tx[t].read.left :
  LET line == Line(tx[t].row[2], i)
      left == tx[t].read.left \ {i}
  IN /\ MayWrite(t, line)
     /\ Write(t, line, [db[line] EXCEPT !.expected = tx[t].read.stock[i]])
     /\ Continue(t, IF left = {} THEN "claim" ELSE "expect",
                 [tx[t].read EXCEPT !.left = left], {})
     /\ UNCHANGED raced

\* ... and the draft is claimed.
ClaimDraft(t) ==
  /\ Doing(t, "submit", "claim")
  /\ MayWrite(t, tx[t].row)
  /\ IF db[tx[t].row] = "DRAFT"
       THEN Write(t, tx[t].row, "SUBMITTED") /\ GoTo(t, "commit") /\ UNCHANGED raced
       ELSE Throw(t)

\* approve, inside its transaction: the count with its lines ...
Approve(t) == \E c \in Counts :
  /\ committed[Count(c)] = "SUBMITTED"
  /\ Begin(t, "approve", "claim", Count(c), [lines |-> LinesOf(t, c)])

Variance(line) == IF Null \in {line.counted, line.expected} THEN 0
                  ELSE line.counted - line.expected

Differing(t) == {i \in Ingredients : Variance(tx[t].read.lines[i]) # 0}

\* Mutant: the approval trusts the status it read.
ClaimSubmittedUnguarded(t) ==
  /\ Doing(t, "approve", "claim")
  /\ MayWrite(t, tx[t].row)
  /\ Write(t, tx[t].row, "APPROVED")
  /\ GoTo(t, IF Differing(t) = {} THEN "commit" ELSE "apply")
  /\ UNCHANGED raced

\* ... the submitted count is claimed ...
ClaimSubmitted(t) ==
  /\ Doing(t, "approve", "claim")
  /\ MayWrite(t, tx[t].row)
  /\ IF db[tx[t].row] = "SUBMITTED"
       THEN /\ Write(t, tx[t].row, "APPROVED")
            /\ GoTo(t, IF Differing(t) = {} THEN "commit" ELSE "apply")
            /\ UNCHANGED raced
       ELSE Throw(t)

\* Mutant: shrinkage is not posted.
GainPosted(ref, net) == IF net <= 0 THEN {} ELSE {Event(ref, net)}

\* A variance worth nothing is not posted.
Posted(ref, net) == IF net = 0 THEN {} ELSE {Event(ref, net)}

\* ... every variance is applied, with its adjustment; the event at the end.
ApplyVariance(t) == Doing(t, "approve", "apply") /\ \E i \in Differing(t) :
  LET c == tx[t].row[2]
      done == {e.key[2] : e \in {x \in tx[t].out : x.kind = "adjust"}} \union {i}
      delta == Variance(tx[t].read.lines[i])
      value == [j \in Ingredients |-> Cost[j] * Variance(tx[t].read.lines[j])]
      net == SumFunctionOnSet(value, Differing(t))
      out == tx[t].out \union {Adjustment(c, i, delta)}
  IN /\ Adjustment(c, i, delta) \notin tx[t].out
     /\ \/ TooLittle(t, i, delta) /\ Throw(t)
        \/ /\ Shelve(t, i, delta)
           /\ UNCHANGED raced
           /\ IF done # Differing(t) THEN Continue(t, "apply", tx[t].read, out)
              ELSE Continue(t, "commit", tx[t].read, out \union Posted(<<"STOCKCOUNT", c>>, net))

\* cancel claims the count in either open status, in one statement.
Cancel == \E c \in Counts :
  /\ Single
  /\ committed[Count(c)] \in Open
  /\ Put(Count(c), "CANCELLED")
  /\ UNCHANGED <<log, raced>>

\* createManualAdjustment.
Adjust(t) == \E i \in Ingredients, delta \in Deltas :
  Begin(t, "adjust", "apply", Shelf(i), [delta |-> delta, id |-> begun])

ApplyDelta(t) ==
  LET i == tx[t].row[2]
      delta == tx[t].read.delta
  IN /\ Doing(t, "adjust", "apply")
     /\ \/ TooLittle(t, i, delta) /\ Throw(t)
        \/ /\ Shelve(t, i, delta)
           /\ Continue(t, "commit", tx[t].read,
                       Posted(<<"ADJ", tx[t].read.id>>, Cost[i] * delta))
           /\ UNCHANGED raced

StockCountStep(t) ==
  \/ UpdateLines(t) \/ WriteLine(t)
  \/ Submit(t) \/ ReadBalances(t) \/ Expect(t) \/ ClaimDraft(t)
  \/ Approve(t) \/ ClaimSubmitted(t) \/ ApplyVariance(t)
  \/ Adjust(t) \/ ApplyDelta(t)

StockCountNext == Sell \/ CreateStockCount \/ Cancel \/ \E t \in Txns : StockCountStep(t)

-------------------------------------------------------------------------------
(* Properties.                                                             *)

StockCountTypeOK(v) ==
  /\ \A i \in Ingredients : v[Shelf(i)] \in Nat
  /\ \A c \in Counts : v[Count(c)] \in CountStatuses
  /\ \A c \in Counts, i \in Ingredients :
       v[Line(c, i)] \in [counted : Counted \union {Null}, expected : Nat \union {Null}]

\* The variance of every counted line is applied once, by the approval and by
\* nothing else; a line nobody counted leaves its shelf alone; the event of the
\* count carries the value of its adjustments.  (A line filled in while the count
\* was being submitted, or after, is outside: updateLines looks at the status first.)
VarianceAppliedOnce == desk = "stockroom" =>
  \A c \in Counts : Count(c) \notin raced =>
    LET approved == committed[Count(c)] = "APPROVED"
        line(i) == committed[Line(c, i)]
        adjusted(i) == TotalOf(Entries("adjust", <<c, i>>))
    IN /\ \A i \in Ingredients :
            adjusted(i) = IF approved /\ line(i).counted # Null
                            THEN line(i).counted - line(i).expected ELSE 0
       /\ TotalOf(Entries("event", <<"STOCKCOUNT", c>>)) =
            SumFunctionOnSet([i \in Ingredients |-> Cost[i] * adjusted(i)], Ingredients)
===============================================================================
