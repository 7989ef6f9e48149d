------------------------------ MODULE Settlements ------------------------------
(***************************************************************************)
(* The daily settlement of a branch.  A submission looks for today's row,  *)
(* computes what the till should hold and then updates that row by id, or  *)
(* creates one (no unique index on branch and day); the approval claims a  *)
(* PENDING row.                                                            *)
(***************************************************************************)
EXTENDS Service

CONSTANTS SettlementIds

Settlement(s) == <<"settlement", s>>
Till == <<"till">>   \* netAmount of today's collected orders less the expenses
SettlementRows == {Settlement(s) : s \in SettlementIds} \union {Till}

NoSettlement == [st |-> "none", expected |-> 0]
SettlementInitial(r) == IF r = Till THEN 0 ELSE NoSettlement

Todays == {s \in SettlementIds : committed[Settlement(s)].st # "none"}

\* An order is paid, or an expense (createExpense): one event each.
Collect == \E amount \in {1, -1} :
  /\ Single
  /\ Put(Till, committed[Till] + amount)
  /\ UNCHANGED <<log, raced>>

\* Mutant: an approved settlement can be submitted again.
FindAnySettlement(t) ==
  \/ \E s \in Todays :
       Begin(t, "settle", "expect", Settlement(s), [was |-> committed[Settlement(s)]])
  \/ Todays = {} /\ Begin(t, "settle", "expect", Till, [was |-> NoSettlement])

\* submitSettlement: today's row (any of them), not approved; or none.
FindSettlement(t) ==
  \/ \E s \in Todays :
       /\ committed[Settlement(s)].st # "APPROVED"
       /\ Begin(t, "settle", "expect", Settlement(s), [was |-> committed[Settlement(s)]])
  \/ Todays = {} /\ Begin(t, "settle", "expect", Till, [was |-> NoSettlement])

\* calculateExpectedCash: its four aggregates are one figure here.
ExpectCash(t) ==
  /\ Doing(t, "settle", "expect")
  /\ Continue(t, "save", [was |-> tx[t].read.was, expected |-> committed[Till]], {})
  /\ UNCHANGED <<db, lock, raced>>

Saved(t) == [st |-> "PENDING", expected |-> tx[t].read.expected]

\* The row found is updated by id, whatever it has become ...
Resubmit(t) ==
  LET row == tx[t].row
  IN /\ Doing(t, "settle", "save")
     /\ row # Till
     /\ Put(row, Saved(t))
     /\ Races(row, tx[t].read.was)
     /\ Finish(t)
     /\ UNCHANGED log

Submitted(s) == db[Settlement(s)].st # "none"

\* ... or a row is created, whatever has been created meanwhile.
CreateSettlement(t) == \E s \in FreshId(SettlementIds, Submitted) :
  /\ Doing(t, "settle", "save")
  /\ tx[t].row = Till
  /\ Put(Settlement(s), Saved(t))
  /\ raced' = IF Todays = {} THEN raced ELSE raced \union {Till}
  /\ Finish(t)
  /\ UNCHANGED log

\* approveSettlement reads the row (for the branch) and then claims it.
ReadSettlement(t) == \E s \in Todays : Begin(t, "signoff", "claim", Settlement(s), NotRead)

ClaimPending(t) ==
  LET row == tx[t].row
      entry == [kind |-> "signoff", key |-> row[2], amount |-> db[row].expected]
  IN /\ Doing(t, "signoff", "claim")
     /\ MayWrite(t, row)
     /\ \/ db[row].st # "PENDING" /\ Throw(t)
        \/ /\ db[row].st = "PENDING"
           /\ Write(t, row, [db[row] EXCEPT !.st = "APPROVED"])
           /\ Continue(t, "commit", NotRead, {entry})
           /\ UNCHANGED raced

SettlementStep(t) == \/ FindSettlement(t) \/ ExpectCash(t) \/ Resubmit(t)
                     \/ CreateSettlement(t) \/ ReadSettlement(t) \/ ClaimPending(t)

SettlementNext == Collect \/ \E t \in Txns : SettlementStep(t)

-------------------------------------------------------------------------------
(* Properties.                                                             *)

SettlementTypeOK(v) ==
  /\ v[Till] \in Int
  /\ \A s \in SettlementIds :
       v[Settlement(s)] \in [st : {"none", "PENDING", "APPROVED"}, expected : Int]

SignOffs == {e \in DOMAIN log : e.kind = "signoff"}

\* A day is signed off once and its figures stand, whatever is submitted later --
\* unless a submission that read the row before was written after the approval, or
\* two first submissions each created a row.
SettledOnce ==
  desk = "settlements" /\ raced = {} =>
    /\ SumFunctionOnSet(log, SignOffs) <= 1
    /\ \A e \in SignOffs :
         committed[Settlement(e.key)] = [st |-> "APPROVED", expected |-> e.amount]
===============================================================================
