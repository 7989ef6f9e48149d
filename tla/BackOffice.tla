------------------------------- MODULE BackOffice -------------------------------
(***************************************************************************)
(* The back-office services over one database.  The stockroom's services   *)
(* (counts, adjustments, production) share the shelves; the other          *)
(* departments share no row with anybody, so each behaviour is that of one *)
(* department, chosen at the start.                                        *)
(***************************************************************************)
EXTENDS Production, Reordering, Settlements, Staff, Loyalty, Journal

AllRows == StockCountRows \union ProductionRows \union ReorderRows
             \union SettlementRows \union StaffRows \union LoyaltyRows \union JournalRows

ASSUME RowsAssumption == Rows = AllRows

InitialOf(r) == CASE r \in StockCountRows -> StockCountInitial(r)
                  [] r \in ProductionRows -> "none"
                  [] r \in ReorderRows -> ReorderInitial(r)
                  [] r \in SettlementRows -> SettlementInitial(r)
                  [] r \in StaffRows -> StaffInitial(r)
                  [] r \in LoyaltyRows -> LoyaltyInitial(r)
                  [] r \in JournalRows -> JournalInitial(r)
Initial == [r \in Rows |-> InitialOf(r)]

Init == ServiceInit(Initial)

\* A listener that dies leaves the tier as it was.
Lost(t) == IF tx[t].op = "tier" THEN {Spend(tx[t].row[2])} ELSE {}

Next ==
  \/ desk = "stockroom" /\ (StockCountNext \/ ProductionNext)
  \/ desk = "reordering" /\ ReorderNext
  \/ desk = "settlements" /\ SettlementNext
  \/ desk = "staff" /\ StaffNext
  \/ desk = "loyalty" /\ LoyaltyNext
  \/ desk = "journal" /\ JournalNext
  \/ \E t \in Txns : Commit(t) \/ Abort(t, Lost(t))

serviceVars == <<db, committed, lock, tx, log, begun, raced, desk>>

Spec == Init /\ [][Next]_serviceVars

\* Every row keeps its type, and nothing uncommitted outlives its transaction.
TypeOK == /\ ServiceTypeOK
          /\ \A v \in {db, committed} :
               /\ StockCountTypeOK(v)
               /\ ReorderTypeOK(v)
               /\ SettlementTypeOK(v)
               /\ StaffTypeOK(v)
               /\ LoyaltyTypeOK(v)
               /\ JournalTypeOK(v)
===============================================================================
