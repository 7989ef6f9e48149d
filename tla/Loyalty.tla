-------------------------------- MODULE Loyalty --------------------------------
(***************************************************************************)
(* The tier of a member.  A listener of every order computes the lifetime  *)
(* spend with an aggregate, reads the member and writes the tier by id if  *)
(* it differs; voids and refunds have no such listener.                    *)
(***************************************************************************)
EXTENDS Service

CONSTANTS
  Members,
  Prices,      \* net amounts an order may have
  TierFrom     \* lifetime spend each tier starts at

ASSUME LoyaltyAssumption ==
  /\ Prices \subseteq Nat
  /\ "REGULAR" \in DOMAIN TierFrom /\ TierFrom["REGULAR"] = 0
  /\ \A tier \in DOMAIN TierFrom \ {"REGULAR"} : TierFrom[tier] \in Nat \ {0}

Spend(m) == <<"spend", m>>   \* the sum the aggregate returns
Member(m) == <<"member", m>>
LoyaltyRows == {Spend(m) : m \in Members} \union {Member(m) : m \in Members}

NewMember == [tier |-> "REGULAR", hidden |-> FALSE]
LoyaltyInitial(r) == IF r[1] = "spend" THEN 0 ELSE NewMember

\* The highest tier the spend reaches.
TierOf(spend) == CHOOSE tier \in DOMAIN TierFrom :
  /\ TierFrom[tier] <= spend
  /\ \A other \in DOMAIN TierFrom : TierFrom[other] <= spend => TierFrom[other] <= TierFrom[tier]

\* An order of a member commits (module Orders); its listener starts.
Buy(t) == \E m \in Members, amount \in Prices :
  /\ tx[t].op = "none"
  /\ OneMore
  /\ Put(Spend(m), committed[Spend(m)] + amount)
  /\ tx' = [tx EXCEPT ![t] = [op |-> "tier", pc |-> "spend", row |-> Member(m),
                              read |-> NotRead, out |-> {}]]
  /\ UNCHANGED <<log, raced, desk>>

\* A void or a refund takes an order out of the aggregate.
Reverse == \E m \in Members, amount \in Prices :
  /\ Single
  /\ committed[Spend(m)] >= amount
  /\ Put(Spend(m), committed[Spend(m)] - amount)
  /\ Logged({[kind |-> "reversal", key |-> m, amount |-> amount]})
  /\ UNCHANGED raced

\* checkAndUpdateTier: the aggregate ...
ReadSpend(t) ==
  /\ Doing(t, "tier", "spend")
  /\ Continue(t, "member", [spend |-> committed[Spend(tx[t].row[2])]], {})
  /\ UNCHANGED <<db, lock, raced>>

\* ... the member, whose tier may be right already ...
ReadMember(t) ==
  /\ Doing(t, "tier", "member")
  /\ IF committed[tx[t].row].tier = TierOf(tx[t].read.spend)
       THEN Finish(t) /\ UNCHANGED <<committed, log>>
       ELSE GoTo(t, "write")
  /\ UNCHANGED <<db, lock, raced>>

\* Mutant: the tier is only ever raised from REGULAR.
WriteFirstTier(t) ==
  LET m == tx[t].row[2]
  IN /\ Doing(t, "tier", "write")
     /\ IF db[Member(m)].tier # "REGULAR" THEN UNCHANGED <<db, committed, lock>>
        ELSE Put(Member(m), [db[Member(m)] EXCEPT !.tier = TierOf(tx[t].read.spend)])
     /\ Races(Spend(m), tx[t].read.spend)
     /\ Finish(t)
     /\ UNCHANGED log

\* ... and the tier, by id.
WriteTier(t) ==
  LET m == tx[t].row[2]
  IN /\ Doing(t, "tier", "write")
     /\ Put(Member(m), [db[Member(m)] EXCEPT !.tier = TierOf(tx[t].read.spend)])
     /\ Races(Spend(m), tx[t].read.spend)
     /\ Finish(t)
     /\ UNCHANGED log

\* anonymize leaves the tier as it is.
Anonymize == \E m \in Members :
  /\ Single
  /\ ~committed[Member(m)].hidden
  /\ Put(Member(m), [committed[Member(m)] EXCEPT !.hidden = TRUE])
  /\ UNCHANGED <<log, raced>>

LoyaltyStep(t) == Buy(t) \/ ReadSpend(t) \/ ReadMember(t) \/ WriteTier(t)
LoyaltyNext == Reverse \/ Anonymize \/ \E t \in Txns : LoyaltyStep(t)

-------------------------------------------------------------------------------
(* Properties.                                                             *)

LoyaltyTypeOK(v) == \A m \in Members :
  v[Spend(m)] \in Nat /\ v[Member(m)] \in [tier : DOMAIN TierFrom, hidden : BOOLEAN]

Evaluating(m) == \E t \in Txns : tx[t].op = "tier" /\ tx[t].row = Member(m)

\* Once the listeners of a member are done, the tier is that of the lifetime spend,
\* unless an order came between an aggregate and its write, an order was reversed
\* since, or a listener died.
TierFollowsSpend == desk = "loyalty" =>
  \A m \in Members :
    Evaluating(m) \/ Spend(m) \in raced \/ Entries("reversal", m) # {}
      \/ committed[Member(m)].tier = TierOf(committed[Spend(m)])
===============================================================================
