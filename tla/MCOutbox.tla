------------------------------- MODULE MCOutbox -------------------------------
(* Small instances of Outbox: which rows share a reference, which rows are   *)
(* malformed, how many faults of each kind may happen.                       *)
EXTENDS Outbox, TLC

CONSTANTS w1, w2

OneEvent  == {1}
TwoEvents == {1, 2}

NoneMalformed == {}
Second        == {2}

OneRef  == [e \in Events |-> "PO-1"]

NoFaults      == [k \in FaultKinds |-> 0]
ListenerFault == [NoFaults EXCEPT !["listener"] = 1]
DbAndNotice   == [NoFaults EXCEPT !["database"] = 1, !["notice"] = 1]
OneOfEach     == [k \in FaultKinds |-> 1]

WorkerSymmetry == Permutations(Workers)
===============================================================================
