---------------------------- MODULE PostingPromise ----------------------------
(***************************************************************************)
(* What the outbox and the ledger promise together, without any worker,    *)
(* claim, retry or crash: a business transaction makes a journal reference  *)
(* owed when it commits; an owed reference is posted once, and a posting is *)
(* never withdrawn or repeated.                                             *)
(***************************************************************************)
EXTENDS Naturals

CONSTANT Refs            \* the natural references of journal entries

VARIABLES owed,          \* references whose business transaction has committed
          posted         \* number of journal entries that carry each reference

vars == <<owed, posted>>

Init == /\ owed = {}
        /\ posted = [r \in Refs |-> 0]

Commit(r) == /\ owed' = owed \union {r}
             /\ UNCHANGED posted

Post(r) == /\ r \in owed
           /\ posted[r] = 0
           /\ posted' = [posted EXCEPT ![r] = 1]
           /\ UNCHANGED owed

Next == \E r \in Refs : Commit(r) \/ Post(r)

Safety == Init /\ [][Next]_vars

\* The promise with its liveness: what is owed is posted.
Spec == Safety /\ \A r \in Refs : WF_vars(Post(r))
===============================================================================
