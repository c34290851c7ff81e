----------------------------- MODULE MCSettlement -----------------------------
(***************************************************************************)
(* Instances of Settlement for TLC: one account on which every transaction *)
(* meets every other, and the credit c whose money the debits can spend.   *)
(***************************************************************************)
EXTENDS Settlement, TLC

CONSTANTS c, d, e, acc, l1, l2, f1, f2, s1, s2

Instances == Permutations({l1, l2}) \cup Permutations({f1, f2})
               \cup Permutations({s1, s2})

OneAccount == [t \in Txns |-> acc]
Types == [t \in Txns |-> IF t = c THEN "CREDIT" ELSE "DEBIT"]
Amounts == [t \in Txns |-> IF t = e THEN 1 ELSE 2]
OpeningTwo == (acc :> 2)
OpeningOne == (acc :> 1)
=============================================================================
