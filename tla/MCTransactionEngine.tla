------------------------- MODULE MCTransactionEngine -------------------------
(***************************************************************************)
(* Instances of TransactionEngine for TLC.  ann owns two accounts, so two  *)
(* requests for her meet on the advisory lock and not on the row; bob owns *)
(* one, so that one id can be in flight under two owners.                  *)
(***************************************************************************)
EXTENDS TransactionEngine, TLC

CONSTANTS r1, r2, ann, bob, a1, a2, b1, t1, t2, t3

MCOwner == (a1 :> ann) @@ (a2 :> ann) @@ (b1 :> bob)

Debit(id, a, n) == [id |-> id, account |-> a, type |-> "DEBIT", amount |-> n,
                    user |-> MCOwner[a], role |-> "CUSTOMER"]

Credit(id, a, n) == [id |-> id, account |-> a, type |-> "CREDIT", amount |-> n,
                     user |-> bob, role |-> "ADMIN"]

\* Three ids fought over by two debits of one row, which together would empty it,
\* a credit, a sibling account and a foreign one; a2 opens while requests arrive.
MCStatus == (a1 :> "ACTIVE") @@ (a2 :> "ABSENT") @@ (b1 :> "ACTIVE")
MCOpening == (a1 :> 3) @@ (a2 :> 0) @@ (b1 :> 4)
MCInputs == {Debit(t1, a1, 3), Debit(t2, a1, 1), Credit(t3, a1, 2),
             Credit(t2, a2, 1), Debit(t1, b1, 3)}
=============================================================================
