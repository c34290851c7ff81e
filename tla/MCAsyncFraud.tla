----------------------------- MODULE MCAsyncFraud -----------------------------
(* Four events, two of them at the same time.  Three are of account a1, the   *)
(* first is not but comes from the same address, and just falls into the      *)
(* window of the second and third, not into that of the fourth.               *)
EXTENDS AsyncFraud

CONSTANTS e1, e2, e3, e4, a1, a2

MCAccountOf == [e \in Events |-> IF e = e1 THEN a2 ELSE a1]
MCTimeOf == [e \in Events |->
  CASE e = e1 -> 1 [] e = e2 -> 3 [] e = e3 -> 3 [] e = e4 -> 4]
MCSignalsOf == [e \in Events |->
  CASE e = e2 -> {"address"} [] e = e4 -> {"device"} [] OTHER -> {"address", "device"}]
=============================================================================
