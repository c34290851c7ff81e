------------------------------- MODULE Delivery -------------------------------
(***************************************************************************)
(* What the consumers promise about every published event: each consumer   *)
(* group either gets its effect, once and for good, or puts it aside for   *)
(* an operator, or still has it to come.  Nothing is lost in between,      *)
(* except by a group that has a deaf process: one that was told to stop    *)
(* before its consumer ran, and passes the messages it is handed.          *)
(***************************************************************************)
CONSTANTS Groups, Events

VARIABLES fate,     \* per group and event: unpublished, coming, applied, parked, lost
          deaf      \* the groups with a deaf process

Init ==
  /\ fate = [g \in Groups |-> [e \in Events |-> "unpublished"]]
  /\ deaf = {}

\* A publication is for every group; events put aside or lost earlier come again.
Publish(e) ==
  /\ fate' = [g \in Groups |->
                [fate[g] EXCEPT ![e] = IF @ = "applied" THEN "applied" ELSE "coming"]]
  /\ UNCHANGED deaf

\* A member that was taken for dead may still apply what others gave up on, or put
\* aside what they lost.
Apply(g, e) ==
  /\ fate[g][e] \in {"coming", "parked", "lost"}
  /\ fate' = [fate EXCEPT ![g][e] = "applied"]
  /\ UNCHANGED deaf

PutAside(g, e) ==
  /\ fate[g][e] = "lost"
  /\ fate' = [fate EXCEPT ![g][e] = "parked"]
  /\ UNCHANGED deaf

\* A group moves past several events at once: it puts them aside, or a deaf process
\* of it has lost them.
Pass(g, S, f) ==
  /\ \A e \in S : fate[g][e] = "coming" /\ (f[e] = "lost" => g \in deaf)
  /\ fate' = [fate EXCEPT ![g] = [e \in Events |-> IF e \in S THEN f[e] ELSE fate[g][e]]]
  /\ UNCHANGED deaf

\* Processes are told to stop too early, and deaf ones end.
Restart == deaf' \in SUBSET Groups /\ UNCHANGED fate

Next ==
  \/ \E e \in Events : Publish(e)
  \/ \E g \in Groups, e \in Events : Apply(g, e) \/ PutAside(g, e)
  \/ \E g \in Groups, S \in SUBSET Events :
       \E f \in [S -> {"parked", "lost"}] : Pass(g, S, f)
  \/ Restart

Spec == Init /\ [][Next]_<<fate, deaf>>
=============================================================================
