--------------------------- MODULE MCEventConsumer ---------------------------
(* Two events of one hour; analytics can never parse the second.             *)
EXTENDS EventConsumer

CONSTANTS e1, e2

MCHourOf == [e \in Events |-> 0]
MCKindOf == [e \in Events |-> IF e = e1 THEN "completed" ELSE "finalized"]
MCRejects == [g \in Groups |-> IF g = "analytics" THEN {e2} ELSE {}]
=============================================================================
