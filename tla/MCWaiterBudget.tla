--------------------------- MODULE MCWaiterBudget ---------------------------
(* Values for the constants of WaiterBudget. *)
EXTENDS WaiterBudget

\* The callers in Big cost five bytes, the others one.
CONSTANT Big

MCCost == [c \in Callers |-> IF c \in Big THEN 5 ELSE 1]
=============================================================================
