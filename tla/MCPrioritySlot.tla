--------------------------- MODULE MCPrioritySlot ---------------------------
(* Two query batches and three index batches share the slot. *)
EXTENDS PrioritySlot, TLC

CONSTANTS q1, q2, i1, i2, i3

MCTasks == {q1, q2, i1, i2, i3}
MCPriority == [t \in MCTasks |-> IF t \in {q1, q2} THEN 0 ELSE 1]

=============================================================================
