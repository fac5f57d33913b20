--------------------------- MODULE MCDispatchQueue ---------------------------
(* Three tasks, two of one session: the smallest load in which a busy       *)
(* session's second task stands before another session's in the queue.      *)
EXTENDS DispatchQueue

CONSTANTS a1, a2, b1, sa, sb

MCTasks == {a1, a2, b1}
MCSessions == {sa, sb}
MCSessionOf == [t \in MCTasks |-> IF t = b1 THEN sb ELSE sa]
=============================================================================
