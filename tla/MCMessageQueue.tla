----------------------------- MODULE MCMessageQueue -----------------------------
(* A queue of two messages, shared by two tasks and interrupts.                 *)
EXTENDS MessageQueue

CONSTANTS a, b, idle, sys, queue, m1, m2

MCTask == {a, b, idle}
MCUserTask == {a, b}
MCObject == {sys, queue}
MCDisciplines == {"polls", "ranked"} \cup MCUserTask
MCTimeOuts == {1, Never}
MCSymmetry == Permutations(MCUserTask) \cup Permutations(Message)
=============================================================================
