-------------------------------- MODULE MCMutex --------------------------------
(* A mutex shared by two or three tasks.                                      *)
EXTENDS Mutex

CONSTANTS a, b, c, idle, sys, mutex

MCTask == {a, b, idle}
MCTask3 == {a, b, c, idle}
MCUserTask == {a, b}
MCUserTask3 == {a, b, c}
MCObject == {sys, mutex}
MCTimeOuts == {1, Never}

\* Bound: at most two tasks of a priority; three that only take turns are most of
\* the states.
MCBounds ==
  \A p \in UserPrio : Cardinality({t \in alive : given[t] = p}) <= 2

MCSymmetry == Permutations(MCUserTask)
MCSymmetry3 == Permutations(MCUserTask3)
=============================================================================
