------------------------------- MODULE MCKernel -------------------------------
(* The kernel with two or three application tasks.                           *)
EXTENDS Kernel

CONSTANTS a, b, c, idle, sys

MCTask == {a, b, idle}
MCTask3 == {a, b, c, idle}
MCUserTask == {a, b}
MCUserTask3 == {a, b, c}
MCObject == {sys}
MCSymmetry == Permutations(MCUserTask)
MCSymmetry3 == Permutations(MCUserTask3)
=============================================================================
