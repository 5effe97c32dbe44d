------------------------------ MODULE MCSemaphore ------------------------------
(* A semaphore shared by two tasks and interrupts.                  *)
EXTENDS Semaphore

CONSTANTS a, b, idle, sys, sem

MCTask == {a, b, idle}
MCUserTask == {a, b}
MCObject == {sys, sem}
MCTimeOuts == {1, Never}
=============================================================================
