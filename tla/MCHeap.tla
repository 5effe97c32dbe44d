-------------------------------- MODULE MCHeap --------------------------------
(* A heap of twelve bytes, or of fourteen that an application provided, with   *)
(* headers and alignment of two, and three tasks of different priorities.     *)
EXTENDS Heap

CONSTANTS t1, t2, t3

MCClient == {t1, t2, t3}
MCPriority == [c \in MCClient |-> CASE c = t1 -> 1 [] c = t2 -> 2 [] c = t3 -> 3]
MCRequests == {[nmemb |-> 1, size |-> 1], [nmemb |-> 1, size |-> 3],
               [nmemb |-> 2, size |-> 2]}
=============================================================================
