-------------------------------- MODULE FifoPost --------------------------------
(***************************************************************************)
(* What the posting of calls from interrupts promises: the calls, numbered *)
(* as they are posted, are published one by one, in order, each once.      *)
(***************************************************************************)
EXTENDS Naturals

VARIABLES posted,    \* the number of the last call posted
          published  \* the number of the last call published
vars == <<posted, published>>

Init == posted = 0 /\ published = 0

Post == posted' = posted + 1 /\ UNCHANGED published

Publish == /\ published < posted
           /\ published' = published + 1 /\ UNCHANGED posted

Next == Post \/ Publish

Spec == Init /\ [][Next]_vars
=============================================================================
