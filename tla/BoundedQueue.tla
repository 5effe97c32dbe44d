------------------------------ MODULE BoundedQueue ------------------------------
(* What a message queue promises: messages come out in the order they went in,  *)
(* none is lost or seen twice, and there are never more than its capacity.      *)
EXTENDS Naturals, Sequences

CONSTANTS Message, Capacity
VARIABLES contents

Init == contents = <<>>

Put == /\ Len(contents) < Capacity
       /\ \E m \in Message : contents' = Append(contents, m)
Get == contents # <<>> /\ contents' = Tail(contents)
Clear == contents' = <<>>

Spec == Init /\ [][Put \/ Get \/ Clear]_contents
=============================================================================
