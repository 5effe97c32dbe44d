------------------------------ MODULE Allocator ------------------------------
(***************************************************************************)
(* What a heap promises to the tasks that use it.  A block is an interval  *)
(* of the heap, header included.  No two tasks ever have memory in common, *)
(* a request that is granted gets as much as it asked for, and a request   *)
(* is only turned down when no gap between the blocks is large enough.     *)
(***************************************************************************)
EXTENDS Integers

CONSTANTS Client,    \* the tasks
          Sizes,     \* what they ask for
          Span(_),   \* the memory a request needs, with its header
          None

VARIABLES length,    \* of the heap
          blocks,    \* the blocks that the tasks have: [at, span]
          asks       \* what each task is waiting for

Overlap(b, c) == b.at < c.at + c.span /\ c.at < b.at + b.span

\* A gap that has room for n bytes and the header.
HasRoom(n) ==
  \E at \in 0..(length - Span(n)) :
    \A b \in blocks : ~ Overlap(b, [at |-> at, span |-> Span(n)])

Init == blocks = {} /\ asks = [c \in Client |-> None]

Ask(c) ==
  /\ asks[c] = None
  /\ \E n \in Sizes : asks' = [asks EXCEPT ![c] = n]
  /\ UNCHANGED blocks

Grant(c) ==
  /\ asks[c] # None
  /\ \E at \in 0..(length - 1) : \E span \in Span(asks[c])..(length - at) :
       /\ \A b \in blocks : ~ Overlap(b, [at |-> at, span |-> span])
       /\ blocks' = blocks \cup {[at |-> at, span |-> span]}
  /\ asks' = [asks EXCEPT ![c] = None]

Refuse(c) ==
  /\ asks[c] # None /\ ~ HasRoom(asks[c])
  /\ asks' = [asks EXCEPT ![c] = None]
  /\ UNCHANGED blocks

Release == \E b \in blocks : blocks' = blocks \ {b} /\ UNCHANGED asks

Next == Release \/ \E c \in Client : Ask(c) \/ Grant(c) \/ Refuse(c)

Spec == Init /\ [][Next /\ UNCHANGED length]_<<length, blocks, asks>>
=============================================================================
