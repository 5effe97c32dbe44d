-------------------------------- MODULE IntPost --------------------------------
(***************************************************************************)
(* os_int_post.c: interrupt service routines, which preempt each other and *)
(* everything else, put calls into a ring that the software interrupt, of  *)
(* the lowest priority, empties.  The four fields of a ring entry are      *)
(* abstracted to the number of the call that wrote them, 0 for the type    *)
(* OS_INT_POST_OBJ_NONE.                                                   *)
(***************************************************************************)
EXTENDS Integers, Sequences

CONSTANTS Capacity,       \* CONFIG_OS_INT_POST_NUM
          MaxLevel,       \* interrupt priorities that preempt each other
          MaxOutstanding, \* calls in the ring at a time
          MaxPosts        \* bound on the calls of a behaviour

VARIABLES ring,      \* _int_post_objs
          post,      \* _post_pos
          pull,      \* _pull_pos
          isr,       \* the routines in os_int_post, the innermost last
          swPending, \* the software interrupt is pending
          handler,   \* where SW_Handler is
          posted,    \* the number of the last call posted
          published  \* the number of the last call published
vars == <<ring, post, pull, isr, swPending, handler, posted, published>>

ASSUME PostAssumption ==
  /\ Capacity \in Nat \ {0} /\ MaxLevel \in Nat
  /\ MaxOutstanding \in Nat /\ MaxPosts \in Nat

Position == 0..(Capacity - 1)
Frame == [slot : Position, call : Nat, filled : BOOLEAN]

TypeOK ==
  /\ ring \in [Position -> Nat]
  /\ post \in Position /\ pull \in Position
  /\ isr \in Seq(Frame)
  /\ swPending \in BOOLEAN
  /\ handler \in {"off", "entered", "test", "handle", "advance", "leave"}
  /\ posted \in Nat /\ published \in Nat

os_int_post_init ==
  /\ ring = [i \in Position |-> 0]
  /\ post = 0 /\ pull = 0

Init == /\ os_int_post_init
        /\ isr = <<>> /\ swPending = FALSE /\ handler = "off"
        /\ posted = 0 /\ published = 0

-----------------------------------------------------------------------------
(* os_int_post.                                                            *)

\* Mutant: the limit itself is reached.
AddBgtSet(x, limit) == IF x + 1 > limit THEN 0 ELSE x + 1

\* What os_atomic_add_bge_set_strong(&x, 1, limit, 0) leaves in x.
os_atomic_add_bge_set_strong(x, limit) == IF x + 1 >= limit THEN 0 ELSE x + 1

\* The calls the ring holds, those of which the fields are still being written
\* and the one that is being handled among them.
Outstanding == posted - published + (IF handler = "advance" THEN 1 ELSE 0)

\* A routine starts and takes the position that the atomic operation found.  It
\* may preempt another that has taken one and not written to it.
Reserve ==
  /\ Len(isr) < MaxLevel /\ posted < MaxPosts /\ Outstanding < MaxOutstanding
  /\ isr' = Append(isr, [slot |-> post, call |-> posted + 1, filled |-> FALSE])
  /\ post' = os_atomic_add_bge_set_strong(post, Capacity)
  /\ posted' = posted + 1
  /\ UNCHANGED <<ring, pull, swPending, handler, published>>

\* Only the innermost routine executes.
Innermost == isr[Len(isr)]

Fill ==
  /\ isr # <<>> /\ ~ Innermost.filled
  /\ ring' = [ring EXCEPT ![Innermost.slot] = Innermost.call]
  /\ isr' = [isr EXCEPT ![Len(isr)].filled = TRUE]
  /\ UNCHANGED <<post, pull, swPending, handler, posted, published>>

\* Mutant: the interrupt is not pended while the handler is active.
CtxSwIfIdle(p) == p \/ handler = "off"

os_ctx_sw(p) == TRUE

\* The interrupt is pended and the routine returns.
Finish ==
  /\ isr # <<>> /\ Innermost.filled
  /\ swPending' = os_ctx_sw(swPending)
  /\ isr' = SubSeq(isr, 1, Len(isr) - 1)
  /\ UNCHANGED <<ring, post, pull, handler, posted, published>>

-----------------------------------------------------------------------------
(* SW_Handler and __os_int_post_handle_called_by_sw.                       *)

\* Every routine has a higher priority, so the handler waits for all of them.
HandlerRuns(pc) == isr = <<>> /\ handler = pc

Enter ==
  /\ HandlerRuns("off") /\ swPending
  /\ handler' = "entered"
  /\ UNCHANGED <<ring, post, pull, isr, swPending, posted, published>>

os_ctx_sw_clear ==
  /\ HandlerRuns("entered")
  /\ swPending' = FALSE /\ handler' = "test"
  /\ UNCHANGED <<ring, post, pull, isr, posted, published>>

__os_int_post_status_called_by_sw == pull = post

\* The ring is empty: the handler goes on to scheduling, see module Kernel.
Leave ==
  /\ HandlerRuns("test") /\ __os_int_post_status_called_by_sw
  /\ handler' = "leave"
  /\ UNCHANGED <<ring, post, pull, isr, swPending, posted, published>>

Test ==
  /\ HandlerRuns("test") /\ ~ __os_int_post_status_called_by_sw
  /\ handler' = "handle"
  /\ UNCHANGED <<ring, post, pull, isr, swPending, posted, published>>

Handle ==
  /\ HandlerRuns("handle")
  /\ published' = IF ring[pull] = 0 THEN published ELSE ring[pull]
  /\ handler' = "advance"
  /\ UNCHANGED <<ring, post, pull, isr, swPending, posted>>

\* Mutant: the wrap of the one position is not the wrap of the other.
NextPullEarly(p) == IF p + 2 >= Capacity THEN 0 ELSE p + 1

NextPull(p) == IF p + 1 >= Capacity THEN 0 ELSE p + 1

Advance ==
  /\ HandlerRuns("advance")
  /\ pull' = NextPull(pull)
  /\ handler' = "test"
  /\ UNCHANGED <<ring, post, isr, swPending, posted, published>>
\* Mutant: the pending bit is cleared on the way out and not on the way in.
ExitClears ==
  /\ HandlerRuns("leave")
  /\ swPending' = FALSE /\ handler' = "off"
  /\ UNCHANGED <<ring, post, pull, isr, posted, published>>

Exit ==
  /\ HandlerRuns("leave")
  /\ handler' = "off"
  /\ UNCHANGED <<ring, post, pull, isr, swPending, posted, published>>

Interrupt == Reserve \/ Fill \/ Finish
Handler == \/ Enter \/ os_ctx_sw_clear \/ Leave \/ Test \/ Handle \/ Advance
           \/ Exit

Next == Interrupt \/ Handler

Spec == Init /\ [][Next]_vars

\* Routines that have started return, and the handler is taken and executes.
\* Whether and when there are interrupts is up to the devices.
FairSpec == Spec /\ WF_vars(Fill \/ Finish) /\ WF_vars(Handler)

-----------------------------------------------------------------------------
(* What the posting of calls owes the interrupt service routines.          *)

\* The handler reads entries that are completely written, of calls that are
\* numbered one after the other: nothing is published twice, out of order or
\* not at all, although a routine that took its position first may write last.
Fifo == INSTANCE FifoPost
PublishesInOrder == Fifo!Spec

\* No call stays behind in the ring with the handler idle and nothing pending:
\* not one that is posted while the handler takes its last look, either.
NoneForgotten ==
  isr = <<>> /\ handler \in {"leave", "off"} /\ published < posted => swPending

\* Every call posted is published.
AllPublished ==
  \A n \in 1..MaxPosts : (posted = n) ~> (published >= n)
=============================================================================
