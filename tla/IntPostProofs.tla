----------------------------- MODULE IntPostProofs -----------------------------
(***************************************************************************)
(* Proofs about module IntPost for every capacity of the ring, nesting of  *)
(* interrupts and number of calls, as long as the ring never fills up.     *)
(***************************************************************************)
EXTENDS IntPost, TLAPS

\* The calls that the handler has taken out of the ring.
Taken == posted - Outstanding

\* Positions, counted on from pull.
Wrapped(x) == IF x >= Capacity THEN x - Capacity ELSE x
SlotOf(n) == Wrapped(pull + (n - Taken - 1))

\* How the two positions and the two counts agree.
CountsAgree ==
  /\ Outstanding \in 0..MaxOutstanding /\ Taken \in Nat
  /\ post = Wrapped(pull + Outstanding)
  /\ handler \in {"handle", "advance"} => Outstanding > 0

\* A routine inside os_int_post owns the position that its call belongs to.
FramesAgree ==
  \A i \in DOMAIN isr : /\ isr[i].call \in (Taken + 1)..posted
                        /\ isr[i].slot = SlotOf(isr[i].call)

\* Each call in the ring is in its place, or a routine still has to write it.
RingAgrees ==
  \A n \in (Taken + 1)..posted :
    \/ ring[SlotOf(n)] = n
    \/ \E i \in DOMAIN isr : isr[i].call = n /\ ~ isr[i].filled

RingInv == /\ TypeOK /\ CountsAgree /\ FramesAgree /\ RingAgrees
           /\ NoneForgotten

-----------------------------------------------------------------------------
\* Counting on from a position reaches every position once.
LEMMA WrappedInjective ==
  ASSUME NEW p \in Position, NEW i \in Position, NEW j \in Position
  PROVE  /\ Wrapped(p + i) \in Position
         /\ Wrapped(p + i) = Wrapped(p + j) => i = j
BY PostAssumption DEF Position, Wrapped

\* Reserve gives out the next position, and post is one further.
LEMMA ReserveKeeps == ASSUME MaxOutstanding < Capacity, RingInv, Reserve
                      PROVE  RingInv'
<1> USE PostAssumption
<1> DEFINE f == [slot |-> post, call |-> posted + 1, filled |-> FALSE]
<1>1. /\ TypeOK' /\ isr' # <<>> /\ f \in Frame
      /\ Len(isr') = Len(isr) + 1 /\ isr'[Len(isr')] = f
      /\ \A i \in DOMAIN isr : i \in DOMAIN isr' /\ isr'[i] = isr[i]
      /\ \A i \in DOMAIN isr' : i \in DOMAIN isr \/ i = Len(isr')
  <2>1. f \in Frame
    BY DEF RingInv, TypeOK, Frame
  <2>2. post' \in Position
    BY DEF RingInv, TypeOK, Position, Reserve, os_atomic_add_bge_set_strong
  <2>3. isr' = Append(isr, f) /\ isr \in Seq(Frame)
    BY DEF RingInv, TypeOK, Reserve
  <2>4. isr' \in Seq(Frame)
    BY <2>1, <2>3
  <2>5. QED
    BY <2>1, <2>2, <2>3, <2>4 DEF RingInv, TypeOK, Reserve
<1>2. /\ posted' = posted + 1 /\ Outstanding' = Outstanding + 1
      /\ Taken' = Taken /\ pull' = pull /\ ring' = ring
  BY DEF RingInv, TypeOK, Reserve, Outstanding, Taken
<1>3. post = SlotOf(posted + 1)
  BY DEF RingInv, TypeOK, CountsAgree, SlotOf, Taken, Outstanding, Wrapped
<1>4. \A n \in (Taken + 1)..posted' : SlotOf(n)' = SlotOf(n)
  BY <1>2 DEF SlotOf, Wrapped
<1>5. CountsAgree'
  BY <1>2, <1>1 DEF RingInv, TypeOK, CountsAgree, Reserve, Wrapped, Position,
                    os_atomic_add_bge_set_strong, Outstanding
<1>6. FramesAgree'
  <2> SUFFICES ASSUME NEW i \in DOMAIN isr'
               PROVE  /\ isr'[i].call \in (Taken + 1)..posted'
                      /\ isr'[i].slot = SlotOf(isr'[i].call)
    BY <1>2 DEF FramesAgree, SlotOf, Wrapped
  <2>0. Taken \in Nat /\ posted \in Nat /\ Taken <= posted
    BY DEF RingInv, TypeOK, CountsAgree, Taken
  <2>1. CASE i \in DOMAIN isr
    <3>1. isr[i].call \in (Taken + 1)..posted /\ isr[i].slot = SlotOf(isr[i].call)
      BY <2>1 DEF RingInv, FramesAgree
    <3>2. isr'[i] = isr[i]
      BY <1>1, <2>1
    <3>3. QED
      BY <1>2, <2>0, <3>1, <3>2
  <2>2. CASE i = Len(isr')
    BY <1>1, <1>2, <1>3, <2>0, <2>2
  <2>3. QED
    BY <1>1, <2>1, <2>2
<1>7. RingAgrees'
  BY SMTT(30), <1>1, <1>2, <1>3, <1>4 DEF RingInv, RingAgrees, CountsAgree, TypeOK
<1>8. QED
  BY <1>1, <1>5, <1>6, <1>7 DEF RingInv, NoneForgotten

\* Fill writes to its own position: no two calls in the ring share one.
LEMMA FillKeeps == ASSUME MaxOutstanding < Capacity, RingInv, Fill
                   PROVE  RingInv'
<1> USE PostAssumption
<1> DEFINE l == Len(isr)
<1>1. l \in DOMAIN isr /\ isr \in Seq(Frame) /\ isr[l] \in Frame /\ Innermost = isr[l]
  BY DEF RingInv, TypeOK, Fill, Innermost
<1>2. /\ TypeOK' /\ isr' # <<>> /\ DOMAIN isr' = DOMAIN isr
      /\ \A i \in DOMAIN isr : /\ isr'[i].call = isr[i].call
                               /\ isr'[i].slot = isr[i].slot
                               /\ i # l => isr'[i] = isr[i]
  <2>1. isr' = [isr EXCEPT ![l] = [isr[l] EXCEPT !.filled = TRUE]]
    BY <1>1 DEF Fill
  <2>2. [isr[l] EXCEPT !.filled = TRUE] \in Frame
    BY <1>1 DEF Frame
  <2>3. isr' \in Seq(Frame)
    BY <1>1, <2>1, <2>2
  <2>4. ring' \in [Position -> Nat]
    BY <1>1 DEF Fill, RingInv, TypeOK, Frame
  <2>5. QED
    BY SMTT(30), <1>1, <2>1, <2>2, <2>3, <2>4 DEF Fill, RingInv, TypeOK, Frame
<1>3. UNCHANGED <<post, pull, handler, posted, published>> /\ Outstanding' = Outstanding
      /\ Taken' = Taken
  BY DEF Fill, Outstanding, Taken
<1>4. \A n : SlotOf(n)' = SlotOf(n)
  BY <1>3 DEF SlotOf, Wrapped
<1>5. CountsAgree'
  BY <1>3 DEF RingInv, CountsAgree, Wrapped
<1>6. FramesAgree'
  BY <1>2, <1>3, <1>4 DEF RingInv, FramesAgree
<1>7. RingAgrees'
  <2> SUFFICES ASSUME NEW n \in (Taken + 1)..posted
               PROVE  \/ ring'[SlotOf(n)] = n
                      \/ \E i \in DOMAIN isr' : isr'[i].call = n /\ ~ isr'[i].filled
    BY <1>3, <1>4 DEF RingAgrees
  <2>1. isr[l].slot = SlotOf(isr[l].call) /\ isr[l].call \in (Taken + 1)..posted
    BY <1>1 DEF RingInv, FramesAgree
  <2>2. SlotOf(n) \in Position /\ (SlotOf(n) = isr[l].slot => n = isr[l].call)
    <3>1. /\ Taken \in Nat /\ posted \in Nat /\ posted - Taken < Capacity
          /\ pull \in Position
      BY DEF RingInv, TypeOK, CountsAgree, Taken
    <3>2. /\ n - Taken - 1 \in Position /\ isr[l].call - Taken - 1 \in Position
          /\ n \in Int /\ isr[l].call \in Int
      BY <2>1, <3>1 DEF Position
    <3>3. QED
      BY <2>1, <3>1, <3>2, WrappedInjective DEF SlotOf
  <2>3. ring'[SlotOf(n)] = IF SlotOf(n) = isr[l].slot THEN isr[l].call ELSE ring[SlotOf(n)]
    BY <1>1, <2>2 DEF Fill, RingInv, TypeOK
  <2>4. CASE SlotOf(n) = isr[l].slot
    BY <2>2, <2>3, <2>4
  <2>5. CASE SlotOf(n) # isr[l].slot
    <3>1. n # isr[l].call
      BY <2>1, <2>5
    <3>2. ring[SlotOf(n)] = n \/ \E i \in DOMAIN isr : isr[i].call = n /\ ~ isr[i].filled
      BY DEF RingInv, RingAgrees
    <3>3. QED
      BY <1>2, <2>3, <2>5, <3>1, <3>2
  <2>6. QED
    BY <2>4, <2>5
<1>8. QED
  BY <1>2, <1>5, <1>6, <1>7 DEF RingInv, NoneForgotten

\* Finish returns from a routine that has written its call.
LEMMA FinishKeeps == ASSUME MaxOutstanding < Capacity, RingInv, Finish
                     PROVE  RingInv'
<1> DEFINE l == Len(isr)
<1>1. /\ TypeOK' /\ isr[l].filled
      /\ \A i \in DOMAIN isr' : i \in DOMAIN isr /\ isr'[i] = isr[i]
      /\ \A i \in DOMAIN isr : i \in DOMAIN isr' \/ i = l
  BY DEF RingInv, TypeOK, Finish, Innermost, os_ctx_sw
<1>2. UNCHANGED <<ring, post, pull, handler, posted, published>> /\ swPending'
      /\ Outstanding' = Outstanding /\ Taken' = Taken
  BY DEF Finish, Outstanding, Taken, os_ctx_sw
<1>3. \A n : SlotOf(n)' = SlotOf(n)
  BY <1>2 DEF SlotOf, Wrapped
<1>4. CountsAgree'
  BY <1>2 DEF RingInv, CountsAgree, Wrapped
<1>5. FramesAgree'
  BY <1>1, <1>2, <1>3 DEF RingInv, FramesAgree
<1>6. RingAgrees'
  BY <1>1, <1>2, <1>3 DEF RingInv, RingAgrees
<1>7. QED
  BY <1>1, <1>2, <1>4, <1>5, <1>6 DEF RingInv, NoneForgotten

\* Handle reads the entry of the call after the last one published.
LEMMA HandleReads == ASSUME MaxOutstanding < Capacity, RingInv, Handle
                     PROVE  published < posted /\ published' = published + 1
<1>1. Taken = published /\ published < posted /\ published \in Nat /\ posted \in Nat
  BY DEF RingInv, TypeOK, CountsAgree, Handle, HandlerRuns, Taken, Outstanding
<1>2. pull = SlotOf(published + 1)
  BY <1>1, PostAssumption DEF RingInv, TypeOK, SlotOf, Wrapped, Position
<1>3. ring[pull] = published + 1
  BY <1>1, <1>2 DEF RingInv, TypeOK, RingAgrees, Handle, HandlerRuns
<1>4. QED
  BY <1>1, <1>3 DEF Handle

LEMMA HandleKeeps == ASSUME MaxOutstanding < Capacity, RingInv, Handle
                     PROVE  RingInv'
<1>1. /\ published < posted /\ published' = published + 1
      /\ UNCHANGED <<ring, post, pull, isr, swPending, posted>>
      /\ isr = <<>> /\ handler = "handle" /\ handler' = "advance"
  BY HandleReads DEF Handle, HandlerRuns
<1>2. Outstanding' = Outstanding /\ Taken' = Taken
  BY <1>1 DEF RingInv, TypeOK, Outstanding, Taken
<1>3. \A n : SlotOf(n)' = SlotOf(n)
  BY <1>1, <1>2 DEF SlotOf, Wrapped
<1>4. TypeOK'
  BY <1>1 DEF RingInv, TypeOK
<1>5. CountsAgree' /\ FramesAgree' /\ RingAgrees'
  BY <1>1, <1>2, <1>3 DEF RingInv, CountsAgree, FramesAgree, RingAgrees, Wrapped
<1>6. QED
  BY <1>1, <1>4, <1>5 DEF RingInv, NoneForgotten

\* Advance takes the call out of the ring: the other calls keep their places.
LEMMA AdvanceKeeps == ASSUME MaxOutstanding < Capacity, RingInv, Advance
                      PROVE  RingInv'
<1>1. /\ UNCHANGED <<ring, post, isr, swPending, posted, published>>
      /\ isr = <<>> /\ handler = "advance" /\ handler' = "test"
      /\ pull' = NextPull(pull)
  BY DEF Advance, HandlerRuns
<1>2. TypeOK'
  BY <1>1, PostAssumption DEF RingInv, TypeOK, NextPull, Position
<1>3. Outstanding' = Outstanding - 1 /\ Taken' = Taken + 1 /\ Outstanding \in 1..MaxOutstanding
  BY <1>1 DEF RingInv, TypeOK, CountsAgree, Outstanding, Taken
<1>4. \A n \in (Taken' + 1)..posted : SlotOf(n)' = SlotOf(n)
  BY <1>1, <1>3, PostAssumption DEF RingInv, TypeOK, CountsAgree, NextPull, Position,
                                    SlotOf, Wrapped, Taken
<1>5. CountsAgree'
  BY <1>1, <1>3, PostAssumption DEF RingInv, TypeOK, CountsAgree, NextPull, Position,
                                    Wrapped
<1>6. FramesAgree' /\ RingAgrees'
  BY <1>1, <1>3, <1>4 DEF RingInv, TypeOK, CountsAgree, FramesAgree, RingAgrees
<1>7. QED
  BY <1>1, <1>2, <1>5, <1>6 DEF RingInv, NoneForgotten

\* The other steps of the handler look at the ring or do not even do that.  When
\* the positions are equal the ring is empty, because it is never full.
LEMMA HandlerKeeps ==
  ASSUME MaxOutstanding < Capacity, RingInv,
         Enter \/ os_ctx_sw_clear \/ Leave \/ Test \/ Exit
  PROVE  RingInv'
<1>1. /\ UNCHANGED <<ring, post, pull, isr, posted, published>>
      /\ handler # "advance" /\ handler' # "advance"
      /\ handler' \in {"off", "entered", "test", "handle", "leave"}
      /\ swPending' \in BOOLEAN
  BY DEF RingInv, TypeOK, Enter, os_ctx_sw_clear, Leave, Test, Exit, HandlerRuns
<1>2. Outstanding' = Outstanding /\ Taken' = Taken
  BY <1>1 DEF Outstanding, Taken
<1>3. \A n : SlotOf(n)' = SlotOf(n)
  BY <1>1, <1>2 DEF SlotOf, Wrapped
<1>4. TypeOK' /\ FramesAgree' /\ RingAgrees'
  BY <1>1, <1>2, <1>3 DEF RingInv, TypeOK, FramesAgree, RingAgrees
<1>5. pull = post <=> Outstanding = 0
  BY PostAssumption DEF RingInv, TypeOK, CountsAgree, Wrapped, Position
<1>6. CountsAgree'
  BY <1>1, <1>2, <1>5 DEF RingInv, CountsAgree, Wrapped, Enter, os_ctx_sw_clear, Leave,
                          Test, Exit, __os_int_post_status_called_by_sw
<1>7. NoneForgotten'
  BY <1>1, <1>5 DEF RingInv, TypeOK, NoneForgotten, Outstanding, Enter, os_ctx_sw_clear,
          Leave, Test, Exit, HandlerRuns, __os_int_post_status_called_by_sw
<1>8. QED
  BY <1>4, <1>6, <1>7 DEF RingInv

LEMMA InitRing == ASSUME MaxOutstanding < Capacity, Init PROVE RingInv
<1>1. Outstanding = 0 /\ Taken = 0
  BY DEF Init, Outstanding, Taken
<1>2. TypeOK
  BY PostAssumption DEF Init, os_int_post_init, TypeOK, Position
<1>3. CountsAgree
  BY <1>1, PostAssumption DEF Init, os_int_post_init, CountsAgree, Wrapped
<1>4. FramesAgree /\ RingAgrees /\ NoneForgotten
  BY <1>1 DEF Init, FramesAgree, RingAgrees, NoneForgotten
<1>5. QED
  BY <1>2, <1>3, <1>4 DEF RingInv

LEMMA NextRing == ASSUME MaxOutstanding < Capacity, RingInv, [Next]_vars
                  PROVE  RingInv'
<1>1. CASE Reserve
  BY <1>1, ReserveKeeps
<1>2. CASE Fill
  BY <1>2, FillKeeps
<1>3. CASE Finish
  BY <1>3, FinishKeeps
<1>4. CASE Handle
  BY <1>4, HandleKeeps
<1>5. CASE Advance
  BY <1>5, AdvanceKeeps
<1>6. CASE Enter \/ os_ctx_sw_clear \/ Leave \/ Test \/ Exit
  BY <1>6, HandlerKeeps
<1>7. CASE UNCHANGED vars
  BY <1>7 DEF vars, RingInv, TypeOK, CountsAgree, FramesAgree, RingAgrees, NoneForgotten,
              Outstanding, Taken, SlotOf, Wrapped
<1>8. QED
  BY <1>1, <1>2, <1>3, <1>4, <1>5, <1>6, <1>7 DEF Next, Interrupt, Handler

-----------------------------------------------------------------------------
\* The positions, the counts, the routines and the ring agree in every state.
THEOREM RingInvariant == ASSUME MaxOutstanding < Capacity PROVE Spec => []RingInv
<1>1. Init => RingInv
  BY InitRing
<1>2. RingInv /\ [Next]_vars => RingInv'
  BY NextRing
<1>3. QED
  BY <1>1, <1>2, PTL DEF Spec

\* os_int_post and the handler stay within the ring.
THEOREM TypeCorrect == ASSUME MaxOutstanding < Capacity PROVE Spec => []TypeOK
<1>1. RingInv => TypeOK
  BY DEF RingInv
<1>2. QED
  BY <1>1, RingInvariant, PTL

\* No call posted by an interrupt is left in the ring of an idle handler.
THEOREM PostsRemembered ==
  ASSUME MaxOutstanding < Capacity PROVE Spec => []NoneForgotten
<1>1. RingInv => NoneForgotten
  BY DEF RingInv
<1>2. QED
  BY <1>1, RingInvariant, PTL

\* The ring implements the first-in first-out posting of calls: the handler
\* publishes every call once, in the order in which the atomic operation
\* arranged them, however the interrupt service routines preempt each other.
THEOREM ImplementsFifo ==
  ASSUME MaxOutstanding < Capacity PROVE Spec => PublishesInOrder
<1>1. Init => Fifo!Init
  BY DEF Init, Fifo!Init
<1>2. RingInv /\ [Next]_vars => [Fifo!Next]_(Fifo!vars)
  <2> SUFFICES ASSUME RingInv, [Next]_vars PROVE [Fifo!Next]_(Fifo!vars)
    OBVIOUS
  <2>1. CASE Reserve
    BY <2>1 DEF Reserve, Fifo!Next, Fifo!Post
  <2>2. CASE Handle
    BY <2>2, HandleReads DEF Handle, Fifo!Next, Fifo!Publish
  <2>3. CASE Fill \/ Finish \/ Enter \/ os_ctx_sw_clear \/ Leave \/ Test \/ Advance \/ Exit
    BY <2>3 DEF Fill, Finish, Enter, os_ctx_sw_clear, Leave, Test, Advance, Exit, Fifo!vars
  <2>4. CASE UNCHANGED vars
    BY <2>4 DEF vars, Fifo!vars
  <2>5. QED
    BY <2>1, <2>2, <2>3, <2>4 DEF Next, Interrupt, Handler
<1>3. QED
  BY <1>1, <1>2, RingInvariant, PTL DEF Spec, PublishesInOrder, Fifo!Spec
=============================================================================
