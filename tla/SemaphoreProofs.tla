---------------------------- MODULE SemaphoreProofs ----------------------------
(***************************************************************************)
(* The semaphore keeps no token while a task waits for one, whatever the   *)
(* application and the interrupts do; and it is a counting semaphore of an *)
(* application that uses the rest of the kernel with care.                 *)
(***************************************************************************)
EXTENDS Semaphore, KernelProofs

\* Nobody has come to wait for object o.
NoMore(k0, k1, o) == k0.list[o] = <<>> => k1.list[o] = <<>>

LEMMA NoMoreTwice == \A k0, k1, k2, o : NoMore(k0, k1, o) /\ NoMore(k1, k2, o) => NoMore(k0, k2, o)
BY DEF NoMore

LEMMA WithoutNone == \A t : Without(<<>>, t) = <<>>
BY DEF Without, ToSet

LEMMA NoMoreAddTask ==
  ASSUME NEW k0 \in KernelState, NEW t \in Task, NEW o \in Object
  PROVE  NoMore(k0, os_rq_add_task(k0, t), o)
<1>1. k0.prio[t] \in Prio /\ k0.prio[t] \in List /\ o \in List /\ o # k0.prio[t]
  BY ListNames, KernelAssumption DEF KernelState
<1> DEFINE p == k0.prio[t]
           q == k0.list[p]
           q1 == IF k0.cur = NULL \/ p < k0.prio[k0.cur] THEN <<t>> \o q ELSE Append(q, t)
           m1 == IF q = <<>> THEN k0.map \cup {p} ELSE k0.map
           h1 == IF q = <<>> /\ p < k0.high THEN p ELSE k0.high
           f1 == k0.fault \/ SlotLinked(k0, t)
<1>2. os_rq_add_task(k0, t) =
        IF k0.state[t] = "READY" THEN k0
        ELSE [k0 EXCEPT !.map = m1, !.high = h1, !.list[p] = q1,
                        !.state[t] = "READY", !.fault = f1]
  BY DEF os_rq_add_task
<1>3. p # o
  BY <1>1
<1> HIDE DEF p, q, q1, m1, h1, f1
<1>4. QED
  BY <1>2, <1>3 DEF NoMore, KernelState

LEMMA NoMoreUnlink ==
  ASSUME NEW k0 \in KernelState, NEW t \in Task, NEW o \in Object
  PROVE  NoMore(k0, UnlinkSlot(k0, t), o)
BY WithoutNone, ListNames DEF NoMore, UnlinkSlot, KernelState

LEMMA NoMoreDelTask ==
  ASSUME NEW k0 \in KernelState, NEW t \in Task, NEW o \in Object
  PROVE  NoMore(k0, os_rq_del_task(k0, t), o)
<1> DEFINE k1 == LeaveSlice(k0, t)
           k2 == UnlinkSlot(k1, t)
<1>1. k1.list = k0.list
  BY DEF LeaveSlice, KernelState
<1>2. k2.list = [l \in List |-> Without(k1.list[l], t)]
  <2>1. DOMAIN k1 = DOMAIN k0
    BY DEF LeaveSlice, KernelState
  <2>2. QED
    BY <2>1 DEF UnlinkSlot, KernelState
<1>3. os_rq_del_task(k0, t).list = k2.list
  <2>1. DOMAIN k2 = DOMAIN k0
    BY DEF LeaveSlice, UnlinkSlot, KernelState
  <2>2. QED
    BY <2>1 DEF os_rq_del_task, KernelState
<1> HIDE DEF k1, k2
<1>4. QED
  BY <1>1, <1>2, <1>3, WithoutNone, ListNames DEF NoMore

LEMMA NoMoreAddBlock ==
  ASSUME NEW k0 \in KernelState, NEW t \in Task, NEW obj \in Object, NEW o \in Object \ {obj}
  PROVE  NoMore(k0, os_add_block_task(k0, t, obj), o)
<1> DEFINE k1 == os_rq_del_task(k0, t)
<1>1. k1 \in KernelState /\ NoMore(k0, k1, o)
  BY DelTaskType, NoMoreDelTask
<1> DEFINE f1 == k1.fault \/ SlotLinked(k1, t)
           q1 == BlockInsert(k0, k1.list[obj], t)
<1>2. os_add_block_task(k0, t, obj)
        = [k1 EXCEPT !.list[obj] = q1, !.state[t] = "BLOCKING", !.fault = f1]
  BY DEF os_add_block_task
<1> HIDE DEF k1, f1, q1
<1>3. os_add_block_task(k0, t, obj).list[o] = k1.list[o]
  <2>1. os_add_block_task(k0, t, obj).list = [k1.list EXCEPT ![obj] = q1]
    BY <1>1, <1>2 DEF KernelState
  <2>2. DOMAIN k1.list = List /\ o \in List /\ o # obj
    BY <1>1, ListNames DEF KernelState
  <2>3. QED
    BY <2>1, <2>2
<1>4. QED
  BY <1>1, <1>3 DEF NoMore

LEMMA NoMoreEndWait ==
  ASSUME NEW k0 \in KernelState, NEW t \in Task, NEW why \in BlockState, NEW o \in Object
  PROVE  NoMore(k0, EndWait(k0, t, why), o)
<1> DEFINE k1 == [k0 EXCEPT !.bstate[t] = why]
           k2 == UnlinkSlot(k1, t)
<1>1. k1 \in KernelState /\ k1.list = k0.list
  BY DEF KernelState
<1>2. k2 \in KernelState /\ NoMore(k1, k2, o)
  <2> HIDE DEF k1
  <2>1. QED
    BY <1>1, UnlinkSlotType, NoMoreUnlink
<1>3. EndWait(k0, t, why) = os_rq_add_task(k2, t)
  BY DEF EndWait
<1> HIDE DEF k1, k2
<1>4. QED
  BY <1>1, <1>2, <1>3, NoMoreAddTask DEF NoMore

LEMMA NoMoreUnlinkTick ==
  ASSUME NEW k0 \in KernelState, NEW t
  PROVE  UnlinkTick(k0, t).list = k0.list
BY DEF UnlinkTick, KernelState

LEMMA NoMoreWakeTick ==
  ASSUME NEW k0 \in KernelState, NEW t \in Task, NEW why \in BlockState, NEW o \in Object
  PROVE  NoMore(k0, EndWait(UnlinkTick(k0, t), t, why), o)
BY UnlinkTickType, NoMoreUnlinkTick, NoMoreEndWait DEF NoMore

LEMMA NoMoreWakeup ==
  ASSUME NEW k0 \in KernelState, NEW obj \in Object, NEW o \in Object
  PROVE  NoMore(k0, os_block_wakeup_first_task(k0, obj), o)
<1>1. ASSUME NEW t \in Task PROVE NoMore(k0, UnlinkTick(os_block_wakeup_task(k0, t), t), o)
  <2>1. os_block_wakeup_task(k0, t) \in KernelState
    BY WakeupType
  <2>2. NoMore(k0, os_block_wakeup_task(k0, t), o)
    BY UnlinkSlotType, NoMoreUnlink, NoMoreAddTask DEF os_block_wakeup_task, NoMore
  <2>3. QED
    BY <2>1, <2>2, NoMoreUnlinkTick DEF NoMore
<1>2. k0.list[obj] # <<>> => Head(k0.list[obj]) \in Task
  BY ListNames DEF KernelState
<1>3. QED
  BY <1>1, <1>2 DEF os_block_wakeup_first_task, NoMore

LEMMA NoMoreAddNode ==
  ASSUME NEW k0 \in KernelState, NEW t \in Task, NEW n \in Count, NEW o \in Object
  PROVE  NoMore(k0, os_tick_add_node(k0, t, n), o)
<1> DEFINE b == [k0 EXCEPT !.bstate[t] = "TICKING"]
           k1 == os_rq_del_task(b, t)
<1>1. b \in KernelState /\ b.list = k0.list
  BY DEF KernelState, BlockState
<1>2. k1 \in KernelState /\ NoMore(b, k1, o)
  <2> HIDE DEF b
  <2>1. QED
    BY <1>1, DelTaskType, NoMoreDelTask
<1>3. os_tick_add_node(k0, t, n).list = k1.list
  <2>1. DOMAIN k1 = DOMAIN k0
    <3> HIDE DEF k1
    <3>1. QED
      BY <1>2 DEF KernelState
  <2> DEFINE tk == IF TickPosition(k0.ticks, n) <= Len(k0.ticks) /\ Expiry(k0.ticks)[TickPosition(k0.ticks, n)] = n
                   THEN TickJoin(k0, TickPosition(k0.ticks, n), t) ELSE TickSplit(k0, TickPosition(k0.ticks, n), t, n)
  <2>2. os_tick_add_node(k0, t, n)
          = [k1 EXCEPT !.state[t] = "BLOCKING", !.fault = @ \/ TickLinked(k0, t), !.ticks = tk]
    BY DEF os_tick_add_node
  <2> HIDE DEF k1, tk
  <2>3. QED
    BY <1>2, <2>2 DEF KernelState
<1> HIDE DEF b, k1
<1>4. QED
  BY <1>1, <1>2, <1>3 DEF NoMore

\* What the scheduling functions leave alone.
LEMMA NoMoreSched ==
  ASSUME NEW k0 \in KernelState, NEW by \in {"thread", "sw"}
  PROVE  os_sched(k0, by).list = k0.list
<1> DEFINE k1 == ChooseReady(k0, by)
<1>1. k1.list = k0.list
  BY DEF ChooseReady, os_rq_get_highest_prio_task, KernelState
<1>2. DOMAIN k1 = DOMAIN k0
  BY DEF ChooseReady, os_rq_get_highest_prio_task, KernelState
<1> HIDE DEF k1
<1>3. QED
  BY <1>1, <1>2 DEF os_sched, KernelState, k1

-----------------------------------------------------------------------------
(* Types, and the token that nobody waits for.                             *)

SemTypeInv == TypeInv /\ value \in Nat /\ posts \in Nat

\* The steps that the kernel takes as it does without a semaphore.
KernelStep ==
  /\ UNCHANGED semVars
  /\ Boot \/ TickHandler \/ MissTick \/ SwEnter \/ SwLeave
     \/ \E t \in Task : Call(t) \/ TaskStep(t)

SemStep == \/ \E t \in Task : os_sem_take(t) \/ TakeReturn(t) \/ os_sem_release(t)
           \/ IntPost \/ Publish

LEMMA SemSteps == /\ SemNext => KernelStep \/ SemStep
                  /\ KernelStep => Next
BY DEF SemNext, KernelStep, SemStep, Next

LEMMA SemFacts == /\ Sem \in Object /\ Sem # SysBlock /\ Sem \in List
                  /\ Sem \in Object \ {SysBlock} /\ InitValue \in Nat
                  /\ \A n \in TimeOuts : n \in Count \cup {Never}
BY SemAssumption, ListNames

LEMMA ReleaseType ==
  ASSUME NEW k0 \in KernelState, NEW v \in Nat
  PROVE  Release(k0, v)[1] \in KernelState /\ Release(k0, v)[2] \in Nat
BY SemFacts, WakeupFirstType DEF Release

LEMMA ForgetType ==
  ASSUME NEW k0 \in KernelState, NEW t \in Task
  PROVE  Forget(k0, t) \in KernelState
BY DEF Forget, KernelState, BlockState

LEMMA SemStepType == ASSUME SemTypeInv, SemStep PROVE SemTypeInv'
<1> USE TypeParts DEF SemTypeInv
<1>1. ASSUME NEW t \in Task, os_sem_take(t) PROVE SemTypeInv'
  <2>1. irq = "none" /\ TypeInv /\ t \in Task
    BY <1>1 DEF os_sem_take, Invokes, Runs
  <2>2. CASE os_sem_try_take /\ value' = value - 1 /\ UNCHANGED vars /\ UNCHANGED posts
    BY <2>2 DEF os_sem_try_take, vars, TypeInv, TypeOK
  <2>3. ASSUME NEW n \in TimeOuts, UNCHANGED <<value, alive, posts>>,
               Then(t, os_add_tick_task(k, t, n, Sem), <<"sched", "waitRet">>)
        PROVE  SemTypeInv'
    <3>1. os_add_tick_task(k, t, n, Sem) \in KernelState
      BY AddTickType, SemFacts
    <3>2. <<"sched", "waitRet">> \in Seq(Step)
      BY DEF Step
    <3>3. QED
      BY <2>1, <2>3, <3>1, <3>2, ThenType
  <2>4. QED
    BY <1>1, <2>2, <2>3 DEF os_sem_take
<1>2. ASSUME NEW t \in Task, TakeReturn(t) PROVE SemTypeInv'
  <2>1. irq = "none" /\ TypeInv /\ t \in Task /\ todo[t] \in Seq(Step) /\ todo[t] # <<>>
    BY <1>2 DEF TakeReturn, Continues, Runs
  <2>2. Tail(todo[t]) \in Seq(Step)
    BY <2>1
  <2>3. Then(t, Forget(k, t), Tail(todo[t])) /\ UNCHANGED <<alive, value, posts>>
    BY <1>2 DEF TakeReturn, semVars
  <2>4. QED
    BY <2>1, <2>2, <2>3, ThenType, ForgetType
<1>3. ASSUME NEW t \in Task, os_sem_release(t) PROVE SemTypeInv'
  <2>1. irq = "none" /\ TypeInv /\ t \in Task /\ <<"sched">> \in Seq(Step)
    BY <1>3 DEF os_sem_release, Invokes, Runs, Step
  <2>2. /\ Then(t, Release(k, value)[1], <<"sched">>) /\ value' = Release(k, value)[2]
        /\ UNCHANGED <<alive, posts>>
    BY <1>3 DEF os_sem_release
  <2>3. QED
    BY <2>1, <2>2, ReleaseType, ThenType
<1>4. CASE IntPost
  BY <1>4 DEF IntPost, TypeInv, TypeOK
<1>5. CASE Publish
  <2>1. k' = Release(k, value)[1] /\ value' = Release(k, value)[2] /\ posts' = posts - 1
        /\ posts > 0 /\ irq = "sw" /\ irq' = irq
        /\ UNCHANGED <<running, todo, alive, swEnabled, swPending>>
    BY <1>5 DEF Publish
  <2>2. QED
    BY <2>1, ReleaseType DEF TypeInv, TypeOK
<1>6. QED
  BY <1>1, <1>2, <1>3, <1>4, <1>5 DEF SemStep

LEMMA SemTypeStep == SemTypeInv /\ [SemNext]_allVars => SemTypeInv'
<1> SUFFICES ASSUME SemTypeInv, [SemNext]_allVars PROVE SemTypeInv'
  OBVIOUS
<1>1. CASE UNCHANGED allVars
  BY <1>1 DEF allVars, semVars, vars, SemTypeInv, TypeInv, TypeOK
<1>2. CASE KernelStep
  BY <1>2, SemSteps, TypeInvStep DEF SemTypeInv, KernelStep, semVars
<1>3. QED
  BY <1>1, <1>2, SemSteps, SemStepType

LEMMA SemTypeInit == SemInit => SemTypeInv
BY TypeInvInit, SemFacts DEF SemInit, os_sem_init, SemTypeInv

LEMMA NoMoreCall ==
  ASSUME TypeInv, NEW t \in Task, Call(t), NEW o \in Object \ {SysBlock}
  PROVE  NoMore(k, k', o)
<1>1. k \in KernelState /\ alive \subseteq Task /\ t \in Task
      /\ o \in Object /\ SysBlock \in Object /\ NoMore(k, k, o)
  BY TypeParts, KernelAssumption DEF NoMore
<1>2. CASE Create(t)
  <2> PICK u \in UserTask, p \in UserPrio : Then(t, os_task_create(k, u, p), <<"sched">>)
    BY <1>2 DEF Create
  <2> DEFINE k1 == [k EXCEPT !.prio[u] = p, !.state[u] = "NEW", !.slice[u] = 0]
  <2>1. u \in Task /\ p \in Prio /\ 0 \in Count
    BY ClientFacts, ListNames, KernelAssumption DEF Count
  <2>2. k1 \in KernelState /\ k1.list = k.list
    BY <1>1, <2>1 DEF KernelState, TaskState
  <2>3. k' = os_rq_add_task(k1, u)
    BY DEF Then, os_task_create
  <2> HIDE DEF k1
  <2>4. QED
    BY <1>1, <2>1, <2>2, <2>3, NoMoreAddTask DEF NoMore
<1>3. CASE Exit(t)
  BY <1>1, <1>3, NoMoreDelTask DEF Exit, Then
<1>4. CASE os_task_delay_ms(t)
  <2> PICK n \in Delays : k' = os_add_tick_task(k, t, n, NULL)
    BY <1>4 DEF os_task_delay_ms, Then
  <2>1. n \in Count /\ n # Never
    BY ClientAssumption, KernelAssumption DEF Count
  <2>2. QED
    BY <1>1, <2>1, NoMoreAddNode DEF os_add_tick_task
<1>5. CASE os_task_yield(t)
  <2>1. k' = [k EXCEPT !.slice[t] = 0]
    BY <1>5 DEF os_task_yield, Then
  <2>2. k'.list = k.list
    BY <1>1, <2>1 DEF KernelState
  <2>3. QED
    BY <2>2 DEF NoMore
<1>6. CASE os_task_suspend(t)
  <2> PICK u \in Suspendable : IF k.state[u] = "BLOCKING" THEN LeakCritical
                               ELSE Then(t, os_add_block_task(k, u, SysBlock), <<"sched">>)
    BY <1>6 DEF os_task_suspend
  <2>1. u \in Task
    BY <1>1 DEF Suspendable
  <2>2. QED
    BY <1>1, <2>1, NoMoreAddBlock DEF Then, LeakCritical
<1>7. CASE os_task_resume(t)
  <2> PICK u \in Resumable : IF k.state[u] # "BLOCKING" THEN LeakCritical
                             ELSE Then(t, os_rq_add_task(UnlinkSlot(k, u), u), <<"sched">>)
    BY <1>7 DEF os_task_resume
  <2>1. u \in Task
    BY <1>1 DEF Resumable
  <2>2. QED
    BY <1>1, <2>1, UnlinkSlotType, NoMoreUnlink, NoMoreAddTask DEF Then, LeakCritical, NoMore
<1>8. CASE WakeTick(t)
  <2> PICK u \in alive : k' = os_wakeup_tick_task(k, u)
    BY <1>8 DEF WakeTick, Then
  <2>1. u \in Task /\ "EARLY_WAKEUP" \in BlockState
    BY <1>1 DEF BlockState
  <2>2. QED
    BY <1>1, <2>1, NoMoreWakeTick DEF os_wakeup_tick_task
<1> DEFINE nested(n, h) == [k EXCEPT !.lock = n, !.locker = h]
<1>9. \A n, h : nested(n, h).list = k.list
  BY <1>1 DEF KernelState
<1>10. CASE os_sched_lock(t)
  <2>1. k' = nested(k.lock + 1, IF k.lock = 0 THEN t ELSE k.locker)
    BY <1>10 DEF os_sched_lock, Then
  <2> HIDE DEF nested
  <2>2. QED
    BY <1>9, <2>1 DEF NoMore
<1>11. CASE os_sched_unlock(t)
  <2>1. k' = nested(k.lock - 1, IF k.lock = 1 THEN NULL ELSE k.locker)
    BY <1>11 DEF os_sched_unlock, Then
  <2> HIDE DEF nested
  <2>2. QED
    BY <1>9, <2>1 DEF NoMore
<1>12. QED
  BY <1>2, <1>3, <1>4, <1>5, <1>6, <1>7, <1>8, <1>10, <1>11 DEF Call

LEMMA NoMoreTaskStep ==
  ASSUME TypeInv, NEW t \in Task, TaskStep(t)
  PROVE  k'.list = k.list
<1>1. k \in KernelState
  BY TypeParts
<1>2. CASE SchedStep(t)
  <2>1. k' = os_sched(k, "thread") /\ "thread" \in {"thread", "sw"}
    BY <1>2 DEF SchedStep, Then
  <2>2. QED
    BY <1>1, <2>1, NoMoreSched
<1>3. CASE os_ctx_sw(t)
  BY <1>3 DEF os_ctx_sw
<1>4. CASE DelayReturn(t)
  <2> DEFINE b == IF k.bstate[t] = "EARLY_WAKEUP" THEN "NONE" ELSE k.bstate[t]
  <2>1. k' = [k EXCEPT !.bstate[t] = b]
    BY <1>4 DEF DelayReturn, Then
  <2> HIDE DEF b
  <2>2. QED
    BY <1>1, <2>1 DEF KernelState
<1>5. CASE RunsOff(t)
  BY <1>1, <1>5 DEF RunsOff, Then, KernelState
<1>6. QED
  BY <1>2, <1>3, <1>4, <1>5 DEF TaskStep

LEMMA MissedLists ==
  ASSUME NEW k0 \in KernelState, NEW c
  PROVE  TakeMissed(k0, c).list = k0.list
BY DEF TakeMissed, KernelState

LEMMA DropLists ==
  ASSUME NEW k0 \in KernelState, k0.ticks # <<>>
  PROVE  DropNode(k0).list = k0.list
<1> DEFINE tail == Tail(k0.ticks)
           k1 == [k0 EXCEPT !.ticks = tail]
<1>0. k0.ticks \in Seq(TickNode)
  BY DEF KernelState
<1>1. tail \in Seq(TickNode)
  BY <1>0
<1>2. k1 \in KernelState /\ k1.list = k0.list
  <2> HIDE DEF tail
  <2>1. QED
    BY <1>1 DEF KernelState
<1>3. DropNode(k0) = IF k1.ticks = <<>> THEN k1 ELSE TakeMissed(k1, k1.ticks[1].cnt)
  BY DEF DropNode
<1> HIDE DEF k1
<1>4. QED
  BY <1>2, <1>3, MissedLists

LEMMA NoMoreHandlers ==
  ASSUME TypeInv, TickHandler \/ MissTick \/ SwEnter \/ SwLeave, NEW o \in Object
  PROVE  NoMore(k, k', o)
<1>1. k \in KernelState /\ "thread" \in {"thread", "sw"} /\ "sw" \in {"thread", "sw"}
  BY TypeParts
<1>2. CASE SysTick
  <2> DEFINE k1 == os_sched_timeslice_poll(k)
  <2>1. k1 \in KernelState /\ k.cur \in Task
    BY <1>2, TypeParts, PollType DEF SysTick, TickTaken
  <2>2. UseSlice(k) \in KernelState /\ UseSlice(k).list = k.list
    <3>1. UseSlice(k) \in KernelState
      BY <1>1, <2>1, UseSliceType
    <3>2. UseSlice(k).list = k.list
      BY <1>1 DEF UseSlice, KernelState
    <3>3. QED
      BY <3>1, <3>2
  <2>3. os_sched(UseSlice(k), "thread").list = UseSlice(k).list
    BY <1>1, <2>2, NoMoreSched
  <2>4. k1.list = k.list
    BY <2>2, <2>3 DEF os_sched_timeslice_poll
  <2>5. k' = CountTick(k1)
    BY <1>2 DEF SysTick
  <2> HIDE DEF k1
  <2>6. QED
    BY <2>1, <2>4, <2>5, MissedLists DEF NoMore, CountTick
<1>3. CASE ExpireTask
  <2> DEFINE t == Head(k.ticks[1].tasks)
  <2>1. t \in Task
    <3>1. k.ticks \in Seq(TickNode) /\ k.ticks # <<>> /\ k.ticks[1].tasks # <<>>
      BY <1>1, <1>3 DEF ExpireTask, ExpiryDue, TypeInv, KernelState
    <3>2. k.ticks[1] \in TickNode
      BY <3>1
    <3>3. k.ticks[1].tasks \in Seq(Task)
      BY <3>2 DEF TickNode
    <3>4. QED
      BY <3>1, <3>3
  <2>2. k' = EndWait(UnlinkTick(k, t), t, "TIMEOUT") /\ "TIMEOUT" \in BlockState
    BY <1>3 DEF ExpireTask, ExpireFirst, BlockState
  <2> HIDE DEF t
  <2>3. QED
    BY <1>1, <2>1, <2>2, NoMoreWakeTick
<1>4. CASE ExpireNext \/ ExpireLast
  <2>1. k.ticks # <<>>
    BY <1>4 DEF ExpireNext, ExpireLast, ExpiryDue, TypeInv
  <2> DEFINE d == DropNode(k)
             e == [d EXCEPT !.tickMissed = 0]
  <2>2. d \in KernelState /\ d.list = k.list
    BY <1>1, <2>1, DropNodeType, DropLists
  <2>3. AfterExpiry(k) = os_sched(e, "thread")
    BY DEF AfterExpiry
  <2>4. ExpireNext => k' = d
    BY DEF ExpireNext
  <2> HIDE DEF d
  <2>5. e \in KernelState /\ e.list = d.list
    BY <2>2, ListNames DEF KernelState
  <2> HIDE DEF e
  <2>6. AfterExpiry(k).list = k.list
    BY <1>1, <2>2, <2>3, <2>5, NoMoreSched
  <2>7. QED
    BY <1>4, <2>2, <2>4, <2>6 DEF ExpireLast, NoMore
<1>5. CASE MissTick
  <2> DEFINE n == k.tickMissed + 1
             s == k.sliceMissed + 1
  <2>1. k' = [k EXCEPT !.tickMissed = n, !.sliceMissed = s]
    BY <1>5 DEF MissTick
  <2> HIDE DEF n, s
  <2>2. k'.list = k.list
    BY <1>1, <2>1 DEF KernelState
  <2>3. QED
    BY <2>2 DEF NoMore
<1>6. CASE SwEnter
  BY <1>6 DEF SwEnter, NoMore
<1>7. CASE SwLeave
  <2> DEFINE k1 == IF k.cur = NULL THEN [k EXCEPT !.cur = k.nxt] ELSE k
             k2 == IF k1.cur = k1.nxt THEN os_sched(k1, "sw") ELSE k1
  <2>1. k1 \in KernelState /\ k1.list = k.list
    BY <1>1 DEF KernelState
  <2>2. k2 \in KernelState /\ k2.list = k1.list
    <3> HIDE DEF k1
    <3>1. QED
      BY <1>1, <2>1, SchedType, NoMoreSched
  <2>3. SwitchTask(k) = IF k2.fault THEN k2 ELSE [k2 EXCEPT !.cur = k2.nxt]
    BY DEF SwitchTask
  <2>4. k2.list = k.list
    BY <2>1, <2>2
  <2> HIDE DEF k1, k2
  <2>5. SwitchTask(k).list = k.list
    BY <2>2, <2>3, <2>4 DEF KernelState
  <2>6. QED
    BY <1>7, <2>5 DEF SwLeave, NoMore
<1>8. QED
  BY <1>2, <1>3, <1>4, <1>5, <1>6, <1>7 DEF TickHandler

LEMMA NoMoreBoot == ASSUME TypeInv, Boot, NEW o \in Object PROVE NoMore(k, k', o)
<1>1. k \in KernelState /\ "thread" \in {"thread", "sw"}
  BY TypeParts
<1>2. ASSUME NEW t \in Task, NEW p \in Prio, BootCreate(t, p) PROVE NoMore(k, k', o)
  <2> DEFINE k1 == [k EXCEPT !.prio[t] = p, !.state[t] = "NEW", !.slice[t] = 0]
             k2 == os_rq_add_task(k1, t)
  <2>1. 0 \in Count
    BY KernelAssumption DEF Count
  <2>2. k1 \in KernelState /\ k1.list = k.list
    BY <1>1, <2>1 DEF KernelState, TaskState
  <2>3. k' = os_sched(k2, "thread")
    BY <1>2 DEF BootCreate, os_task_create
  <2>4. k2 \in KernelState /\ NoMore(k1, k2, o)
    <3> HIDE DEF k1
    <3>1. QED
      BY <2>2, AddTaskType, NoMoreAddTask
  <2> HIDE DEF k1, k2
  <2>5. k'.list = k2.list
    BY <1>1, <2>3, <2>4, NoMoreSched
  <2>6. QED
    BY <2>2, <2>4, <2>5 DEF NoMore
<1>3. CASE os_sys_start
  BY <1>1, <1>3 DEF os_sys_start, os_rq_get_highest_prio_task, NoMore, KernelState
<1>4. QED
  BY <1>2, <1>3, ClientFacts, ListNames DEF Boot

LEMMA NoMoreKernel == ASSUME TypeInv, KernelStep PROVE NoMore(k, k', Sem)
<1>1. ASSUME NEW t \in Task, TaskStep(t) PROVE NoMore(k, k', Sem)
  BY <1>1, NoMoreTaskStep DEF NoMore
<1>2. QED
  BY <1>1, SemFacts, NoMoreCall, NoMoreHandlers, NoMoreBoot DEF KernelStep

LEMMA NoIdleStep ==
  ASSUME SemTypeInv, NoIdleToken, [SemNext]_allVars
  PROVE  NoIdleToken'
<1>1. k \in KernelState /\ value \in Nat
  BY TypeParts DEF SemTypeInv
<1>2. Release(k, value)[2] > 0 => Release(k, value)[1].list[Sem] = <<>>
  <2>1. k.list[Sem] = <<>> => Release(k, value)[1] = k
    BY DEF Release
  <2>2. k.list[Sem] # <<>> => Release(k, value)[2] = value
    BY DEF Release
  <2>3. QED
    BY <2>1, <2>2 DEF NoIdleToken
<1>3. CASE UNCHANGED allVars
  BY <1>3 DEF allVars, semVars, vars, NoIdleToken
<1>4. CASE KernelStep
  BY <1>4, NoMoreKernel DEF SemTypeInv, KernelStep, semVars, NoMore, NoIdleToken
<1>5. ASSUME NEW t \in Task, os_sem_take(t) PROVE NoIdleToken'
  BY <1>1, <1>5 DEF os_sem_take, os_sem_try_take, vars, NoIdleToken
<1>6. ASSUME NEW t \in Task, TakeReturn(t) PROVE NoIdleToken'
  <2>1. k' = Forget(k, t) /\ value' = value
    BY <1>6 DEF TakeReturn, Then, semVars
  <2>2. QED
    BY <1>1, <2>1 DEF Forget, KernelState, NoIdleToken
<1>7. ASSUME NEW t \in Task, os_sem_release(t) PROVE NoIdleToken'
  <2>1. k' = Release(k, value)[1] /\ value' = Release(k, value)[2]
    BY <1>7 DEF os_sem_release, Then
  <2>2. QED
    BY <1>2, <2>1 DEF NoIdleToken
<1>8. CASE IntPost
  BY <1>8 DEF IntPost, NoIdleToken
<1>9. CASE Publish
  BY <1>2, <1>9 DEF Publish, NoIdleToken
<1>10. QED
  BY <1>3, <1>4, <1>5, <1>6, <1>7, <1>8, <1>9, SemSteps DEF SemStep

\* A token is never kept while a task waits for one: a task begins to wait when
\* there is none, whoever puts one back looks at the waiting tasks first, and no
\* other function of the kernel makes a task wait for the semaphore.  Whatever the
\* application calls, the calls that corrupt memory included.
THEOREM TokensAreUsed == SemSpec => []NoIdleToken
<1>1. SemInit => NoIdleToken
  BY SemFacts DEF SemInit, Init, KernelReset, NoIdleToken
<1>2. QED
  BY <1>1, SemTypeInit, SemTypeStep, NoIdleStep, PTL DEF SemSpec

-----------------------------------------------------------------------------
(* The semaphore is a counting semaphore.                                  *)

\* The rest of the kernel used with care: nothing cuts a wait for the semaphore
\* short, no task waits while it holds the scheduler lock, and a task that waits
\* without a limit never delays itself.
SemClient == /\ ~ Careless /\ "lock" \notin Calls /\ "wake" \notin Calls
             /\ "delay" \in Calls => Never \notin TimeOuts

\* Who is in the semaphore's list waits for nothing else and for no longer than its
\* limit; who is on the tick list and not in it delays itself; and only a delay leaves
\* a task that is not in a call with the mark of a wait that timed out.
TaskWaits(t) ==
  /\ Shape(todo[t])
  /\ t \in ToSet(k.list[Sem]) =>
       Awaits(todo[t]) /\ k.bstate[t] # "TIMEOUT" /\ t \notin ToSet(k.list[SysBlock])
  /\ TickLinked(k, t) => t \in ToSet(k.list[Sem]) \/ (~ Awaits(todo[t]) /\ "delay" \in Calls)
  /\ k.bstate[t] = "TIMEOUT" => Awaits(todo[t]) \/ "delay" \in Calls

WaitInv == \A t \in Task : TaskWaits(t)

SemInv == SemTypeInv /\ LockInv /\ SafeInv /\ ReadyInv /\ WaitInv /\ NoIdleToken

-----------------------------------------------------------------------------
(* What a step means for the semaphore, task by task.                      *)

\* It means nothing.
Kept(t) ==
  /\ Shape(todo'[t]) /\ (Awaits(todo'[t]) <=> Awaits(todo[t]))
  /\ \A l \in List : t \in ToSet(k'.list[l]) <=> t \in ToSet(k.list[l])
  /\ TickLinked(k', t) <=> TickLinked(k, t)
  /\ k'.bstate[t] = "TIMEOUT" <=> k.bstate[t] = "TIMEOUT"

\* The task is moved and has nothing to do with the semaphore.
Aside(t) ==
  /\ Shape(todo'[t]) /\ (Awaits(todo'[t]) <=> Awaits(todo[t]))
  /\ t \notin ToSet(k.list[Sem]) /\ t \notin ToSet(k'.list[Sem])
  /\ \/ k'.bstate[t] = k.bstate[t] /\ ~ TickLinked(k', t)
     \/ ~ Awaits(todo[t]) /\ "delay" \in Calls

\* It has waited as long as it wanted to.
GivesUp(t) ==
  /\ todo'[t] = todo[t] /\ Awaits(todo[t])
  /\ t \in ToSet(k.list[Sem]) /\ t \notin ToSet(k'.list[Sem])
  /\ TickLinked(k, t) /\ ~ TickLinked(k', t) /\ k'.bstate[t] = "TIMEOUT"

OneTask(t) == /\ t \in Task /\ (Kept(t) \/ Aside(t) \/ GivesUp(t))
              /\ \A u \in Task \ {t} : Kept(u)

LEMMA KeptAll ==
  ASSUME SemInv, SameTasks(k, k'),
         \A t \in Task : todo'[t] = todo[t]
                         \/ (Shape(todo'[t]) /\ (Awaits(todo'[t]) <=> Awaits(todo[t])))
  PROVE  \E t \in Task : OneTask(t)
<1>1. \A t \in Task : Shape(todo[t])
  BY DEF SemInv, WaitInv, TaskWaits
<1>2. \A t \in Task : Kept(t)
  BY <1>1 DEF SameTasks, Kept
<1>3. Idle \in Task
  BY ListNames
<1>4. QED
  BY <1>2, <1>3 DEF OneTask

LEMMA WaitsCall ==
  ASSUME SemClient, SemInv, NEW t \in Task, Call(t)
  PROVE  \E u \in Task : OneTask(u)
<1>1. PICK u \in Task : CallMoves(t, u)
  BY CallWaits DEF SemClient, SemInv, SemTypeInv, ReadyInv
<1>2. /\ todo[t] = <<>>
      /\ \E rest : /\ todo' = [todo EXCEPT ![t] = rest]
                   /\ MovesLock(rest) \/ \E v \in Task : MovesTask(t, v, rest)
  BY CallEffect DEF SemClient, SemInv, SemTypeInv
<1>3. PICK rest : /\ todo' = [todo EXCEPT ![t] = rest]
                  /\ rest \in {<<>>, <<"sched">>, <<"sched", "delayRet">>, <<"sched", "gone">>}
  BY <1>2 DEF MovesLock, MovesTask
<1>4. todo \in [Task -> Seq(Step)] /\ k \in KernelState /\ Lists(k)
  BY TypeParts DEF SemInv, SemTypeInv, SafeInv, Safe
<1>5. \A v \in Task : Shape(todo[v])
  BY DEF SemInv, WaitInv, TaskWaits
<1>6. ~ Awaits(todo[t]) /\ ~ Awaits(todo'[t]) /\ Shape(todo'[t])
  BY <1>2, <1>3, <1>4, AwaitNone
<1>7. \A v \in Task : Shape(todo'[v]) /\ (Awaits(todo'[v]) <=> Awaits(todo[v]))
  BY <1>3, <1>4, <1>5, <1>6
<1>8. \A v \in Task \ {u} : Kept(v)
  BY <1>1, <1>7 DEF CallMoves, OnlyTask, Untouched, Kept
<1>9. u \notin ToSet(k.list[Sem])
  <2>1. CASE k.state[u] # "BLOCKING"
    BY <1>4, <2>1, NotWaiting, SemFacts
  <2>2. CASE u \in ToSet(k.list[SysBlock])
    BY <2>2 DEF SemInv, WaitInv, TaskWaits
  <2>3. QED
    BY <1>1, <2>1, <2>2 DEF CallMoves
<1>10. Aside(u)
  BY <1>1, <1>6, <1>7, <1>9, SemFacts DEF CallMoves, Aside
<1>11. QED
  BY <1>8, <1>10 DEF OneTask

LEMMA WaitsTaskStep ==
  ASSUME SemInv, NEW t \in Task, TaskStep(t)
  PROVE  \E u \in Task : OneTask(u)
<1>1. /\ todo[t] # <<>> /\ k \in KernelState /\ Lists(k) /\ todo \in [Task -> Seq(Step)]
      /\ Shape(todo[t]) /\ TypeInv /\ LockInv /\ SafeInv
  BY TypeParts
  DEF TaskStep, SchedStep, os_ctx_sw, DelayReturn, RunsOff, Continues, SemInv, SemTypeInv,
      SafeInv, Safe, WaitInv, TaskWaits
<1>2. \A w : /\ todo' = [todo EXCEPT ![t] = w] /\ Shape(w) /\ (Awaits(w) <=> Awaits(todo[t]))
             => \A u \in Task : todo'[u] = todo[u]
                  \/ (Shape(todo'[u]) /\ (Awaits(todo'[u]) <=> Awaits(todo[u])))
  BY <1>1
<1>3. CASE SchedStep(t)
  <2> DEFINE rest == (IF k'.nxt # k'.cur THEN <<"ctxSw">> ELSE <<>>) \o Tail(todo[t])
  <2>1. Chosen(k, k') /\ todo' = [todo EXCEPT ![t] = rest]
    BY <1>1, <1>3, SchedStepEffect
  <2>2. Head(todo[t]) = "sched"
    BY <1>3 DEF SchedStep, Continues
  <2>3. rest \in {<<"ctxSw">> \o Tail(todo[t]), <<>> \o Tail(todo[t])}
    OBVIOUS
  <2> HIDE DEF rest
  <2>4. Shape(rest) /\ (Awaits(rest) <=> Awaits(todo[t]))
    BY <1>1, <2>2, <2>3, AwaitSched
  <2>5. QED
    BY <1>2, <2>1, <2>4, KeptAll DEF Chosen
<1>4. CASE os_ctx_sw(t)
  <2>1. k' = k /\ todo' = [todo EXCEPT ![t] = Tail(todo[t])] /\ Head(todo[t]) = "ctxSw"
    BY <1>4 DEF os_ctx_sw, Continues
  <2>2. Shape(Tail(todo[t])) /\ (Awaits(Tail(todo[t])) <=> Awaits(todo[t]))
    BY <1>1, <2>1, AwaitTail
  <2>3. SameTasks(k, k')
    BY <1>1, <2>1 DEF SameTasks
  <2>4. QED
    BY <1>2, <2>1, <2>2, <2>3, KeptAll
<1>5. CASE DelayReturn(t)
  <2> DEFINE b == IF k.bstate[t] = "EARLY_WAKEUP" THEN "NONE" ELSE k.bstate[t]
             k1 == [k EXCEPT !.bstate[t] = b]
  <2>1. k' = k1 /\ todo' = [todo EXCEPT ![t] = Tail(todo[t])] /\ Head(todo[t]) = "delayRet"
    BY <1>5 DEF DelayReturn, Then, Continues
  <2>2. Shape(Tail(todo[t])) /\ (Awaits(Tail(todo[t])) <=> Awaits(todo[t]))
    BY <1>1, <2>1, AwaitTail
  <2>3. b = "TIMEOUT" <=> k.bstate[t] = "TIMEOUT"
    OBVIOUS
  <2> HIDE DEF b
  <2>4. /\ k1.list = k.list /\ k1.ticks = k.ticks
        /\ \A u \in Task : k1.bstate[u] = "TIMEOUT" <=> k.bstate[u] = "TIMEOUT"
    BY <1>1, <2>3 DEF KernelState
  <2> HIDE DEF k1
  <2>5. \A u \in Task : Kept(u)
    <3>1. \A u \in Task : Shape(todo[u])
      BY DEF SemInv, WaitInv, TaskWaits
    <3>2. QED
      BY <1>1, <2>1, <2>2, <2>4, <3>1 DEF Kept, TickLinked
  <2>6. QED
    BY <2>5 DEF OneTask
<1>6. CASE RunsOff(t)
  <2> DEFINE k1 == [k EXCEPT !.fault = TRUE]
  <2>1. k' = k1 /\ todo' = [todo EXCEPT ![t] = <<>>] /\ Head(todo[t]) = "gone"
    BY <1>6 DEF RunsOff, Then, Continues
  <2>2. Shape(<<>>) /\ (Awaits(<<>>) <=> Awaits(todo[t]))
    BY <1>1, <2>1, AwaitTail, AwaitNone
  <2>3. SameFields(k, k1)
    BY <1>1 DEF SameFields, KernelState
  <2> HIDE DEF k1
  <2>4. SameTasks(k, k')
    BY <1>1, <2>1, <2>3, FieldsSame
  <2>5. QED
    BY <1>2, <2>1, <2>2, <2>4, KeptAll
<1>7. QED
  BY <1>3, <1>4, <1>5, <1>6 DEF TaskStep

LEMMA WaitsHandlers ==
  ASSUME SemInv, TickHandler \/ MissTick \/ SwEnter \/ SwLeave, k' \in KernelState
  PROVE  \E u \in Task : OneTask(u)
<1>1. TypeInv /\ LockInv /\ SafeInv /\ Lists(k) /\ k \in KernelState
  BY TypeParts DEF SemInv, SemTypeInv, SafeInv, Safe
<1>2. todo' = todo
  BY DEF TickHandler, SysTick, ExpireTask, ExpireNext, ExpireLast, MissTick, SwEnter, SwLeave
<1>3. SameTasks(k, k') => \E u \in Task : OneTask(u)
  BY <1>2, KeptAll
<1>4. OnlyCounters(k, k') \/ Rescheduled => SameTasks(k, k')
  BY CountersSame DEF Rescheduled, Chosen
<1>5. CASE SysTick
  BY <1>1, <1>3, <1>4, <1>5, SysTickEffect
<1>6. CASE MissTick
  BY <1>1, <1>3, <1>4, <1>6, MissTickEffect
<1>7. CASE SwEnter
  BY <1>1, <1>3, <1>7 DEF SwEnter, SameTasks
<1>8. CASE SwLeave
  BY <1>1, <1>3, <1>8, SwLeaveEffect
<1>9. CASE ExpireTask \/ ExpireNext \/ ExpireLast
  <2>1. ASSUME NEW u \in Task, OnlyTask(k, k', u), TickLinked(k, u), k'.state[u] = "READY",
               k'.bstate[u] = "TIMEOUT", ~ TickLinked(k', u)
        PROVE  OneTask(u)
    <3>1. \A v \in Task : Shape(todo[v])
      BY DEF SemInv, WaitInv, TaskWaits
    <3>2. \A v \in Task \ {u} : Kept(v)
      BY <1>2, <2>1, <3>1 DEF OnlyTask, Untouched, Kept
    <3>3. u \notin ToSet(k'.list[Sem])
      BY <2>1, NotWaiting, SemFacts DEF OnlyTask
    <3>4. Aside(u) \/ GivesUp(u)
      BY <1>2, <2>1, <3>1, <3>3 DEF SemInv, WaitInv, TaskWaits, Aside, GivesUp
    <3>5. QED
      BY <3>2, <3>4 DEF OneTask
  <2>2. \/ SameTasks(k, k')
        \/ \E u \in Task : /\ OnlyTask(k, k', u) /\ TickLinked(k, u) /\ k'.state[u] = "READY"
                           /\ k'.bstate[u] = "TIMEOUT" /\ ~ TickLinked(k', u)
    BY <1>1, <1>4, <1>9, ExpiryEffect
  <2>3. QED
    BY <1>3, <2>1, <2>2
<1>10. QED
  BY <1>5, <1>6, <1>7, <1>8, <1>9 DEF TickHandler

LEMMA WaitsBoot ==
  ASSUME SemInv, Boot, k' \in KernelState
  PROVE  \E u \in Task : OneTask(u)
<1>1. TypeInv /\ LockInv /\ SafeInv /\ Lists(k) /\ k \in KernelState
  BY TypeParts DEF SemInv, SemTypeInv, SafeInv, Safe
<1>2. todo' = todo
  BY DEF Boot, BootCreate, os_sys_start
<1>3. ASSUME NEW t \in Task, NEW p \in Prio, BootCreate(t, p) PROVE OneTask(t)
  <2>1. PICK ka : /\ OnlyTask(k, ka, t) /\ ka.state[t] = "READY"
                  /\ ka.bstate = k.bstate /\ ~ TickLinked(ka, t) /\ Chosen(ka, k')
    BY <1>1, <1>3, BootCreateEffect
  <2>2. k.state[t] # "BLOCKING"
    BY <1>3 DEF BootCreate, SemInv, SafeInv
  <2>3. /\ t \notin ToSet(k.list[Sem]) /\ ~ TickLinked(k', t) /\ k'.bstate[t] = k.bstate[t]
    BY <1>1, <2>1, <2>2, NotWaiting, SemFacts DEF Chosen, SameTasks
  <2>4. Lists(k') /\ k'.state[t] # "BLOCKING"
    BY <2>1 DEF Chosen, SameTasks
  <2>5. t \notin ToSet(k'.list[Sem])
    BY <2>4, NotWaiting, SemFacts
  <2>6. \A v \in Task : Shape(todo[v])
    BY DEF SemInv, WaitInv, TaskWaits
  <2>7. Aside(t)
    BY <1>2, <2>3, <2>5, <2>6 DEF Aside
  <2>8. \A v \in Task \ {t} : Kept(v)
    BY <1>2, <2>1, <2>6 DEF OnlyTask, Untouched, Chosen, SameTasks, Kept
  <2>9. QED
    BY <2>7, <2>8 DEF OneTask
<1>4. ASSUME os_sys_start PROVE \E u \in Task : OneTask(u)
  <2>1. ~ running /\ Idle \in alive /\ k' = os_rq_get_highest_prio_task(k)
    BY <1>4 DEF os_sys_start
  <2>2. k.map # {}
    BY <1>1, <2>1, QueueThere DEF SafeInv
  <2>3. OnlyChoice(k, k')
    BY <1>1, <2>1, <2>2, GetHighestLists
  <2>4. SameTasks(k, k')
    BY <2>3 DEF OnlyChoice, SameTasks, TickLinked
  <2>5. QED
    BY <1>2, <2>4, KeptAll
<1>5. QED
  BY <1>3, <1>4, ClientFacts, ListNames DEF Boot

LEMMA WaitsKernel ==
  ASSUME SemClient, SemInv, KernelStep
  PROVE  \E u \in Task : OneTask(u)
<1>1. k' \in KernelState
  BY SemSteps, TypeInvStep DEF SemInv, SemTypeInv, TypeInv, TypeOK
<1>2. QED
  BY <1>1, WaitsBoot, WaitsHandlers, WaitsTaskStep, WaitsCall DEF KernelStep

-----------------------------------------------------------------------------
(* The steps of the semaphore keep what the kernel relies on.              *)

\* What holds when a task takes, returns from its wait or releases.
LEMMA TaskAlone ==
  ASSUME SemInv, NEW t \in Task, Runs(t), todo[t] = <<>> \/ Head(todo[t]) = "waitRet"
  PROVE  /\ k.cur = t /\ k.nxt = t /\ t # NULL /\ running /\ irq = "none" /\ Settled
         /\ k.lock = 0 /\ k \in KernelState /\ Lists(k) /\ HighStart(k) /\ alive \subseteq Task
         /\ todo \in [Task -> Seq(Step)]
         /\ Ready(k, t) /\ k.state[t] # "BLOCKING" /\ ~ TickLinked(k, t)
         /\ \A o \in Object : t \notin ToSet(k.list[o])
<1>1. /\ TypeInv /\ LockInv /\ SafeInv /\ ReadyInv /\ k.lock = 0
      /\ k \in KernelState /\ Lists(k) /\ HighStart(k) /\ alive \subseteq Task
      /\ todo \in [Task -> Seq(Step)]
  BY TypeParts DEF SemInv, SemTypeInv, SafeInv, Safe, ReadyInv
<1>2. Works /\ k.cur = t /\ k.nxt = t /\ irq = "none" /\ ~ swPending /\ t # NULL
  BY <1>1, RunsAlone, ListNames
<1>3. Settled
  BY <1>1, <1>2 DEF Settled
<1>4. Ready(k, t)
  BY <1>1, <1>2, <1>3 DEF ReadyInv
<1>5. QED
  BY <1>1, <1>2, <1>3, <1>4, ReadyNotBlocked, NotWaiting DEF Works

\* What a release does to the kernel: nothing, or it moves a task that waits.
Woken(u) ==
  /\ u \in Task /\ u \in ToSet(k.list[Sem]) /\ k.state[u] = "BLOCKING"
  /\ OnlyTask(k, k', u) /\ k'.bstate = k.bstate
  /\ k'.state[u] = "READY" /\ ~ TickLinked(k', u) /\ Ready(k', u)
  /\ value' = value

Frees == \/ k' = k /\ k.list[Sem] = <<>> /\ value' = value + 1
         \/ \E u \in Task \ {Idle} : Woken(u)

LEMMA ReleaseEffect ==
  ASSUME SemInv, k' = Release(k, value)[1], value' = Release(k, value)[2]
  PROVE  Frees /\ k' \in KernelState
<1>1. /\ k \in KernelState /\ Lists(k) /\ HighStart(k) /\ k.state[Idle] # "BLOCKING"
      /\ value \in Nat
  BY TypeParts DEF SemInv, SemTypeInv, SafeInv, Safe
<1>2. k' \in KernelState
  BY <1>1, ReleaseType
<1>3. CASE k.list[Sem] = <<>>
  BY <1>2, <1>3 DEF Release, Frees
<1>4. CASE k.list[Sem] # <<>>
  <2> DEFINE u == Head(k.list[Sem])
             k1 == os_block_wakeup_first_task(k, Sem)
  <2>1. /\ u \in Task /\ u \in ToSet(k.list[Sem])
        /\ OnlyTask(k, k1, u) /\ k1.state[u] = "READY" /\ Ready(k1, u)
        /\ k1.bstate = k.bstate /\ ~ TickLinked(k1, u)
    BY <1>1, <1>4, SemFacts, WakeFirst
  <2>2. k' = k1 /\ value' = value
    BY <1>4 DEF Release
  <2> HIDE DEF u, k1
  <2>3. k.state[u] = "BLOCKING"
    BY <1>1, <2>1, SemFacts DEF Lists, WaitersBlocked
  <2>4. u \in Task \ {Idle} /\ Woken(u)
    BY <1>1, <2>1, <2>2, <2>3 DEF Woken
  <2>5. QED
    BY <1>2, <2>4 DEF Frees
<1>5. QED
  BY <1>3, <1>4

\* The parts of the invariant that say where tasks are.
PlaceInv == LockInv /\ SafeInv /\ ReadyInv /\ WaitInv

\* A task that takes finds a token, or begins to wait.
TakesToken == value > 0 /\ value' = value - 1 /\ UNCHANGED <<vars, posts>>

Begins(t) ==
  /\ Runs(t) /\ todo[t] = <<>> /\ t # Idle /\ value = 0
  /\ OnlyTask(k, k', t) /\ k' \in KernelState /\ k'.state[t] = "BLOCKING"
  /\ t \in ToSet(k'.list[Sem]) /\ t \notin ToSet(k'.list[SysBlock])
  /\ k'.bstate[t] # "TIMEOUT"
  /\ todo' = [todo EXCEPT ![t] = <<"sched", "waitRet">>]
  /\ UNCHANGED <<running, alive, swEnabled, swPending, irq, value>>

LEMMA TakeEffect ==
  ASSUME SemClient, SemInv, NEW t \in Task, os_sem_take(t)
  PROVE  TakesToken \/ Begins(t)
<1>1. /\ Runs(t) /\ t # Idle /\ todo[t] = <<>> /\ posts' = posts /\ value \in Nat
      /\ \/ value > 0 /\ value' = value - 1 /\ UNCHANGED vars
         \/ /\ ~ (value > 0) /\ UNCHANGED <<value, alive>>
            /\ \E n \in TimeOuts :
                 Then(t, os_add_tick_task(k, t, n, Sem), <<"sched", "waitRet">>)
  BY DEF os_sem_take, os_sem_try_take, Invokes, SemInv, SemTypeInv
<1>2. CASE value > 0
  BY <1>1, <1>2 DEF TakesToken
<1>3. CASE ~ (value > 0)
  <2>1. PICK n \in TimeOuts :
          Then(t, os_add_tick_task(k, t, n, Sem), <<"sched", "waitRet">>)
    BY <1>1, <1>3
  <2>2. /\ k \in KernelState /\ Lists(k) /\ k.state[t] # "BLOCKING"
    BY <1>1, TaskAlone
  <2> DEFINE k1 == os_add_tick_task(k, t, n, Sem)
  <2>3. /\ k1 \in KernelState /\ OnlyTask(k, k1, t) /\ k1.state[t] = "BLOCKING"
        /\ t \in ToSet(k1.list[Sem])
        /\ \A o \in Object \ {Sem} : t \notin ToSet(k1.list[o])
        /\ n # Never => k1.bstate[t] = "TICKING"
        /\ n = Never => k1.bstate[t] = k.bstate[t]
    BY <2>2, SemFacts, TakeWaits
  <2>4. k' = k1 /\ todo' = [todo EXCEPT ![t] = <<"sched", "waitRet">>]
        /\ UNCHANGED <<running, swEnabled, swPending, irq>>
    BY <2>1 DEF Then
  <2> HIDE DEF k1
  <2>5. n = Never => k.bstate[t] # "TIMEOUT"
    <3>1. ~ Awaits(todo[t])
      BY <1>1, AwaitNone
    <3>2. QED
      BY <2>1, <3>1 DEF SemInv, WaitInv, TaskWaits, SemClient
  <2>6. SysBlock \in Object \ {Sem} /\ value = 0
    BY <1>1, <1>3, SemFacts, ListNames
  <2>7. QED
    BY <1>1, <1>3, <2>3, <2>4, <2>5, <2>6 DEF Begins
<1>4. QED
  BY <1>2, <1>3

LEMMA BeginsPlace ==
  ASSUME SemInv, NEW t \in Task, Begins(t)
  PROVE  PlaceInv'
<1> DEFINE w == <<"sched", "waitRet">>
<1>1. /\ Runs(t) /\ todo[t] = <<>> /\ t # Idle /\ todo' = [todo EXCEPT ![t] = w]
      /\ OnlyTask(k, k', t) /\ k' \in KernelState
      /\ UNCHANGED <<running, alive, swEnabled, swPending, irq>>
  BY DEF Begins
<1>2. /\ k.cur = t /\ k.nxt = t /\ running /\ k.lock = 0 /\ k \in KernelState
      /\ alive \subseteq Task /\ todo \in [Task -> Seq(Step)]
  BY <1>1, TaskAlone
<1>3. w \in Seq(Step) /\ Len(w) = 2 /\ w[2] = "waitRet" /\ w # <<>> /\ Head(w) = "sched"
      /\ Shape(w) /\ Awaits(w)
  BY AwaitTake DEF Step
<1> HIDE DEF w
<1>4. LockInv'
  <2>1. \A i \in 2..Len(w) : w[i] \in {"delayRet", "waitRet", "gone"}
    BY <1>3
  <2>2. TodoInv'
    BY <1>1, <1>3, <2>1, TodoNext DEF SemInv, SemTypeInv
  <2>3. SameSched(k, k') /\ k'.fault = k.fault /\ LockInv
    BY <1>1 DEF OnlyTask, SemInv
  <2>4. QED
    BY <1>1, <1>2, <2>2, <2>3, LockStays
<1>5. SafeInv'
  <2>1. Findable(k', t)
    BY SemFacts DEF Begins, Findable
  <2>2. QED
    BY <1>1, <1>2, <2>1, SafeMoved DEF SemInv
<1>6. ReadyInv'
  <2>1. k'.cur = t /\ k'.nxt = t /\ k'.lock = 0 /\ todo'[t] = w
    BY <1>1, <1>2 DEF OnlyTask, SameSched
  <2>2. ~ Settled'
    BY <1>3, <2>1 DEF Settled
  <2>3. QED
    BY <2>1, <2>2 DEF ReadyInv
<1>7. WaitInv'
  <2>1. TaskWaits(t)'
    <3>1. todo'[t] = w
      BY <1>1, <1>2
    <3>2. QED
      BY <1>3, <3>1 DEF Begins, TaskWaits
  <2>2. ASSUME NEW u \in Task \ {t} PROVE TaskWaits(u)'
    <3>1. todo'[u] = todo[u] /\ Untouched(k, k', u) /\ TaskWaits(u)
      BY <1>1, <1>2 DEF OnlyTask, SemInv, WaitInv
    <3>2. QED
      BY <3>1, SemFacts, ListNames DEF Untouched, TaskWaits
  <2>3. QED
    BY <2>1, <2>2 DEF WaitInv
<1>8. QED
  BY <1>4, <1>5, <1>6, <1>7 DEF PlaceInv

\* The wait of a task has ended and its call returns.
LEMMA ForgetEffect ==
  ASSUME SemInv, NEW t \in Task, TakeReturn(t)
  PROVE  /\ Runs(t) /\ todo[t] # <<>> /\ Head(todo[t]) = "waitRet"
         /\ k' \in KernelState /\ OnlyTask(k, k', t) /\ k'.bstate[t] = "NONE"
         /\ k'.prio = k.prio /\ k'.state = k.state /\ k'.list = k.list /\ k'.ticks = k.ticks
         /\ todo' = [todo EXCEPT ![t] = Tail(todo[t])]
         /\ UNCHANGED <<running, alive, swEnabled, swPending, irq, value>>
<1>1. /\ Runs(t) /\ todo[t] # <<>> /\ Head(todo[t]) = "waitRet"
      /\ Then(t, Forget(k, t), Tail(todo[t])) /\ UNCHANGED <<alive, value>>
  BY DEF TakeReturn, Continues, semVars
<1>2. k \in KernelState /\ Lists(k) /\ "NONE" \in BlockState
  BY <1>1, TaskAlone DEF BlockState
<1> DEFINE k1 == [k EXCEPT !.bstate[t] = "NONE"]
<1>3. /\ k1 \in KernelState /\ OnlyTask(k, k1, t) /\ k1.bstate[t] = "NONE"
      /\ k1.prio = k.prio /\ k1.state = k.state /\ k1.list = k.list /\ k1.ticks = k.ticks
  BY <1>2, SetBState
<1>4. k' = k1
  BY <1>1 DEF Then, Forget
<1> HIDE DEF k1
<1>5. QED
  BY <1>1, <1>3, <1>4 DEF Then

LEMMA ReturnPlace ==
  ASSUME SemInv, NEW t \in Task, TakeReturn(t)
  PROVE  PlaceInv'
<1> DEFINE w == Tail(todo[t])
<1>1. /\ Runs(t) /\ todo[t] # <<>> /\ Head(todo[t]) = "waitRet"
      /\ k' \in KernelState /\ OnlyTask(k, k', t) /\ k'.bstate[t] = "NONE"
      /\ k'.prio = k.prio /\ k'.state = k.state /\ k'.list = k.list /\ k'.ticks = k.ticks
      /\ todo' = [todo EXCEPT ![t] = w]
      /\ UNCHANGED <<running, alive, swEnabled, swPending, irq>>
  BY ForgetEffect
<1>2. /\ k.cur = t /\ k.nxt = t /\ running /\ k.lock = 0 /\ k \in KernelState /\ Settled
      /\ alive \subseteq Task /\ todo \in [Task -> Seq(Step)] /\ Ready(k, t)
      /\ ~ TickLinked(k, t) /\ \A o \in Object : t \notin ToSet(k.list[o])
  BY <1>1, TaskAlone
<1>3. t # Idle /\ TodoInv /\ Shape(todo[t]) /\ todo[t] \in Seq(Step)
  BY <1>1, <1>2 DEF SemInv, LockInv, TodoInv, WaitInv, TaskWaits
<1>4. /\ w \in Seq(Step) /\ Len(w) = Len(todo[t]) - 1
      /\ \A i \in 1..(Len(todo[t]) - 1) : w[i] = todo[t][i + 1]
      /\ Len(todo[t]) \in Nat /\ Shape(w) /\ ~ Awaits(w)
  BY <1>1, <1>3, TailFacts, AwaitTail
<1> HIDE DEF w
<1>5. LockInv'
  <2>1. \A i \in 2..Len(w) : w[i] \in {"delayRet", "waitRet", "gone"}
    BY <1>3, <1>4 DEF TodoInv
  <2>2. TodoInv'
    BY <1>1, <1>3, <1>4, <2>1, TodoNext DEF SemInv, SemTypeInv
  <2>3. SameSched(k, k') /\ k'.fault = k.fault /\ LockInv
    BY <1>1 DEF OnlyTask, SemInv
  <2>4. QED
    BY <1>1, <1>2, <2>2, <2>3, LockStays
<1>6. SafeInv'
  <2>1. t \in alive => Findable(k', t)
    BY <1>1 DEF SemInv, SafeInv, Safe, Findable, TickLinked
  <2>2. QED
    BY <1>1, <1>2, <1>3, <2>1, SafeMoved DEF SemInv
<1>7. ReadyInv'
  <2>1. k'.cur = t /\ k'.nxt = t /\ k'.lock = 0
    BY <1>1, <1>2 DEF OnlyTask, SameSched
  <2>2. QED
    BY <1>1, <1>2, <2>1 DEF ReadyInv, Ready
<1>8. WaitInv'
  <2>1. TaskWaits(t)'
    <3>1. todo'[t] = w
      BY <1>1, <1>2
    <3>2. QED
      BY <1>1, <1>2, <1>4, <3>1, SemFacts DEF TaskWaits, TickLinked
  <2>2. ASSUME NEW u \in Task \ {t} PROVE TaskWaits(u)'
    <3>1. todo'[u] = todo[u] /\ Untouched(k, k', u) /\ TaskWaits(u)
      BY <1>1, <1>2 DEF OnlyTask, SemInv, WaitInv
    <3>2. QED
      BY <3>1, SemFacts, ListNames DEF Untouched, TaskWaits
  <2>3. QED
    BY <2>1, <2>2 DEF WaitInv
<1>9. QED
  BY <1>5, <1>6, <1>7, <1>8 DEF PlaceInv

\* A release by a task, or by a call that an interrupt posted.
LEMMA FreesPlace ==
  ASSUME SemInv, Frees, k' \in KernelState, running, UNCHANGED <<running, alive, swEnabled, irq>>,
         swPending => swPending',
         \/ todo' = todo /\ irq = "sw"
         \/ \E t \in Task \ {Idle} : /\ Runs(t) /\ todo[t] = <<>>
                                     /\ todo' = [todo EXCEPT ![t] = <<"sched">>]
  PROVE  PlaceInv'
<1>1. /\ TypeInv /\ LockInv /\ SafeInv /\ ReadyInv /\ TodoInv /\ k.lock = 0
      /\ k \in KernelState /\ Lists(k) /\ alive \subseteq Task
      /\ todo \in [Task -> Seq(Step)]
  BY TypeParts DEF SemInv, SemTypeInv, LockInv, SafeInv, Safe, ReadyInv
<1>2. SameSched(k, k') /\ k'.fault = k.fault
  BY DEF Frees, Woken, OnlyTask, SameSched
<1>3. TodoInv' /\ (k.nxt = k.cur \/ todo' = todo)
  <2>1. ASSUME NEW t \in Task \ {Idle}, Runs(t), todo[t] = <<>>,
               todo' = [todo EXCEPT ![t] = <<"sched">>]
        PROVE  TodoInv' /\ k.nxt = k.cur
    <3>1. <<"sched">> \in Seq(Step) /\ Len(<<"sched">>) = 1
      BY DEF Step
    <3>2. \A i \in 2..Len(<<"sched">>) : <<"sched">>[i] \in {"delayRet", "waitRet", "gone"}
      BY <3>1
    <3>3. TodoInv'
      BY <1>1, <2>1, <3>1, <3>2, TodoNext
    <3>4. QED
      BY <2>1, <3>3, TaskAlone
  <2>2. todo' = todo => TodoInv'
    BY <1>1 DEF TodoInv
  <2>3. QED
    BY <2>1, <2>2
<1>4. LockInv'
  BY <1>1, <1>2, <1>3, LockStays
<1>5. SafeInv'
  <2>1. ASSUME NEW u \in Task \ {Idle}, Woken(u) PROVE SafeInv'
    <3>1. OnlyTask(k, k', u) /\ Findable(k', u)
      BY <2>1 DEF Woken, Findable, Ready
    <3>2. QED
      BY <1>1, <3>1, SafeMoved
  <2>2. k' = k => SafeInv'
    BY <1>1 DEF SafeInv
  <2>3. QED
    BY <2>1, <2>2 DEF Frees
<1>6. ReadyInv'
  <2>1. ~ Settled'
    <3>1. irq = "sw" => ~ Settled'
      BY DEF Settled
    <3>2. ASSUME NEW t \in Task \ {Idle}, Runs(t), todo[t] = <<>>,
                 todo' = [todo EXCEPT ![t] = <<"sched">>]
          PROVE  ~ Settled'
      <4>1. k'.cur = t /\ todo'[t] = <<"sched">>
        BY <1>1, <1>2, <3>2, TaskAlone DEF SameSched
      <4>2. QED
        BY <4>1 DEF Settled
    <3>3. QED
      BY <3>1, <3>2
  <2>2. ASSUME k.nxt \in Task, Ready(k, k.nxt) PROVE Ready(k', k.nxt)
    <3>1. ASSUME NEW u \in Task, Woken(u) PROVE Ready(k', k.nxt)
      <4>1. k.nxt # u
        BY <1>1, <2>2, <3>1, ReadyNotBlocked DEF Woken
      <4>2. QED
        BY <1>1, <2>2, <3>1, <4>1, ReadyOther DEF Woken
    <3>2. QED
      BY <2>2, <3>1 DEF Frees
  <2>3. QED
    BY <1>1, <1>2, <2>1, <2>2 DEF ReadyInv, SameSched, Works
<1>7. WaitInv'
  <2>1. \A u \in Task : TaskWaits(u)
    BY DEF SemInv, WaitInv
  <2>2. \A u \in Task : todo'[u] = todo[u] \/ (todo[u] = <<>> /\ todo'[u] = <<"sched">>)
    BY <1>1
  <2>3. \A u \in Task : Shape(todo'[u]) /\ (Awaits(todo'[u]) <=> Awaits(todo[u]))
    BY <2>1, <2>2, AwaitNone DEF TaskWaits
  <2>4. ASSUME NEW u \in Task, k' = k \/ Untouched(k, k', u) PROVE TaskWaits(u)'
    BY <2>1, <2>3, <2>4, SemFacts, ListNames DEF Untouched, TaskWaits
  <2>5. ASSUME NEW u \in Task, Woken(u) PROVE TaskWaits(u)'
    <3>1. u \notin ToSet(k'.list[Sem])
      BY <2>5, NotWaiting, SemFacts DEF Woken, OnlyTask
    <3>2. k.bstate[u] # "TIMEOUT" /\ k'.bstate[u] = k.bstate[u] /\ ~ TickLinked(k', u)
      BY <2>1, <2>5 DEF Woken, TaskWaits
    <3>3. QED
      BY <2>3, <3>1, <3>2 DEF TaskWaits
  <2>6. \A u \in Task : k' = k \/ Untouched(k, k', u) \/ Woken(u)
    BY DEF Frees, Woken, OnlyTask
  <2>7. QED
    BY <2>4, <2>5, <2>6 DEF WaitInv
<1>8. QED
  BY <1>4, <1>5, <1>6, <1>7 DEF PlaceInv

LEMMA FreesWhen ==
  ASSUME SemInv
  PROVE  /\ \A t \in Task : os_sem_release(t) =>
              /\ Frees /\ k' \in KernelState /\ running /\ t # Idle /\ Runs(t) /\ todo[t] = <<>>
              /\ todo' = [todo EXCEPT ![t] = <<"sched">>]
              /\ UNCHANGED <<running, alive, swEnabled, swPending, irq>>
         /\ Publish =>
              /\ Frees /\ k' \in KernelState /\ running /\ todo' = todo /\ irq = "sw"
              /\ UNCHANGED <<running, alive, swEnabled, swPending, irq>>
<1>1. ASSUME NEW t \in Task, os_sem_release(t)
      PROVE  /\ Frees /\ k' \in KernelState /\ running /\ t # Idle /\ Runs(t) /\ todo[t] = <<>>
             /\ todo' = [todo EXCEPT ![t] = <<"sched">>]
             /\ UNCHANGED <<running, alive, swEnabled, swPending, irq>>
  <2>1. /\ k' = Release(k, value)[1] /\ value' = Release(k, value)[2]
        /\ Runs(t) /\ t # Idle /\ todo[t] = <<>> /\ running
        /\ todo' = [todo EXCEPT ![t] = <<"sched">>]
        /\ UNCHANGED <<running, alive, swEnabled, swPending, irq>>
    BY <1>1 DEF os_sem_release, Invokes, Runs, Then
  <2>2. QED
    BY <2>1, ReleaseEffect
<1>2. ASSUME Publish
      PROVE  /\ Frees /\ k' \in KernelState /\ running /\ todo' = todo /\ irq = "sw"
             /\ UNCHANGED <<running, alive, swEnabled, swPending, irq>>
  <2>1. /\ k' = Release(k, value)[1] /\ value' = Release(k, value)[2]
        /\ irq = "sw" /\ UNCHANGED <<running, todo, alive, swEnabled, swPending, irq>>
    BY <1>2 DEF Publish
  <2>2. running
    BY <2>1 DEF SemInv, LockInv, BootInv
  <2>3. QED
    BY <2>1, <2>2, ReleaseEffect
<1>3. QED
  BY <1>1, <1>2

\* A posted call waits to be published: nothing moves.
LEMMA PostPlace == ASSUME SemInv, IntPost PROVE PlaceInv'
<1>1. k' = k /\ todo' = todo /\ swPending' /\ UNCHANGED <<running, alive, swEnabled, irq>>
  BY DEF IntPost
<1>2. LockInv /\ SafeInv /\ ReadyInv /\ WaitInv /\ TodoInv /\ k.lock = 0
  BY DEF SemInv, LockInv, ReadyInv
<1>3. LockInv'
  BY <1>1, <1>2, LockStays DEF SameSched, TodoInv
<1>4. SafeInv'
  BY <1>1, <1>2 DEF SafeInv
<1>5. ReadyInv'
  BY <1>1, <1>2 DEF ReadyInv, Settled, Works
<1>6. WaitInv'
  BY <1>1, <1>2 DEF WaitInv, TaskWaits
<1>7. QED
  BY <1>3, <1>4, <1>5, <1>6 DEF PlaceInv

LEMMA SemStepPlace == ASSUME SemClient, SemInv, SemStep PROVE PlaceInv'
<1>1. ASSUME NEW t \in Task, os_sem_take(t) PROVE PlaceInv'
  <2>1. TakesToken => PlaceInv'
    BY DEF TakesToken, vars, SemInv, PlaceInv, LockInv, BootInv, TodoInv, HolderInv, IdleInv,
           OwnInv, Works, SwitchComing, CtxDue, SafeInv, ReadyInv, Settled, WaitInv, TaskWaits
  <2>2. QED
    BY <1>1, <2>1, TakeEffect, BeginsPlace
<1>2. ASSUME NEW t \in Task, os_sem_release(t) PROVE PlaceInv'
  BY <1>2, FreesWhen, FreesPlace
<1>3. CASE Publish
  BY <1>3, FreesWhen, FreesPlace
<1>4. QED
  BY <1>1, <1>2, <1>3, ReturnPlace, PostPlace DEF SemStep

-----------------------------------------------------------------------------
(* The inductive invariant, and what it is for.                            *)

LEMMA KernelPlace == ASSUME SemClient, SemInv, KernelStep PROVE PlaceInv'
<1>1. TypeInv /\ LockInv /\ SafeInv /\ ~ Careless /\ Next
  BY SemSteps DEF SemInv, SemTypeInv, SemClient
<1>2. LockInv' /\ SafeInv'
  BY <1>1, LockInvStep, SafeInvStep
<1>3. ReadyInv'
  BY <1>1, ReadyKernel DEF SemClient, SemInv
<1>4. PICK u \in Task : OneTask(u)
  BY WaitsKernel
<1>5. ASSUME NEW t \in Task PROVE TaskWaits(t)'
  <2>1. TaskWaits(t) /\ Sem \in List /\ SysBlock \in List
    BY SemFacts, ListNames DEF SemInv, WaitInv
  <2>2. Kept(t) => TaskWaits(t)'
    BY <2>1 DEF Kept, TaskWaits
  <2>3. Aside(t) => TaskWaits(t)'
    BY <2>1 DEF Aside, TaskWaits
  <2>4. GivesUp(t) => TaskWaits(t)'
    BY <2>1 DEF GivesUp, TaskWaits
  <2>5. QED
    BY <1>4, <2>2, <2>3, <2>4 DEF OneTask
<1>6. QED
  BY <1>2, <1>3, <1>5 DEF PlaceInv, WaitInv

LEMMA SemInvStep == SemClient /\ SemInv /\ [SemNext]_allVars => SemInv'
<1> SUFFICES ASSUME SemClient, SemInv, [SemNext]_allVars PROVE SemInv'
  OBVIOUS
<1>1. SemTypeInv' /\ NoIdleToken'
  BY SemTypeStep, NoIdleStep DEF SemInv
<1>2. CASE UNCHANGED allVars
  <2>1. PlaceInv'
    BY <1>2 DEF allVars, vars, SemInv, PlaceInv, LockInv, BootInv, TodoInv, HolderInv, IdleInv,
           OwnInv, Works, SwitchComing, CtxDue, SafeInv, ReadyInv, Settled, WaitInv, TaskWaits
  <2>2. QED
    BY <1>1, <2>1 DEF SemInv, PlaceInv
<1>3. PlaceInv' => SemInv'
  BY <1>1 DEF SemInv, PlaceInv
<1>4. QED
  BY <1>2, <1>3, SemSteps, SemStepPlace, KernelPlace

LEMMA SemInvInit == SemInit => SemInv
<1> SUFFICES ASSUME SemInit PROVE SemInv
  OBVIOUS
<1>1. Init /\ SemTypeInv /\ LockInv /\ SafeInv
  BY SemTypeInit, LockInvInit, SafeInvInit DEF SemInit
<1>2. /\ k.lock = 0 /\ k.cur = NULL /\ ~ running /\ k.ticks = <<>>
      /\ \A t \in Task : k.bstate[t] = "NONE" /\ todo[t] = <<>>
      /\ \A l \in List : k.list[l] = <<>>
  BY <1>1 DEF Init, KernelReset
<1>3. ReadyInv
  BY <1>2 DEF ReadyInv, Settled
<1>4. WaitInv
  <2>1. ToSet(k.list[Sem]) = {}
    BY <1>2, SemFacts DEF ToSet
  <2>2. \A t \in Task : ~ TickLinked(k, t)
    BY <1>2 DEF TickLinked
  <2>3. QED
    BY <1>2, <2>1, <2>2, AwaitNone DEF WaitInv, TaskWaits
<1>5. NoIdleToken
  BY <1>2, SemFacts DEF NoIdleToken
<1>6. QED
  BY <1>1, <1>3, <1>4, <1>5 DEF SemInv

LEMMA SemInvHolds == ASSUME SemClient PROVE SemSpec => []SemInv
<1>1. SemInv /\ [SemNext]_allVars => SemInv'
  BY SemInvStep
<1>2. QED
  BY <1>1, SemInvInit, PTL DEF SemSpec

-----------------------------------------------------------------------------
(* The refinement: where a task is in its call, step by step.              *)

\* Status, before and after a step.
LEMMA StatusIs ==
  /\ \A t : Status(t) = IF t \in ToSet(k.list[Sem])
                          THEN IF TickLinked(k, t) THEN "waitsAWhile" ELSE "waitsForever"
                        ELSE IF Awaits(todo[t])
                          THEN IF k.bstate[t] = "TIMEOUT" THEN "gaveUp" ELSE "granted"
                        ELSE "out"
  /\ \A t : Status(t)' = IF t \in ToSet(k'.list[Sem])
                           THEN IF TickLinked(k', t) THEN "waitsAWhile" ELSE "waitsForever"
                         ELSE IF Awaits(todo'[t])
                           THEN IF k'.bstate[t] = "TIMEOUT" THEN "gaveUp" ELSE "granted"
                         ELSE "out"
BY DEF Status, Awaits

\* The abstract step a task takes while the others stay where they are.
Others(t) == \A u \in Task \ {t} : Status(u)' = Status(u)

Stays == \A t \in Task : Status(t)' = Status(t)

LEMMA KernelStatus ==
  ASSUME SemClient, SemInv, KernelStep
  PROVE  /\ value' = value
         /\ \/ Stays
            \/ \E t \in Task : /\ Others(t)
                               /\ Status(t) = "waitsAWhile" /\ Status(t)' = "gaveUp"
<1>1. PICK u \in Task : OneTask(u)
  BY WaitsKernel
<1>2. value' = value
  BY DEF KernelStep, semVars
<1>3. ASSUME NEW t \in Task, Kept(t) PROVE Status(t)' = Status(t)
  BY <1>3, StatusIs, SemFacts DEF Kept
<1>4. ASSUME NEW t \in Task, Aside(t) PROVE Status(t)' = Status(t)
  BY <1>4, StatusIs DEF Aside
<1>5. ASSUME NEW t \in Task, GivesUp(t)
      PROVE  Status(t) = "waitsAWhile" /\ Status(t)' = "gaveUp"
  BY <1>5, StatusIs DEF GivesUp
<1>6. QED
  BY <1>1, <1>2, <1>3, <1>4, <1>5 DEF OneTask, Others, Stays

Waiting == {"waitsForever", "waitsAWhile"}

LEMMA TakeStatus ==
  ASSUME SemClient, SemInv, NEW t \in Task, os_sem_take(t)
  PROVE  /\ Status(t) = "out"
         /\ \/ value > 0 /\ value' = value - 1 /\ Stays
            \/ value = 0 /\ value' = value /\ Others(t) /\ Status(t)' \in Waiting
<1>1. Runs(t) /\ todo[t] = <<>> /\ ~ Awaits(todo[t])
  BY AwaitNone DEF os_sem_take, Invokes
<1>2. Status(t) = "out"
  BY <1>1, TaskAlone, StatusIs, SemFacts
<1>3. TakesToken => value > 0 /\ value' = value - 1 /\ Stays
  BY DEF TakesToken, vars, Stays, Status
<1>4. ASSUME Begins(t)
      PROVE  value = 0 /\ value' = value /\ Others(t) /\ Status(t)' \in Waiting
  <2>1. todo' = [todo EXCEPT ![t] = <<"sched", "waitRet">>] /\ todo \in [Task -> Seq(Step)]
    BY <1>1, <1>4, TaskAlone DEF Begins
  <2>2. ASSUME NEW u \in Task \ {t} PROVE Status(u)' = Status(u)
    <3>1. todo'[u] = todo[u] /\ Untouched(k, k', u)
      BY <1>4, <2>1 DEF Begins, OnlyTask
    <3>2. QED
      BY <3>1, StatusIs, SemFacts DEF Untouched
  <2>3. Status(t)' \in Waiting
    BY <1>4, StatusIs DEF Begins, Waiting
  <2>4. QED
    BY <1>4, <2>2, <2>3 DEF Begins, Others
<1>5. QED
  BY <1>2, <1>3, <1>4, TakeEffect

LEMMA ReturnStatus ==
  ASSUME SemInv, NEW t \in Task, TakeReturn(t)
  PROVE  /\ value' = value /\ Others(t) /\ Status(t)' = "out"
         /\ Status(t) \in {"granted", "gaveUp"}
<1>1. /\ Runs(t) /\ todo[t] # <<>> /\ Head(todo[t]) = "waitRet"
      /\ OnlyTask(k, k', t) /\ k'.list = k.list /\ value' = value
      /\ todo' = [todo EXCEPT ![t] = Tail(todo[t])]
  BY ForgetEffect
<1>2. /\ t \notin ToSet(k.list[Sem]) /\ todo \in [Task -> Seq(Step)] /\ Shape(todo[t])
  BY <1>1, TaskAlone, SemFacts DEF SemInv, WaitInv, TaskWaits
<1>3. ~ Awaits(Tail(todo[t]))
  BY <1>1, <1>2, AwaitTail
<1>4. Awaits(todo[t])
  <2>1. 1 \in DOMAIN todo[t] /\ todo[t][1] = "waitRet"
    BY <1>1, <1>2
  <2>2. QED
    BY <2>1 DEF Awaits
<1>5. Status(t) \in {"granted", "gaveUp"} /\ Status(t)' = "out"
  <2>1. todo'[t] = Tail(todo[t])
    BY <1>1, <1>2
  <2>2. QED
    BY <1>1, <1>2, <1>3, <1>4, <2>1, StatusIs
<1>6. ASSUME NEW u \in Task \ {t} PROVE Status(u)' = Status(u)
  <2>1. todo'[u] = todo[u] /\ Untouched(k, k', u)
    BY <1>1, <1>2 DEF OnlyTask
  <2>2. QED
    BY <2>1, StatusIs, SemFacts DEF Untouched
<1>7. QED
  BY <1>1, <1>5, <1>6 DEF Others

LEMMA FreesStatus ==
  ASSUME SemInv, Frees,
         \/ todo' = todo
         \/ \E t \in Task : todo[t] = <<>> /\ todo' = [todo EXCEPT ![t] = <<"sched">>]
  PROVE  \/ value' = value + 1 /\ Stays /\ \A t \in Task : Status(t) \notin Waiting
         \/ /\ value' = value
            /\ \E t \in Task : Others(t) /\ Status(t) \in Waiting /\ Status(t)' = "granted"
<1>1. todo \in [Task -> Seq(Step)]
  BY TypeParts DEF SemInv, SemTypeInv
<1>2. \A u \in Task : Awaits(todo'[u]) <=> Awaits(todo[u])
  <2>1. \A u \in Task : todo'[u] = todo[u] \/ (todo[u] = <<>> /\ todo'[u] = <<"sched">>)
    BY <1>1
  <2>2. QED
    BY <2>1, AwaitNone
<1>3. ASSUME k' = k, k.list[Sem] = <<>>, value' = value + 1
      PROVE  value' = value + 1 /\ Stays /\ \A t \in Task : Status(t) \notin Waiting
  <2>1. ToSet(k.list[Sem]) = {}
    BY <1>3 DEF ToSet
  <2>2. \A t \in Task : Status(t) \notin Waiting
    BY <2>1, StatusIs DEF Waiting
  <2>3. Stays
    BY <1>2, <1>3, StatusIs DEF Stays
  <2>4. QED
    BY <1>3, <2>2, <2>3
<1>4. ASSUME NEW t \in Task, Woken(t)
      PROVE  value' = value /\ Others(t) /\ Status(t) \in Waiting /\ Status(t)' = "granted"
  <2>1. Awaits(todo[t]) /\ k.bstate[t] # "TIMEOUT" /\ k'.bstate = k.bstate
    BY <1>4 DEF Woken, SemInv, WaitInv, TaskWaits
  <2>2. Status(t) \in Waiting
    BY <1>4, StatusIs DEF Woken, Waiting
  <2>3. t \notin ToSet(k'.list[Sem])
    BY <1>4, SemFacts DEF Woken, OnlyTask, Lists, WaitersBlocked
  <2>4. Status(t)' = "granted"
    BY <1>2, <2>1, <2>3, StatusIs
  <2>5. ASSUME NEW u \in Task \ {t} PROVE Status(u)' = Status(u)
    <3>1. Untouched(k, k', u)
      BY <1>4 DEF Woken, OnlyTask
    <3>2. QED
      BY <1>2, <3>1, StatusIs, SemFacts DEF Untouched
  <2>6. QED
    BY <1>4, <2>2, <2>4, <2>5 DEF Woken, Others
<1>5. QED
  BY <1>3, <1>4 DEF Frees

\* Every step of the semaphore is a step of the counting semaphore or changes nothing
\* that the counting semaphore has.
LEMMA CountingStep ==
  ASSUME SemClient, SemInv, [SemNext]_allVars
  PROVE  [Counting!Next]_(Counting!vars)
<1> DEFINE st == [t \in Task |-> Status(t)]
<1>a. st' = [t \in Task |-> Status(t)']
  OBVIOUS
<1>1. Stays => st' = st
  BY <1>a DEF Stays
<1>2. \A t \in Task : Others(t) => st' = [st EXCEPT ![t] = Status(t)']
  BY <1>a DEF Others
<1>3. \A t \in Task : st[t] = Status(t)
  OBVIOUS
<1>s. Counting!vars = <<value, st>>
  BY DEF Counting!vars
<1>4. ASSUME value' = value, st' = st PROVE [Counting!Next]_(Counting!vars)
  BY <1>4 DEF Counting!vars
<1>5. ASSUME NEW t \in Task, Others(t), value' = value, Status(t) = "waitsAWhile",
             Status(t)' = "gaveUp"
      PROVE  Counting!Next
  <2>1. Counting!GiveUp(t)
    BY <1>2, <1>3, <1>5 DEF Counting!GiveUp
  <2>2. QED
    BY <2>1 DEF Counting!Next
<1>6. ASSUME NEW t \in Task, Others(t), value' = value, Status(t) \in {"granted", "gaveUp"},
             Status(t)' = "out"
      PROVE  Counting!Next
  <2>1. Counting!Return(t)
    BY <1>2, <1>3, <1>6 DEF Counting!Return
  <2>2. QED
    BY <2>1 DEF Counting!Next
<1>7. ASSUME NEW t \in Task, Status(t) = "out",
             \/ value > 0 /\ value' = value - 1 /\ Stays
             \/ value = 0 /\ value' = value /\ Others(t) /\ Status(t)' \in Waiting
      PROVE  Counting!Next
  <2>1. Counting!Take(t)
    BY <1>1, <1>2, <1>3, <1>7 DEF Counting!Take, Counting!Waits, Waiting
  <2>2. QED
    BY <2>1 DEF Counting!Next
<1>8. ASSUME \/ value' = value + 1 /\ Stays /\ \A t \in Task : Status(t) \notin Waiting
             \/ /\ value' = value
                /\ \E t \in Task : Others(t) /\ Status(t) \in Waiting /\ Status(t)' = "granted"
      PROVE  Counting!Next
  <2>1. Counting!Release
    BY <1>1, <1>2, <1>3, <1>8 DEF Counting!Release, Counting!Waits, Waiting
  <2>2. QED
    BY <2>1 DEF Counting!Next
<1>9. CASE UNCHANGED allVars
  BY <1>1, <1>4, <1>9 DEF allVars, semVars, vars, Stays, Status
<1>10. CASE KernelStep
  BY <1>1, <1>4, <1>5, <1>10, KernelStatus
<1>11. ASSUME NEW t \in Task, os_sem_take(t) PROVE Counting!Next
  BY <1>7, <1>11, TakeStatus
<1>12. ASSUME NEW t \in Task, TakeReturn(t) PROVE Counting!Next
  BY <1>6, <1>12, ReturnStatus
<1>13. ASSUME NEW t \in Task, os_sem_release(t) PROVE Counting!Next
  BY <1>8, <1>13, FreesWhen, FreesStatus
<1>14. CASE Publish
  BY <1>8, <1>14, FreesWhen, FreesStatus
<1>15. CASE IntPost
  BY <1>1, <1>4, <1>15 DEF IntPost, Stays, Status
<1>16. QED
  BY <1>9, <1>10, <1>11, <1>12, <1>13, <1>14, <1>15, SemSteps DEF SemStep

LEMMA CountingInit == SemInit => Counting!Init
<1> SUFFICES ASSUME SemInit PROVE Counting!Init
  OBVIOUS
<1>1. /\ value = InitValue /\ \A t \in Task : todo[t] = <<>>
      /\ \A l \in List : k.list[l] = <<>>
  BY DEF SemInit, os_sem_init, Init, KernelReset
<1>2. ToSet(k.list[Sem]) = {}
  BY <1>1, SemFacts DEF ToSet
<1>3. \A t \in Task : Status(t) = "out"
  BY <1>1, <1>2, StatusIs, AwaitNone
<1>4. QED
  BY <1>1, <1>3, SemFacts DEF Counting!Init

\* For an application that uses the rest of the kernel with care, os_semaphore.c with
\* the ready queue, the waiting lists, the tick list, posted releases and the three
\* kernel handlers below it implements a counting semaphore: no token is lost or made
\* up, and a task that waits gets one or, having set a limit, gives up.
THEOREM SemaphoreCounts == ASSUME SemClient PROVE SemSpec => IsCountingSemaphore
<1>1. SemSpec => []SemInv
  BY SemInvHolds
<1>2. SemInit => Counting!Init
  BY CountingInit
<1>3. SemInv /\ [SemNext]_allVars => [Counting!Next]_(Counting!vars)
  BY CountingStep
<1>4. SemSpec => Counting!Init /\ [][Counting!Next]_(Counting!vars)
  BY <1>1, <1>2, <1>3, PTL DEF SemSpec
<1>5. QED
  BY <1>4 DEF IsCountingSemaphore, Counting!Spec

\* os_sem_take with OS_NEVER_TIME_OUT never returns FAIL for what an earlier wait left
\* in the control block, when the application keeps such waits and delays apart.
THEOREM WaitsForToken == ASSUME SemClient PROVE SemSpec => NeverTimesOut
<1> DEFINE st == [t \in Task |-> Status(t)]
           NeverStep == \A t \in Task : Status(t) = "waitsForever" => Status(t)' # "gaveUp"
<1>1. ASSUME SemInv, [SemNext]_allVars PROVE NeverStep
  <2>1. [Counting!Next]_(Counting!vars)
    BY <1>1, CountingStep
  <2>2. st' = [t \in Task |-> Status(t)'] /\ \A t \in Task : st[t] = Status(t)
    OBVIOUS
  <2>3. CASE UNCHANGED Counting!vars
    BY <2>2, <2>3 DEF Counting!vars
  <2>4. ASSUME NEW t \in Task, Status(t) = "waitsForever", Status(t)' = "gaveUp"
        PROVE  \A u \in Task : ~ Counting!Take(u) /\ ~ Counting!GiveUp(u) /\ ~ Counting!Return(u)
    <3>1. st[t] = "waitsForever" /\ st'[t] = "gaveUp"
      BY <2>2, <2>4
    <3>2. QED
      BY <3>1 DEF Counting!Take, Counting!GiveUp, Counting!Return, Counting!Waits
  <2>5. ASSUME NEW t \in Task, Status(t) = "waitsForever", Status(t)' = "gaveUp"
        PROVE  ~ Counting!Release
    <3>1. st[t] = "waitsForever" /\ st'[t] = "gaveUp"
      BY <2>2, <2>5
    <3>2. QED
      BY <3>1 DEF Counting!Release
  <2>6. QED
    BY <2>1, <2>3, <2>4, <2>5 DEF Counting!Next
<1>2. ASSUME SemClient PROVE SemSpec => [][NeverStep]_allVars
  <2>1. SemSpec => []SemInv
    BY SemInvHolds
  <2>2. QED
    BY <1>1, <2>1, PTL DEF SemSpec
<1>3. QED
  BY <1>2 DEF NeverTimesOut
=============================================================================
