------------------------------ MODULE MutexProofs ------------------------------
(***************************************************************************)
(* The owner of a mutex is a task that has locked it, and the priority that*)
(* a mutex raises is always given back: for any number of tasks and        *)
(* priorities, whatever the application calls and whatever becomes of the  *)
(* kernel's lists meanwhile.  And no task that waits is forgotten, if the  *)
(* application keeps MutexClient.  The mutex raises a priority where it is *)
(* stored and leaves its owner in the old queue, so that the kernel's      *)
(* invariant does not hold; it does hold of the shadow, the kernel's memory*)
(* with every task at the priority it was given.                           *)
(***************************************************************************)
EXTENDS Mutex, KernelProofs

-----------------------------------------------------------------------------
(* No function of the kernel changes the priority of a task that exists, or*)
(* makes a task one that never existed.                                    *)

Keeps(k0, k1) ==
  /\ k1.prio = k0.prio
  /\ \A u \in Task : k0.state[u] # "NONE" => k1.state[u] # "NONE"

LEMMA KeepsTwice ==
  \A k0, k1, k2 : Keeps(k0, k1) /\ Keeps(k1, k2) => Keeps(k0, k2)
BY DEF Keeps

LEMMA KeepsAddTask ==
  ASSUME NEW k0 \in KernelState, NEW t \in Task
  PROVE  LET k1 == os_rq_add_task(k0, t) IN Keeps(k0, k1) /\ k1.state[t] # "NONE"
<1> DEFINE p == k0.prio[t]
           q == k0.list[p]
           q1 == IF k0.cur = NULL \/ p < k0.prio[k0.cur] THEN <<t>> \o q ELSE Append(q, t)
           m1 == IF q = <<>> THEN k0.map \cup {p} ELSE k0.map
           h1 == IF q = <<>> /\ p < k0.high THEN p ELSE k0.high
           f1 == k0.fault \/ SlotLinked(k0, t)
<1>1. os_rq_add_task(k0, t) =
        IF k0.state[t] = "READY" THEN k0
        ELSE [k0 EXCEPT !.map = m1, !.high = h1, !.list[p] = q1,
                        !.state[t] = "READY", !.fault = f1]
  BY DEF os_rq_add_task
<1> HIDE DEF p, q, q1, m1, h1, f1
<1>2. QED
  BY <1>1 DEF Keeps, KernelState

LEMMA KeepsUnlink ==
  ASSUME NEW k0 \in KernelState, NEW t
  PROVE  Keeps(k0, UnlinkSlot(k0, t)) /\ Keeps(k0, UnlinkTick(k0, t))
BY DEF Keeps, UnlinkSlot, UnlinkTick, KernelState

LEMMA KeepsDelTask ==
  ASSUME NEW k0 \in KernelState, NEW t \in Task
  PROVE  Keeps(k0, os_rq_del_task(k0, t))
<1> DEFINE n == NextNode(k0, t)
           k1 == LeaveSlice(k0, t)
           k2 == UnlinkSlot(k1, t)
           m == k0.map \ {k0.prio[t]}
           h == IF k2.high = k0.prio[t] THEN HighestReadyPriority(m) ELSE k2.high
<1>1. DOMAIN k1 = DOMAIN k0 /\ Keeps(k0, k1)
  <2>1. k1 = IF k0.prio[t] = k0.tsPrio /\ t = k0.tsNode THEN [k0 EXCEPT !.tsNode = n] ELSE k0
    BY DEF LeaveSlice
  <2> HIDE DEF n, k1
  <2>2. QED
    BY <2>1 DEF Keeps, KernelState
<1>2. DOMAIN k2 = DOMAIN k0 /\ Keeps(k1, k2)
  <2> HIDE DEF k1
  <2>1. QED
    BY <1>1 DEF Keeps, UnlinkSlot, KernelState
<1>3. os_rq_del_task(k0, t) =
        IF k2.list[k0.prio[t]] # <<>> THEN k2 ELSE [k2 EXCEPT !.map = m, !.high = h]
  BY DEF os_rq_del_task
<1> HIDE DEF k1, k2, m, h
<1>4. Keeps(k2, os_rq_del_task(k0, t))
  BY <1>2, <1>3 DEF Keeps, KernelState
<1>5. QED
  BY <1>1, <1>2, <1>4, KeepsTwice

LEMMA KeepsAddBlock ==
  ASSUME NEW k0 \in KernelState, NEW t \in Task, NEW obj \in Object
  PROVE  Keeps(k0, os_add_block_task(k0, t, obj))
<1> DEFINE k1 == os_rq_del_task(k0, t)
           q1 == BlockInsert(k0, k1.list[obj], t)
           f1 == k1.fault \/ SlotLinked(k1, t)
<1>1. k1 \in KernelState /\ Keeps(k0, k1)
  BY DelTaskType, KeepsDelTask
<1>2. os_add_block_task(k0, t, obj)
        = [k1 EXCEPT !.list[obj] = q1, !.state[t] = "BLOCKING", !.fault = f1]
  BY DEF os_add_block_task
<1> HIDE DEF k1, f1, q1
<1>3. QED
  BY <1>1, <1>2 DEF Keeps, KernelState

LEMMA KeepsEndWait ==
  ASSUME NEW k0 \in KernelState, NEW t \in Task, NEW why \in BlockState
  PROVE  Keeps(k0, EndWait(UnlinkTick(k0, t), t, why))
<1> DEFINE k1 == UnlinkTick(k0, t)
           k2 == [k1 EXCEPT !.bstate[t] = why]
           k3 == UnlinkSlot(k2, t)
<1>1. k1 \in KernelState /\ Keeps(k0, k1)
  BY UnlinkTickType, KeepsUnlink
<1>2. k2 \in KernelState /\ Keeps(k1, k2)
  <2> HIDE DEF k1
  <2>1. QED
    BY <1>1 DEF Keeps, KernelState
<1>3. k3 \in KernelState /\ Keeps(k2, k3)
  <2> HIDE DEF k2
  <2>1. QED
    BY <1>2, UnlinkSlotType, KeepsUnlink
<1>4. EndWait(k1, t, why) = os_rq_add_task(k3, t)
  BY DEF EndWait
<1> HIDE DEF k1, k2, k3
<1>5. Keeps(k3, os_rq_add_task(k3, t))
  BY <1>3, KeepsAddTask
<1>6. Keeps(k0, k2)
  BY <1>1, <1>2, KeepsTwice
<1>7. Keeps(k0, k3)
  BY <1>3, <1>6, KeepsTwice
<1>8. QED
  BY <1>4, <1>5, <1>7, KeepsTwice DEF k1

LEMMA KeepsWakeup ==
  ASSUME NEW k0 \in KernelState, NEW t \in Task
  PROVE  Keeps(k0, os_block_wakeup_task(k0, t))
<1>1. UnlinkSlot(k0, t) \in KernelState /\ Keeps(k0, UnlinkSlot(k0, t))
  BY UnlinkSlotType, KeepsUnlink
<1>2. Keeps(UnlinkSlot(k0, t), os_rq_add_task(UnlinkSlot(k0, t), t))
  BY <1>1, KeepsAddTask
<1>3. QED
  BY <1>1, <1>2, KeepsAddTask, KeepsTwice DEF os_block_wakeup_task

LEMMA KeepsWakeupFirst ==
  ASSUME NEW k0 \in KernelState, NEW obj \in Object
  PROVE  Keeps(k0, os_block_wakeup_first_task(k0, obj))
<1>1. ASSUME NEW t \in Task PROVE Keeps(k0, UnlinkTick(os_block_wakeup_task(k0, t), t))
  BY KeepsTwice, KeepsWakeup, KeepsUnlink, WakeupType
<1>2. k0.list[obj] # <<>> => Head(k0.list[obj]) \in Task
  BY ListNames DEF KernelState
<1>3. QED
  BY <1>1, <1>2 DEF os_block_wakeup_first_task, Keeps

LEMMA KeepsAddNode ==
  ASSUME NEW k0 \in KernelState, NEW t \in Task, NEW n \in Count
  PROVE  Keeps(k0, os_tick_add_node(k0, t, n))
<1> DEFINE i  == TickPosition(k0.ticks, n)
           b  == [k0 EXCEPT !.bstate[t] = "TICKING"]
           k1 == os_rq_del_task(b, t)
           f1 == k1.fault \/ TickLinked(k0, t)
           tk == IF i <= Len(k0.ticks) /\ Expiry(k0.ticks)[i] = n
                   THEN TickJoin(k0, i, t) ELSE TickSplit(k0, i, t, n)
<1>1. b \in KernelState /\ Keeps(k0, b)
  BY DEF Keeps, KernelState, BlockState
<1>2. k1 \in KernelState /\ Keeps(b, k1)
  <2> HIDE DEF b
  <2>1. QED
    BY <1>1, DelTaskType, KeepsDelTask
<1>3. \E f, s : os_tick_add_node(k0, t, n)
                  = [k1 EXCEPT !.state[t] = "BLOCKING", !.fault = f, !.ticks = s]
  BY DEF os_tick_add_node
<1> HIDE DEF b, k1
<1>4. Keeps(k1, os_tick_add_node(k0, t, n))
  BY <1>2, <1>3 DEF Keeps, KernelState
<1>5. QED
  BY <1>1, <1>2, <1>4, KeepsTwice

LEMMA KeepsAddTick ==
  ASSUME NEW k0 \in KernelState, NEW t \in Task, NEW n \in Count \cup {Never},
         NEW obj \in Object \cup {NULL}
  PROVE  Keeps(k0, os_add_tick_task(k0, t, n, obj))
<1> DEFINE k1 == IF n = Never THEN k0 ELSE os_tick_add_node(k0, t, n)
<1>1. k1 \in KernelState /\ Keeps(k0, k1)
  BY AddNodeType, KeepsAddNode DEF Keeps
<1>2. obj # NULL => Keeps(k1, os_add_block_task(k1, t, obj))
  <2> HIDE DEF k1
  <2>1. QED
    BY <1>1, KeepsAddBlock
<1>3. os_add_tick_task(k0, t, n, obj) =
        IF k0.state[t] = "BLOCKING" THEN k0
        ELSE IF obj = NULL THEN k1 ELSE os_add_block_task(k1, t, obj)
  BY DEF os_add_tick_task
<1> HIDE DEF k1
<1>4. QED
  BY <1>1, <1>2, <1>3, KeepsTwice DEF Keeps

LEMMA KeepsChoose ==
  ASSUME NEW k0 \in KernelState
  PROVE  Keeps(k0, os_rq_get_highest_prio_task(k0))
BY DEF os_rq_get_highest_prio_task, Keeps, KernelState

LEMMA KeepsSched ==
  ASSUME NEW k0 \in KernelState, NEW by \in {"thread", "sw"}
  PROVE  Keeps(k0, os_sched(k0, by))
<1> DEFINE k1 == ChooseReady(k0, by)
           s == [t \in Task |-> IF t = k1.nxt THEN "RUNNING"
                   ELSE IF t = k1.cur /\ k1.state[t] = "RUNNING" THEN "READY" ELSE k1.state[t]]
<1>1. k1 \in KernelState /\ Keeps(k0, k1)
  <2>1. k1 \in KernelState
    BY ChooseReadyType
  <2>2. k1.prio = k0.prio /\ k1.state = k0.state
    BY DEF ChooseReady, os_rq_get_highest_prio_task, KernelState
  <2>3. QED
    BY <2>1, <2>2 DEF Keeps
<1>2. os_sched(k0, by) =
        IF k1.fault \/ k1.nxt = k1.cur THEN k1 ELSE [k1 EXCEPT !.state = s]
  BY DEF os_sched
<1>3. \A u \in Task : k1.state[u] # "NONE" => s[u] # "NONE"
  OBVIOUS
<1> HIDE DEF k1, s
<1>4. Keeps(k1, os_sched(k0, by))
  BY <1>1, <1>2, <1>3 DEF Keeps, KernelState
<1>5. QED
  BY <1>1, <1>4, KeepsTwice

LEMMA KeepsMissed ==
  ASSUME NEW k0 \in KernelState, NEW c
  PROVE  Keeps(k0, TakeMissed(k0, c))
BY DEF TakeMissed, Keeps, KernelState

LEMMA KeepsCountTick ==
  ASSUME NEW k0 \in KernelState
  PROVE  Keeps(k0, CountTick(k0))
BY KeepsMissed DEF CountTick, Keeps

LEMMA KeepsDropNode ==
  ASSUME NEW k0 \in KernelState, k0.ticks # <<>>
  PROVE  Keeps(k0, DropNode(k0))
<1> DEFINE tail == Tail(k0.ticks)
           k1 == [k0 EXCEPT !.ticks = tail]
<1>0. k0.ticks \in Seq(TickNode)
  BY DEF KernelState
<1>1. tail \in Seq(TickNode)
  BY <1>0
<1>2. k1 \in KernelState /\ Keeps(k0, k1)
  <2> HIDE DEF tail
  <2>1. QED
    BY <1>1 DEF Keeps, KernelState
<1>3. DropNode(k0) = IF k1.ticks = <<>> THEN k1 ELSE TakeMissed(k1, k1.ticks[1].cnt)
  BY DEF DropNode
<1> HIDE DEF k1
<1>4. QED
  BY <1>2, <1>3, KeepsMissed, KeepsTwice

\* os_block_wakeup_all_task wakes the tasks one after the other: there is a sequence
\* of memories, each with one task more awake, and the last is the result.
LEMMA WokenExist ==
  ASSUME NEW n \in Nat, NEW q \in [1..n -> Task], NEW k0 \in KernelState
  PROVE  \E w \in [0..n -> KernelState] :
           \A i \in 0..n : w[i] = IF i = 0 THEN k0 ELSE os_block_wakeup_task(w[i - 1], q[i])
<1> DEFINE Upto(w, m) == \A i \in 0..m : w[i] = IF i = 0 THEN k0
                                                ELSE os_block_wakeup_task(w[i - 1], q[i])
           Bad == {m \in 0..n : ~ \E w \in [0..m -> KernelState] : Upto(w, m)}
<1>1. Bad = {}
  <2> SUFFICES ASSUME Bad # {} PROVE FALSE
    OBVIOUS
  <2>1. PICK m \in Bad : \A y \in Bad : m <= y
    <3>1. Bad \subseteq Nat
      OBVIOUS
    <3> HIDE DEF Bad
    <3>2. QED
      BY <3>1, MinOfNats
  <2>2. CASE m = 0
    <3> DEFINE w == [i \in 0..0 |-> k0]
    <3>1. w \in [0..0 -> KernelState] /\ Upto(w, 0)
      OBVIOUS
    <3> HIDE DEF w, Upto
    <3>2. QED
      BY <2>1, <2>2, <3>1
  <2>3. CASE m # 0
    <3>0. Bad \subseteq 0..n
      OBVIOUS
    <3>1. m \in 1..n /\ m - 1 \in 0..n /\ m - 1 \notin Bad
      <4> HIDE DEF Bad
      <4>1. QED
        BY <2>1, <2>3, <3>0
    <3>2. PICK w \in [0..(m - 1) -> KernelState] : Upto(w, m - 1)
      BY <3>1
    <3> DEFINE top == os_block_wakeup_task(w[m - 1], q[m])
               g == [i \in 0..m |-> IF i = m THEN top ELSE w[i]]
    <3>3. top \in KernelState
      <4>1. w[m - 1] \in KernelState /\ q[m] \in Task
        BY <3>1
      <4>2. QED
        BY <4>1, WakeupType
    <3>4. g \in [0..m -> KernelState]
      <4> HIDE DEF top
      <4>1. QED
        BY <3>1, <3>3
    <3>5. Upto(g, m)
      <4> SUFFICES ASSUME NEW i \in 0..m
                   PROVE  g[i] = IF i = 0 THEN k0 ELSE os_block_wakeup_task(g[i - 1], q[i])
        OBVIOUS
      <4>1. CASE i = m
        BY <2>3, <3>1, <4>1
      <4>2. CASE i # m
        <5>1. /\ i \in 0..(m - 1) /\ g[i] = w[i]
              /\ i # 0 => i - 1 \in 0..m /\ i - 1 # m /\ g[i - 1] = w[i - 1]
          BY <3>1, <4>2
        <5>2. w[i] = IF i = 0 THEN k0 ELSE os_block_wakeup_task(w[i - 1], q[i])
          BY <3>2, <5>1
        <5>3. QED
          BY <5>1, <5>2
      <4>3. QED
        BY <4>1, <4>2
    <3> HIDE DEF g, Upto
    <3>6. QED
      BY <2>1, <3>4, <3>5
  <2>4. QED
    BY <2>2, <2>3
<1>2. n \notin Bad
  BY <1>1
<1>3. QED
  BY <1>2

LEMMA KeepsWakeupAll ==
  ASSUME NEW k0 \in KernelState, NEW obj \in Object
  PROVE  LET k1 == os_block_wakeup_all_task(k0, obj)
         IN k1 \in KernelState /\ Keeps(k0, k1)
<1> DEFINE q == k0.list[obj]
           n == Len(q)
           Rec(w, i) == IF i = 0 THEN k0 ELSE os_block_wakeup_task(w[i - 1], q[i])
           c == CHOOSE w : w = [i \in 0..n |-> Rec(w, i)]
<1>1. q \in Seq(Task) /\ n \in Nat /\ q \in [1..n -> Task]
  <2>1. q \in Seq(Task)
    BY ListNames DEF KernelState
  <2> HIDE DEF q
  <2>2. QED
    BY <2>1
<1>2. PICK w \in [0..n -> KernelState] :
        \A i \in 0..n : w[i] = IF i = 0 THEN k0 ELSE os_block_wakeup_task(w[i - 1], q[i])
  <2> HIDE DEF q, n
  <2>1. QED
    BY ZenonT(30), <1>1, WokenExist
<1>3. w = [i \in 0..n |-> Rec(w, i)]
  BY <1>2
<1>4. c = [i \in 0..n |-> Rec(c, i)]
  BY <1>3
<1>5. os_block_wakeup_all_task(k0, obj) = c[n]
  BY DEF os_block_wakeup_all_task
<1> HIDE DEF c
<1> DEFINE Odd == {m \in 0..n : ~ (c[m] \in KernelState /\ Keeps(k0, c[m]))}
<1>6. Odd = {}
  <2> SUFFICES ASSUME Odd # {} PROVE FALSE
    OBVIOUS
  <2>1. PICK m \in Odd : \A y \in Odd : m <= y
    <3>1. Odd \subseteq Nat
      OBVIOUS
    <3> HIDE DEF Odd
    <3>2. QED
      BY <3>1, MinOfNats
  <2>2. m \in 0..n /\ c[m] = Rec(c, m)
    BY <1>4, <2>1
  <2>3. CASE m = 0
    <3>1. c[m] = k0
      BY <2>2, <2>3
    <3>2. QED
      BY <2>1, <3>1 DEF Keeps
  <2>4. CASE m # 0
    <3>1. m - 1 \in 0..n /\ m - 1 \notin Odd /\ m \in 1..n
      BY <1>1, <2>1, <2>4
    <3>2. c[m - 1] \in KernelState /\ Keeps(k0, c[m - 1]) /\ q[m] \in Task
      BY <1>1, <3>1
    <3>3. c[m] = os_block_wakeup_task(c[m - 1], q[m])
      BY <2>2, <2>4
    <3>4. c[m] \in KernelState /\ Keeps(k0, c[m])
      BY <3>2, <3>3, WakeupType, KeepsWakeup, KeepsTwice
    <3>5. QED
      BY <2>1, <3>4
  <2>5. QED
    BY <2>3, <2>4
<1>7. n \in 0..n
  BY <1>1
<1>8. QED
  BY <1>5, <1>6, <1>7

-----------------------------------------------------------------------------
(* The steps of the kernel.                                                *)

\* Task u is created; of the others everything is kept.
Creates(u) ==
  /\ u \notin alive /\ (~ running \/ k.state[u] = "NONE") /\ alive' = alive \cup {u}
  /\ k'.state[u] # "NONE"
  /\ \A v \in Task \ {u} :
       k'.prio[v] = k.prio[v] /\ (k.state[v] # "NONE" => k'.state[v] # "NONE")

KeepsOrCreates == \/ Keeps(k, k') /\ alive' \subseteq alive
                  \/ \E u \in Task : Creates(u)

\* A call has something left to do only if a task that is alive has begun it.
CallsOfLive == \A t \in Task : todo'[t] # <<>> => todo[t] # <<>> \/ t \in alive

LEMMA ThenCalls ==
  ASSUME TypeInv, NEW t \in Task, t \in alive \/ todo[t] # <<>>, NEW k1, NEW rest, Then(t, k1, rest)
  PROVE  CallsOfLive
BY TypeParts DEF Then, CallsOfLive

\* os_task_create, in the critical section and at the end of booting.
LEMMA KeepsCreate ==
  ASSUME NEW k0 \in KernelState, NEW u \in Task, NEW p \in Prio
  PROVE  LET k1 == os_task_create(k0, u, p)
         IN /\ k1 \in KernelState /\ k1.state[u] # "NONE"
            /\ \A v \in Task \ {u} :
                 k1.prio[v] = k0.prio[v] /\ (k0.state[v] # "NONE" => k1.state[v] # "NONE")
<1> DEFINE ka == [k0 EXCEPT !.prio[u] = p, !.state[u] = "NEW", !.slice[u] = 0]
           k1 == os_rq_add_task(ka, u)
<1>1. /\ ka \in KernelState
      /\ \A v \in Task \ {u} : ka.prio[v] = k0.prio[v] /\ ka.state[v] = k0.state[v]
  BY ListNames DEF KernelState, TaskState
<1>2. os_task_create(k0, u, p) = k1
  BY DEF os_task_create
<1>3. k1 \in KernelState /\ Keeps(ka, k1) /\ k1.state[u] # "NONE"
  <2> HIDE DEF ka
  <2>1. QED
    BY <1>1, AddTaskType, KeepsAddTask
<1> HIDE DEF ka, k1
<1>4. QED
  BY <1>1, <1>2, <1>3 DEF Keeps

LEMMA CallKeeps ==
  ASSUME TypeInv, NEW t \in Task, Call(t)
  PROVE  KeepsOrCreates /\ CallsOfLive
<1>1. /\ k \in KernelState /\ alive \subseteq Task /\ t \in alive /\ Keeps(k, k)
      /\ todo \in [Task -> Seq(Step)]
  BY TypeParts DEF Call, Create, Exit, os_task_delay_ms, os_task_yield, os_task_suspend,
     os_task_resume, WakeTick, os_sched_lock, os_sched_unlock, Invokes, Keeps
<1>2. ASSUME NEW k1, NEW rest, Then(t, k1, rest) PROVE k' = k1 /\ CallsOfLive
  BY <1>1, <1>2, ThenCalls DEF Then
<1>3. CASE Create(t)
  <2> PICK u \in UserTask \ alive, p \in UserPrio :
        /\ k.state[u] = "NONE" /\ alive' = alive \cup {u}
        /\ Then(t, os_task_create(k, u, p), <<"sched">>)
    BY <1>3 DEF Create
  <2>1. u \in Task /\ p \in Prio
    BY ClientFacts
  <2>2. Creates(u)
    BY <1>1, <1>2, <2>1, KeepsCreate DEF Creates
  <2>3. QED
    BY <1>2, <2>1, <2>2 DEF KeepsOrCreates
<1>4. CASE Exit(t)
  BY <1>1, <1>2, <1>4, KeepsDelTask DEF Exit, KeepsOrCreates
<1>5. CASE os_task_delay_ms(t)
  <2> PICK n \in Delays : Then(t, os_add_tick_task(k, t, n, NULL), <<"sched", "delayRet">>)
    BY <1>5 DEF os_task_delay_ms
  <2>1. Keeps(k, os_add_tick_task(k, t, n, NULL))
    BY <1>1, ClientFacts, KeepsAddTick
  <2>2. QED
    BY <1>2, <1>5, <2>1 DEF os_task_delay_ms, KeepsOrCreates
<1>6. CASE os_task_yield(t)
  <2> DEFINE k1 == [k EXCEPT !.slice[t] = 0]
  <2>1. Keeps(k, k1)
    BY <1>1 DEF Keeps, KernelState
  <2>2. Then(t, k1, <<"sched">>) /\ UNCHANGED alive
    BY <1>6 DEF os_task_yield
  <2> HIDE DEF k1
  <2>3. QED
    BY <1>2, <2>1, <2>2 DEF KeepsOrCreates
<1>7. CASE os_task_suspend(t)
  <2> PICK u \in Suspendable :
        IF k.state[u] = "BLOCKING" THEN LeakCritical
        ELSE Then(t, os_add_block_task(k, u, SysBlock), <<"sched">>) /\ UNCHANGED alive
    BY <1>7 DEF os_task_suspend
  <2>1. Keeps(k, os_add_block_task(k, u, SysBlock))
    BY <1>1, KeepsAddBlock, ListNames DEF Suspendable
  <2>2. LeakCritical => KeepsOrCreates /\ CallsOfLive
    BY <1>1 DEF LeakCritical, KeepsOrCreates, CallsOfLive
  <2>3. QED
    BY <1>2, <2>1, <2>2 DEF KeepsOrCreates
<1>8. CASE os_task_resume(t)
  <2> PICK u \in Resumable :
        IF k.state[u] # "BLOCKING" THEN LeakCritical
        ELSE Then(t, os_rq_add_task(UnlinkSlot(k, u), u), <<"sched">>) /\ UNCHANGED alive
    BY <1>8 DEF os_task_resume
  <2>1. u \in Task
    BY <1>1 DEF Resumable
  <2>2. UnlinkSlot(k, u) \in KernelState /\ Keeps(k, UnlinkSlot(k, u))
    BY <1>1, <2>1, UnlinkSlotType, KeepsUnlink
  <2>3. Keeps(k, os_rq_add_task(UnlinkSlot(k, u), u))
    BY <2>1, <2>2, KeepsAddTask, KeepsTwice
  <2>4. LeakCritical => KeepsOrCreates /\ CallsOfLive
    BY <1>1 DEF LeakCritical, KeepsOrCreates, CallsOfLive
  <2>5. QED
    BY <1>2, <2>3, <2>4 DEF KeepsOrCreates
<1>9. CASE WakeTick(t)
  <2> PICK u \in alive : Then(t, os_wakeup_tick_task(k, u), <<>>)
    BY <1>9 DEF WakeTick
  <2>1. Keeps(k, os_wakeup_tick_task(k, u))
    BY <1>1, KeepsEndWait DEF os_wakeup_tick_task, BlockState
  <2>2. QED
    BY <1>2, <1>9, <2>1 DEF WakeTick, KeepsOrCreates
<1> DEFINE nested(n, h) == [k EXCEPT !.lock = n, !.locker = h]
<1>10. \A n, h : Keeps(k, nested(n, h))
  BY <1>1 DEF Keeps, KernelState
<1>11. CASE os_sched_lock(t)
  <2>1. Then(t, nested(k.lock + 1, IF k.lock = 0 THEN t ELSE k.locker), <<>>) /\ UNCHANGED alive
    BY <1>11 DEF os_sched_lock
  <2> HIDE DEF nested
  <2>2. QED
    BY <1>2, <1>10, <2>1 DEF KeepsOrCreates
<1>12. CASE os_sched_unlock(t)
  <2>1. /\ Then(t, nested(k.lock - 1, IF k.lock = 1 THEN NULL ELSE k.locker), <<"sched">>)
        /\ UNCHANGED alive
    BY <1>12 DEF os_sched_unlock
  <2> HIDE DEF nested
  <2>2. QED
    BY <1>2, <1>10, <2>1 DEF KeepsOrCreates
<1>13. QED
  BY <1>3, <1>4, <1>5, <1>6, <1>7, <1>8, <1>9, <1>11, <1>12 DEF Call

LEMMA TaskStepKeeps ==
  ASSUME TypeInv, NEW t \in Task, TaskStep(t)
  PROVE  Keeps(k, k') /\ UNCHANGED alive /\ CallsOfLive
<1>1. k \in KernelState /\ todo \in [Task -> Seq(Step)] /\ Keeps(k, k)
  BY TypeParts DEF Keeps
<1>2. todo[t] # <<>>
  BY DEF TaskStep, SchedStep, os_ctx_sw, DelayReturn, RunsOff, Continues
<1>3. CASE SchedStep(t)
  <2>1. /\ k' = os_sched(k, "thread") /\ "thread" \in {"thread", "sw"}
        /\ CallsOfLive /\ UNCHANGED alive
    BY <1>2, <1>3, ThenCalls DEF SchedStep, Then
  <2>2. QED
    BY <1>1, <2>1, KeepsSched
<1>4. CASE os_ctx_sw(t)
  BY <1>1, <1>2, <1>4 DEF os_ctx_sw, CallsOfLive
<1>5. CASE DelayReturn(t)
  <2> DEFINE b == IF k.bstate[t] = "EARLY_WAKEUP" THEN "NONE" ELSE k.bstate[t]
  <2>1. k' = [k EXCEPT !.bstate[t] = b] /\ CallsOfLive /\ UNCHANGED alive
    BY <1>2, <1>5, ThenCalls DEF DelayReturn, Then
  <2> HIDE DEF b
  <2>2. QED
    BY <1>1, <2>1 DEF Keeps, KernelState
<1>6. CASE RunsOff(t)
  <2>1. k' = [k EXCEPT !.fault = TRUE] /\ CallsOfLive /\ UNCHANGED alive
    BY <1>2, <1>6, ThenCalls DEF RunsOff, Then
  <2>2. QED
    BY <1>1, <2>1 DEF Keeps, KernelState
<1>7. QED
  BY <1>3, <1>4, <1>5, <1>6 DEF TaskStep

LEMMA HandlerKeeps ==
  ASSUME TypeInv, TickHandler \/ MissTick \/ SwEnter \/ SwLeave
  PROVE  Keeps(k, k') /\ UNCHANGED <<alive, todo, running>>
<1>0. UNCHANGED <<alive, todo, running>>
  BY DEF TickHandler, SysTick, ExpireTask, ExpireNext, ExpireLast, MissTick, SwEnter, SwLeave
<1>1. k \in KernelState /\ "thread" \in {"thread", "sw"} /\ "sw" \in {"thread", "sw"}
  BY TypeParts
<1>2. CASE SysTick
  <2> DEFINE k0 == UseSlice(k)
             k1 == os_sched_timeslice_poll(k)
  <2>1. k1 \in KernelState /\ k.cur \in Task
    BY <1>2, TypeParts, PollType DEF SysTick, TickTaken
  <2>2. k0 \in KernelState /\ Keeps(k, k0)
    <3>1. k0 \in KernelState
      BY <1>1, <2>1, UseSliceType
    <3>2. Keeps(k, k0)
      BY <1>1 DEF UseSlice, Keeps, KernelState
    <3>3. QED
      BY <3>1, <3>2
  <2>3. Keeps(k, os_sched(k0, "thread"))
    <3> HIDE DEF k0
    <3>1. QED
      BY <1>1, <2>2, KeepsSched, KeepsTwice
  <2>4. Keeps(k, k1)
    BY <2>2, <2>3 DEF os_sched_timeslice_poll
  <2>5. k' = CountTick(k1)
    BY <1>2 DEF SysTick
  <2> HIDE DEF k1
  <2>6. QED
    BY <1>0, <2>1, <2>4, <2>5, KeepsCountTick, KeepsTwice
<1>3. CASE ExpireTask
  <2> DEFINE t == Head(k.ticks[1].tasks)
  <2>1. t \in Task
    <3>1. k.ticks \in Seq(TickNode) /\ k.ticks # <<>> /\ k.ticks[1].tasks # <<>>
      BY <1>1, <1>3 DEF ExpireTask, ExpiryDue, TypeInv, KernelState
    <3>2. k.ticks[1] \in TickNode
      BY <3>1
    <3>3. k.ticks[1].tasks \in Seq(Task)
      BY <3>2 DEF TickNode
    <3>4. QED
      BY <3>1, <3>3
  <2>2. k' = EndWait(UnlinkTick(k, t), t, "TIMEOUT") /\ "TIMEOUT" \in BlockState
    BY <1>3 DEF ExpireTask, ExpireFirst, BlockState
  <2> HIDE DEF t
  <2>3. QED
    BY <1>0, <1>1, <2>1, <2>2, KeepsEndWait
<1>4. CASE ExpireNext \/ ExpireLast
  <2>1. k.ticks # <<>>
    BY <1>4 DEF ExpireNext, ExpireLast, ExpiryDue, TypeInv
  <2> DEFINE d == DropNode(k)
             e == [d EXCEPT !.tickMissed = 0]
  <2>2. d \in KernelState /\ Keeps(k, d)
    BY <1>1, <2>1, DropNodeType, KeepsDropNode
  <2>3. AfterExpiry(k) = os_sched(e, "thread")
    BY DEF AfterExpiry
  <2>4. ExpireNext => k' = d
    BY DEF ExpireNext
  <2> HIDE DEF d
  <2>5. e \in KernelState /\ Keeps(d, e)
    BY <2>2, ListNames DEF Keeps, KernelState
  <2> HIDE DEF e
  <2>6. Keeps(k, os_sched(e, "thread"))
    BY <1>1, <2>2, <2>5, KeepsSched, KeepsTwice
  <2>7. QED
    BY <1>0, <1>4, <2>2, <2>3, <2>4, <2>6 DEF ExpireLast
<1>5. CASE MissTick
  <2> DEFINE n == k.tickMissed + 1
             s == k.sliceMissed + 1
  <2>1. k' = [k EXCEPT !.tickMissed = n, !.sliceMissed = s]
    BY <1>5 DEF MissTick
  <2> HIDE DEF n, s
  <2>2. QED
    BY <1>0, <1>1, <2>1 DEF Keeps, KernelState
<1>6. CASE SwEnter
  BY <1>0, <1>6 DEF SwEnter, Keeps
<1>7. CASE SwLeave
  <2> DEFINE k1 == IF k.cur = NULL THEN [k EXCEPT !.cur = k.nxt] ELSE k
             k2 == IF k1.cur = k1.nxt THEN os_sched(k1, "sw") ELSE k1
  <2>1. k1 \in KernelState /\ Keeps(k, k1)
    BY <1>1 DEF Keeps, KernelState
  <2>2. k2 \in KernelState /\ Keeps(k1, k2)
    <3> HIDE DEF k1
    <3>1. os_sched(k1, "sw") \in KernelState /\ Keeps(k1, os_sched(k1, "sw")) /\ Keeps(k1, k1)
      BY <1>1, <2>1, SchedType, KeepsSched DEF Keeps
    <3>2. QED
      BY <2>1, <3>1
  <2>3. SwitchTask(k) = IF k2.fault THEN k2 ELSE [k2 EXCEPT !.cur = k2.nxt]
    BY DEF SwitchTask
  <2>4. Keeps(k, k2)
    BY <2>1, <2>2, KeepsTwice
  <2> HIDE DEF k1, k2
  <2>5. Keeps(k2, SwitchTask(k))
    BY <2>2, <2>3 DEF Keeps, KernelState
  <2>6. QED
    BY <1>0, <1>7, <2>4, <2>5, KeepsTwice DEF SwLeave
<1>8. QED
  BY <1>2, <1>3, <1>4, <1>5, <1>6, <1>7 DEF TickHandler

LEMMA BootKeeps ==
  ASSUME TypeInv, Boot
  PROVE  KeepsOrCreates /\ UNCHANGED todo /\ ~ running
<1>1. k \in KernelState /\ "thread" \in {"thread", "sw"}
  BY TypeParts
<1>2. ASSUME NEW t \in Task, NEW p \in Prio, BootCreate(t, p)
      PROVE  KeepsOrCreates /\ UNCHANGED todo /\ ~ running
  <2> DEFINE k1 == os_task_create(k, t, p)
  <2>1. /\ k1 \in KernelState /\ k1.state[t] # "NONE"
        /\ \A v \in Task \ {t} :
             k1.prio[v] = k.prio[v] /\ (k.state[v] # "NONE" => k1.state[v] # "NONE")
    BY <1>1, KeepsCreate
  <2>2. /\ k' = os_sched(k1, "thread") /\ alive' = alive \cup {t} /\ t \notin alive
        /\ ~ running /\ UNCHANGED todo
    BY <1>2 DEF BootCreate
  <2> HIDE DEF k1
  <2>3. Keeps(k1, k')
    BY <1>1, <2>1, <2>2, KeepsSched
  <2>4. Creates(t)
    BY <2>1, <2>2, <2>3 DEF Creates, Keeps
  <2>5. QED
    BY <2>2, <2>4 DEF KeepsOrCreates
<1>3. CASE os_sys_start
  BY <1>1, <1>3, KeepsChoose DEF os_sys_start, KeepsOrCreates
<1>4. QED
  BY <1>2, <1>3, ClientFacts, ListNames DEF Boot

\* Every step of the kernel.
LEMMA NextKeeps ==
  ASSUME TypeInv, Next
  PROVE  KeepsOrCreates /\ CallsOfLive /\ (running => running')
<1>1. CASE Boot
  BY <1>1, BootKeeps DEF CallsOfLive
<1>2. ASSUME NEW t \in Task, Call(t) PROVE KeepsOrCreates /\ CallsOfLive /\ (running => running')
  <2>1. running' = running
    BY <1>2 DEF Call, Create, Exit, os_task_delay_ms, os_task_yield, os_task_suspend,
       os_task_resume, WakeTick, os_sched_lock, os_sched_unlock, Then, LeakCritical
  <2>2. QED
    BY <1>2, <2>1, CallKeeps
<1>3. ASSUME NEW t \in Task, TaskStep(t)
      PROVE  KeepsOrCreates /\ CallsOfLive /\ (running => running')
  <2>1. running' = running
    BY <1>3 DEF TaskStep, SchedStep, os_ctx_sw, DelayReturn, RunsOff, Then
  <2>2. QED
    BY <1>3, <2>1, TaskStepKeeps DEF KeepsOrCreates
<1>4. CASE TickHandler \/ MissTick \/ SwEnter \/ SwLeave
  BY <1>4, HandlerKeeps DEF KeepsOrCreates, CallsOfLive
<1>5. QED
  BY <1>1, <1>2, <1>3, <1>4 DEF Next

-----------------------------------------------------------------------------
(* The mutex.                                                              *)

MutexTypeInv ==
  /\ TypeInv
  /\ owner \in Task \cup {NULL} /\ ownerPrio \in Prio
  /\ nesting \in 0..MaxRecursive
  /\ holds \in [Task -> Nat] /\ given \in [Task -> Prio]

\* The owner has locked the mutex, as often as it will have to unlock it.
OwnerInv ==
  owner # NULL => /\ nesting >= 1 /\ holds[owner] >= 1
                  /\ Recursive => nesting <= holds[owner]

\* Whoever is not the owner has the priority it was given, and _owner_prio is the
\* one of the owner.  That it stays so, nobody may create the owner a second time:
\* its control block is in use, as that of every task that is in a call.
PrioInv ==
  /\ \A t \in Task \ {owner} : k.prio[t] = given[t]
  /\ owner # NULL => ownerPrio = given[owner] /\ k.state[owner] # "NONE"
  /\ \A t \in Task : t \in alive \/ todo[t] # <<>> => k.state[t] # "NONE"
  /\ ~ running => owner = NULL

MutexInv == MutexTypeInv /\ OwnerInv /\ PrioInv

LEMMA MutexFacts == /\ Mutex \in Object /\ Mutex \in List /\ MaxRecursive >= 1
                    /\ MaxRecursive \in Nat /\ Recursive \in BOOLEAN
                    /\ \A n \in LockTimeOuts : n \in Count \cup {Never}
BY MutexAssumption, ListNames

LEMMA MutexParts == ASSUME MutexTypeInv
                    PROVE  /\ TypeInv /\ k \in KernelState /\ todo \in [Task -> Seq(Step)]
                           /\ alive \subseteq Task /\ owner \in Task \cup {NULL}
                           /\ ownerPrio \in Prio /\ nesting \in 0..MaxRecursive
                           /\ holds \in [Task -> Nat] /\ given \in [Task -> Prio]
BY TypeParts DEF MutexTypeInv

LEMMA RestoredFacts ==
  ASSUME MutexTypeInv, NEW k0 \in KernelState
  PROVE  /\ Restored(k0) \in KernelState /\ Restored(k0).state = k0.state
         /\ \A u \in Task : Restored(k0).prio[u] = IF u = owner THEN ownerPrio ELSE k0.prio[u]
         /\ \A u \in Task : Restored(k0).prio[u] \in Prio
<1>1. CASE owner = NULL
  <2>1. Restored(k0) = k0 /\ \A u \in Task : u # owner
    BY <1>1, ListNames DEF Restored
  <2>2. QED
    BY <2>1 DEF KernelState
<1>2. CASE owner \in Task
  <2>1. Restored(k0) = [k0 EXCEPT !.prio[owner] = ownerPrio]
    BY <1>2, ListNames DEF Restored
  <2>2. QED
    BY ZenonT(30), <1>2, <2>1, MutexParts DEF KernelState
<1>3. QED
  BY <1>1, <1>2, MutexParts

LEMMA RaiseFacts ==
  ASSUME MutexTypeInv, owner \in Task, NEW k0 \in KernelState, NEW t \in Task
  PROVE  /\ RaiseOwner(k0, t) \in KernelState /\ RaiseOwner(k0, t).state = k0.state
         /\ \A u \in Task \ {owner} : RaiseOwner(k0, t).prio[u] = k0.prio[u]
<1>1. k0.prio[t] \in Prio
  BY DEF KernelState
<1> DEFINE p == k0.prio[t]
           k1 == [k0 EXCEPT !.prio[owner] = p]
<1>2. RaiseOwner(k0, t) = IF ownerPrio > p THEN k1 ELSE k0
  BY DEF RaiseOwner
<1>3. p \in Prio
  BY <1>1
<1> HIDE DEF p
<1>4. /\ k1 \in KernelState /\ k1.state = k0.state
      /\ \A u \in Task \ {owner} : k1.prio[u] = k0.prio[u]
  BY <1>3 DEF KernelState
<1> HIDE DEF k1
<1>5. QED
  BY <1>2, <1>4

\* A task in the middle of a call of the mutex: what all of its steps leave alone.
InCall(t) ==
  /\ running /\ irq = "none" /\ (t \in alive \/ todo[t] # <<>>)
  /\ UNCHANGED <<running, swEnabled, swPending, irq, alive, given>>

\* The mutex gets the owner t: os_mutex_lock at once or after a wait.
LEMMA ChangeKeeps ==
  ASSUME MutexInv, NEW t \in Task, InCall(t), CallsOfLive, todo' \in [Task -> Seq(Step)],
         NEW k1 \in KernelState, k1.prio = k.prio, k1.state = k.state,
         OwnerChange(k1, t), Locked(t)
  PROVE  MutexInv'
<1>1. /\ k' = Restored(k1) /\ owner' = t /\ ownerPrio' = k'.prio[t] /\ nesting' = 1
      /\ holds' = [holds EXCEPT ![t] = @ + 1]
  BY DEF OwnerChange, Locked
<1>2. /\ k' \in KernelState /\ k'.state = k.state
      /\ \A u \in Task : k'.prio[u] = given[u] /\ k'.prio[u] \in Prio
  <2>1. MutexTypeInv /\ PrioInv
    BY DEF MutexInv
  <2>2. /\ Restored(k1) \in KernelState /\ Restored(k1).state = k1.state
        /\ \A u \in Task : Restored(k1).prio[u] = IF u = owner THEN ownerPrio ELSE k1.prio[u]
        /\ \A u \in Task : Restored(k1).prio[u] \in Prio
    BY <2>1, RestoredFacts
  <2>3. \A u \in Task : Restored(k1).prio[u] = given[u]
    BY <2>1, <2>2, ListNames DEF PrioInv
  <2>4. QED
    BY <1>1, <2>2, <2>3
<1>3. holds' \in [Task -> Nat] /\ holds'[t] >= 1
  BY <1>1, MutexParts DEF MutexInv
<1>4. MutexTypeInv'
  BY <1>1, <1>2, <1>3, MutexParts, MutexFacts
     DEF MutexInv, MutexTypeInv, TypeInv, TypeOK, InCall
<1>5. OwnerInv'
  BY <1>1, <1>3 DEF OwnerInv
<1>6. PrioInv'
  BY <1>1, <1>2 DEF MutexInv, PrioInv, InCall, CallsOfLive
<1>7. QED
  BY <1>4, <1>5, <1>6 DEF MutexInv

LEMMA LockKeeps ==
  ASSUME MutexInv, NEW t \in Task, os_mutex_lock(t)
  PROVE  MutexInv'
<1>1. InCall(t) /\ t \in alive /\ todo[t] = <<>> /\ CallsOfLive
  BY DEF InCall, os_mutex_lock, LockFree, LockAgain, LockTaken, Invokes, Runs, Then, CallsOfLive,
     MutexInv, MutexTypeInv, TypeInv, TypeOK
<1>2. CASE LockFree(t)
  BY <1>1, <1>2, ChangeKeeps, MutexParts DEF LockFree, MutexInv
<1>3. CASE LockAgain(t)
  <2>1. /\ UNCHANGED <<k, todo, owner, ownerPrio>> /\ owner = t
        /\ \/ ~ Recursive /\ Locked(t) /\ nesting' = nesting
           \/ nesting < MaxRecursive /\ Locked(t) /\ nesting' = nesting + 1
           \/ UNCHANGED <<holds, nesting>>
    BY <1>3 DEF LockAgain
  <2>2. nesting \in Nat /\ nesting' \in 0..MaxRecursive /\ nesting' >= nesting
    BY <2>1, MutexParts, MutexFacts DEF MutexInv
  <2>3. /\ holds' \in [Task -> Nat] /\ holds[t] \in Nat /\ holds'[t] >= holds[t]
        /\ Recursive => holds'[t] - nesting' = holds[t] - nesting
    <3>1. holds \in [Task -> Nat] /\ holds[t] \in Nat
      BY MutexParts DEF MutexInv
    <3>2. CASE Locked(t)
      <4>1. holds' = [holds EXCEPT ![t] = holds[t] + 1]
        BY <3>2 DEF Locked
      <4>2. holds' \in [Task -> Nat] /\ holds'[t] = holds[t] + 1
        BY <3>1, <4>1
      <4>3. Recursive => nesting' = nesting + 1 \/ UNCHANGED <<holds, nesting>>
        BY <2>1
      <4>4. Recursive => holds'[t] - nesting' = holds[t] - nesting
        BY <2>2, <3>1, <4>2, <4>3
      <4>5. QED
        BY <3>1, <4>2, <4>4
    <3>3. CASE UNCHANGED <<holds, nesting>>
      BY <3>1, <3>3
    <3>4. QED
      BY <2>1, <3>2, <3>3
  <2>4. MutexTypeInv'
    BY <1>1, <2>1, <2>2, <2>3, MutexParts DEF MutexInv, MutexTypeInv, TypeInv, TypeOK, InCall
  <2>5. OwnerInv'
    BY <2>1, <2>2, <2>3, ListNames DEF MutexInv, OwnerInv
  <2>6. PrioInv'
    BY <1>1, <2>1 DEF MutexInv, PrioInv, InCall
  <2>7. QED
    BY <2>4, <2>5, <2>6 DEF MutexInv
<1>4. CASE LockTaken(t)
  <2> PICK n \in LockTimeOuts :
        Then(t, os_add_tick_task(RaiseOwner(k, t), t, n, Mutex), <<"sched", "waitRet">>)
    BY <1>4 DEF LockTaken
  <2> DEFINE kr == RaiseOwner(k, t)
  <2>1. owner \in Task /\ owner # t /\ UNCHANGED <<owner, ownerPrio, nesting, holds>>
    BY <1>4, MutexParts DEF LockTaken, MutexInv
  <2>2. kr \in KernelState /\ kr.state = k.state /\ \A u \in Task \ {owner} : kr.prio[u] = k.prio[u]
    BY <2>1, RaiseFacts, MutexParts DEF MutexInv
  <2>3. k' = os_add_tick_task(kr, t, n, Mutex)
    BY DEF Then
  <2> HIDE DEF kr
  <2>4. k' \in KernelState /\ Keeps(kr, k')
    BY <2>2, <2>3, MutexFacts, AddTickType, KeepsAddTick
  <2>5. /\ \A u \in Task \ {owner} : k'.prio[u] = given[u]
        /\ \A u \in Task : k.state[u] # "NONE" => k'.state[u] # "NONE"
    BY <2>2, <2>4 DEF Keeps, MutexInv, PrioInv
  <2>6. MutexTypeInv'
    <3>1. <<"sched", "waitRet">> \in Seq(Step) /\ TypeInv /\ alive' \subseteq Task
      BY <1>1, MutexParts DEF Step, MutexInv, InCall
    <3>2. TypeInv'
      BY <1>1, <2>3, <2>4, <3>1, ThenType DEF Then, InCall
    <3>3. QED
      BY <1>1, <2>1, <3>2, MutexParts DEF MutexInv, MutexTypeInv, InCall
  <2>7. OwnerInv'
    BY <2>1 DEF MutexInv, OwnerInv
  <2>8. PrioInv'
    BY <1>1, <2>1, <2>5 DEF MutexInv, PrioInv, InCall, CallsOfLive
  <2>9. QED
    BY <2>6, <2>7, <2>8 DEF MutexInv
<1>5. QED
  BY <1>2, <1>3, <1>4 DEF os_mutex_lock

LEMMA LockReturnKeeps ==
  ASSUME MutexInv, NEW t \in Task, LockReturn(t)
  PROVE  MutexInv'
<1> DEFINE bs == [k.bstate EXCEPT ![t] = "NONE"]
           k1 == [k EXCEPT !.bstate = bs]
<1>1. InCall(t) /\ todo[t] # <<>>
  BY DEF LockReturn, Continues, Runs, InCall
<1>2. todo' \in [Task -> Seq(Step)] /\ CallsOfLive
  <2>1. todo \in [Task -> Seq(Step)] /\ todo[t] \in Seq(Step)
    BY MutexParts DEF MutexInv
  <2>2. Tail(todo[t]) \in Seq(Step)
    BY <1>1, <2>1
  <2>3. todo' = [todo EXCEPT ![t] = Tail(todo[t])]
    BY DEF LockReturn
  <2>4. QED
    BY <1>1, <2>1, <2>2, <2>3 DEF CallsOfLive
<1>3. k1 \in KernelState /\ k1.prio = k.prio /\ k1.state = k.state
  BY MutexParts DEF MutexInv, KernelState, BlockState
<1>4. IF k.bstate[t] = "TIMEOUT" THEN k' = k1 /\ UNCHANGED <<owner, ownerPrio, nesting, holds>>
                                 ELSE OwnerChange(k1, t) /\ Locked(t)
  BY DEF LockReturn
<1> HIDE DEF bs, k1
<1>5. CASE k.bstate[t] = "TIMEOUT"
  <2>1. MutexTypeInv'
    BY <1>1, <1>2, <1>3, <1>4, <1>5, MutexParts DEF MutexInv, MutexTypeInv, TypeInv, TypeOK, InCall
  <2>2. OwnerInv'
    BY <1>4, <1>5 DEF MutexInv, OwnerInv
  <2>3. PrioInv'
    BY <1>1, <1>2, <1>3, <1>4, <1>5 DEF MutexInv, PrioInv, InCall, CallsOfLive
  <2>4. QED
    BY <2>1, <2>2, <2>3 DEF MutexInv
<1>6. CASE k.bstate[t] # "TIMEOUT"
  BY <1>1, <1>2, <1>3, <1>4, <1>6, ChangeKeeps
<1>7. QED
  BY <1>5, <1>6

\* The mutex has no owner any longer: what is left of os_mutex_unlock and destroy.
LEMMA FreeKeeps ==
  ASSUME MutexInv, NEW t \in Task, InCall(t), owner' = NULL, ownerPrio' = ownerPrio,
         nesting' \in 0..MaxRecursive, holds' \in [Task -> Nat],
         NEW k1 \in KernelState, Keeps(Restored(k), k1),
         NEW rest \in {<<>>, <<"sched">>}, Then(t, k1, rest)
  PROVE  MutexInv'
<1>0. <<>> \in Seq(Step) /\ <<"sched">> \in Seq(Step)
  BY DEF Step
<1>1. TypeInv /\ k \in KernelState /\ rest \in Seq(Step) /\ alive' \subseteq Task /\ irq = "none"
  BY <1>0, MutexParts DEF MutexInv, InCall
<1>2. TypeInv'
  BY <1>1, ThenType
<1>3. MutexTypeInv'
  BY <1>2, MutexParts DEF MutexInv, MutexTypeInv, InCall
<1>4. /\ k' = k1 /\ \A u \in Task : k1.prio[u] = given[u]
      /\ \A u \in Task : k.state[u] # "NONE" => k1.state[u] # "NONE"
  <2>1. MutexTypeInv /\ PrioInv
    BY DEF MutexInv
  <2>2. /\ Restored(k).state = k.state
        /\ \A u \in Task : Restored(k).prio[u] = IF u = owner THEN ownerPrio ELSE k.prio[u]
    BY <1>1, <2>1, RestoredFacts
  <2>3. \A u \in Task : Restored(k).prio[u] = given[u]
    BY <2>1, <2>2, ListNames DEF PrioInv
  <2>4. QED
    BY <2>2, <2>3 DEF Keeps, Then
<1>5. CallsOfLive
  BY <1>1, ThenCalls DEF InCall
<1>6. PrioInv'
  BY <1>4, <1>5 DEF MutexInv, PrioInv, InCall, CallsOfLive
<1>7. OwnerInv'
  BY DEF OwnerInv
<1>8. QED
  BY <1>3, <1>6, <1>7 DEF MutexInv

LEMMA UnlockKeeps ==
  ASSUME MutexInv, NEW t \in Task, os_mutex_unlock(t)
  PROVE  MutexInv'
<1>1. /\ InCall(t) /\ owner = t /\ holds' = [holds EXCEPT ![t] = @ - 1]
      /\ t \in alive /\ todo[t] = <<>>
  <2>1. UNCHANGED <<running, swEnabled, swPending, irq>>
    BY DEF os_mutex_unlock, ReleaseOwner, Then, vars
  <2>2. QED
    BY <2>1 DEF InCall, os_mutex_unlock, Invokes, Runs
<1>2. /\ nesting \in Nat /\ nesting >= 1 /\ nesting <= MaxRecursive
      /\ holds[t] \in Nat /\ holds[t] >= 1 /\ (Recursive => nesting <= holds[t])
  BY <1>1, MutexParts, MutexFacts, ListNames DEF MutexInv, OwnerInv
<1>3. holds' \in [Task -> Nat] /\ holds'[t] = holds[t] - 1
  BY <1>1, <1>2, MutexParts DEF MutexInv
<1>4. CASE StillNested
  <2>1. nesting' = nesting - 1 /\ UNCHANGED <<vars, owner, ownerPrio>> /\ Recursive /\ nesting > 1
    BY <1>4 DEF os_mutex_unlock, StillNested
  <2>2. MutexTypeInv'
    BY <1>1, <1>2, <1>3, <2>1, MutexParts, MutexFacts
       DEF MutexInv, MutexTypeInv, TypeInv, TypeOK, InCall, vars
  <2>3. OwnerInv'
    BY <1>1, <1>2, <1>3, <2>1 DEF OwnerInv
  <2>4. PrioInv'
    BY <1>1, <2>1 DEF MutexInv, PrioInv, InCall, vars
  <2>5. QED
    BY <2>2, <2>3, <2>4 DEF MutexInv
<1>5. CASE ~ StillNested
  <2>1. /\ owner' = NULL /\ ownerPrio' = ownerPrio
        /\ nesting' = IF Recursive THEN nesting - 1 ELSE nesting
        /\ IF Waits THEN Then(t, os_block_wakeup_first_task(Restored(k), Mutex), <<"sched">>)
                    ELSE Then(t, Restored(k), <<>>)
    BY <1>5 DEF os_mutex_unlock, ReleaseOwner
  <2>2. Restored(k) \in KernelState /\ Keeps(Restored(k), Restored(k))
    BY RestoredFacts, MutexParts DEF MutexInv, Keeps
  <2>3. /\ os_block_wakeup_first_task(Restored(k), Mutex) \in KernelState
        /\ Keeps(Restored(k), os_block_wakeup_first_task(Restored(k), Mutex))
    BY <2>2, MutexFacts, WakeupFirstType, KeepsWakeupFirst
  <2>4. nesting' \in 0..MaxRecursive
    BY <1>2, <2>1, MutexFacts
  <2>5. CASE Waits
    <3>1. /\ Then(t, os_block_wakeup_first_task(Restored(k), Mutex), <<"sched">>)
          /\ <<"sched">> \in {<<>>, <<"sched">>}
      BY <2>1, <2>5
    <3>2. QED
      BY <1>1, <1>3, <2>1, <2>3, <2>4, <3>1, FreeKeeps
  <2>6. CASE ~ Waits
    <3>1. Then(t, Restored(k), <<>>) /\ <<>> \in {<<>>, <<"sched">>}
      BY <2>1, <2>6
    <3>2. QED
      BY <1>1, <1>3, <2>1, <2>2, <2>4, <3>1, FreeKeeps
  <2>7. QED
    BY <2>5, <2>6
<1>6. QED
  BY <1>4, <1>5

LEMMA DestroyKeeps ==
  ASSUME MutexInv, NEW t \in Task, os_mutex_destory(t)
  PROVE  MutexInv'
<1> DEFINE ka == os_block_wakeup_all_task(Restored(k), Mutex)
           ls == [ka.list EXCEPT ![Mutex] = <<>>]
           k1 == [ka EXCEPT !.list = ls]
<1>1. /\ InCall(t) /\ owner' = NULL /\ Then(t, k1, <<"sched">>) /\ UNCHANGED <<ownerPrio, nesting>>
      /\ holds' = [u \in Task |-> 0]
  BY DEF os_mutex_destory, InCall, Invokes, Runs, Then
<1>2. Restored(k) \in KernelState
  BY RestoredFacts, MutexParts DEF MutexInv
<1>3. ka \in KernelState /\ Keeps(Restored(k), ka)
  BY <1>2, KeepsWakeupAll, MutexFacts
<1> HIDE DEF ka
<1>4. ls \in [List -> Seq(Task)]
  <2>1. ka.list \in [List -> Seq(Task)] /\ <<>> \in Seq(Task)
    BY <1>3 DEF KernelState
  <2>2. QED
    BY <2>1
<1> HIDE DEF ls
<1>5. k1 \in KernelState /\ Keeps(ka, k1)
  BY <1>3, <1>4 DEF KernelState, Keeps
<1> HIDE DEF k1
<1>6. Keeps(Restored(k), k1)
  BY <1>3, <1>5, KeepsTwice
<1>7. nesting' \in 0..MaxRecursive /\ holds' \in [Task -> Nat] /\ <<"sched">> \in {<<>>, <<"sched">>}
  BY <1>1, MutexParts DEF MutexInv
<1>8. QED
  BY <1>1, <1>5, <1>6, <1>7, FreeKeeps

LEMMA KernelKeeps ==
  ASSUME MutexInv, KernelStep
  PROVE  MutexInv'
<1>1. /\ Next /\ UNCHANGED <<owner, ownerPrio, nesting, holds>>
      /\ given' = [t \in Task |-> IF t \in alive' \ alive THEN k'.prio[t] ELSE given[t]]
  BY DEF KernelStep
<1>2. TypeInv'
  BY <1>1, TypeInvStep, MutexParts DEF MutexInv
<1>3. k' \in KernelState
  BY <1>2 DEF TypeInv, TypeOK
<1>4. MutexTypeInv'
  BY <1>1, <1>2, <1>3, MutexParts DEF MutexInv, MutexTypeInv, KernelState
<1>5. OwnerInv'
  BY <1>1 DEF MutexInv, OwnerInv
<1>6. KeepsOrCreates /\ CallsOfLive /\ (running => running')
  BY <1>1, NextKeeps, MutexParts DEF MutexInv
<1>7. PrioInv'
  <2>1. CASE Keeps(k, k') /\ alive' \subseteq alive
    <3>1. given' = given
      BY <1>1, <2>1, MutexParts DEF MutexInv
    <3>2. QED
      BY <1>1, <1>6, <2>1, <3>1, MutexParts DEF MutexInv, PrioInv, Keeps, CallsOfLive
  <2>2. ASSUME NEW u \in Task, Creates(u) PROVE PrioInv'
    <3>1. u # owner
      BY <2>2, ListNames DEF Creates, MutexInv, PrioInv
    <3>2. /\ \A t \in Task \ {u} : given'[t] = given[t]
          /\ given'[u] = k'.prio[u]
      BY <1>1, <2>2 DEF Creates
    <3>3. \A t \in Task \ {owner} : k'.prio[t] = given'[t]
      BY <2>2, <3>2 DEF Creates, MutexInv, PrioInv
    <3>4. owner # NULL => ownerPrio = given'[owner] /\ k'.state[owner] # "NONE"
      BY <2>2, <3>1, <3>2, MutexParts DEF Creates, MutexInv, PrioInv
    <3>5. \A t \in Task : t \in alive' \/ todo'[t] # <<>> => k'.state[t] # "NONE"
      BY <1>6, <2>2 DEF Creates, MutexInv, PrioInv, CallsOfLive
    <3>6. QED
      BY <1>1, <1>6, <3>3, <3>4, <3>5 DEF MutexInv, PrioInv
  <2>3. QED
    BY <1>6, <2>1, <2>2 DEF KeepsOrCreates
<1>8. QED
  BY <1>4, <1>5, <1>7 DEF MutexInv

LEMMA MutexInvStep == MutexInv /\ [MutexNext]_allVars => MutexInv'
<1> SUFFICES ASSUME MutexInv, [MutexNext]_allVars PROVE MutexInv'
  OBVIOUS
<1>1. CASE UNCHANGED allVars
  BY <1>1 DEF allVars, mutexVars, vars, MutexInv, MutexTypeInv, TypeInv, TypeOK, OwnerInv, PrioInv
<1>2. QED
  BY <1>1, KernelKeeps, LockKeeps, LockReturnKeeps, UnlockKeeps, DestroyKeeps DEF MutexNext

LEMMA MutexInvInit == MutexInit => MutexInv
<1> SUFFICES ASSUME MutexInit PROVE MutexInv
  OBVIOUS
<1>1. TypeInv /\ owner = NULL
  BY TypeInvInit DEF MutexInit, os_mutex_init
<1>2. MutexTypeInv
  BY <1>1, MutexFacts, ListNames DEF MutexInit, os_mutex_init, MutexTypeInv
<1>3. PrioInv
  BY <1>1 DEF MutexInit, Init, KernelReset, PrioInv
<1>4. QED
  BY <1>1, <1>2, <1>3 DEF MutexInv, OwnerInv

\* The owner of the mutex is a task that has locked it and may unlock it: taking over
\* from a former owner after a wait, recursion up to its limit and destroying the mutex
\* leave no owner without a lock (__mutex_owner_change, os_mutex_lock, os_mutex_unlock).
THEOREM OwnersHaveLocked == MutexSpec => []OwnerHolds
<1>1. MutexInv => OwnerHolds
  <2> SUFFICES ASSUME MutexInv, owner # NULL PROVE holds[owner] > 0
    BY DEF OwnerHolds
  <2>1. holds[owner] \in Nat /\ holds[owner] >= 1
    BY MutexParts DEF MutexInv, OwnerInv
  <2>2. QED
    BY <2>1
<1>2. QED
  BY <1>1, MutexInvInit, MutexInvStep, PTL DEF MutexSpec

\* A priority that the mutex raised is given back by whatever way its owner ceases to be
\* the owner, also when tasks are created, end and are preempted in between
\* (__mutex_owner_prio_up, __mutex_owner_change, os_mutex_destory).
THEOREM PrioritiesReturn == MutexSpec => []PriorityRestored
<1>1. MutexInv => PriorityRestored
  BY MutexParts DEF MutexInv, PrioInv, PriorityRestored
<1>2. QED
  BY <1>1, MutexInvInit, MutexInvStep, PTL DEF MutexSpec

-----------------------------------------------------------------------------
(* The kernel as it would be if the mutex raised no priority.              *)

Shadow(k0, g) == [k0 EXCEPT !.prio = g]

\* Two memories differ in priorities and in the current task alone.
Alike(k0, s) ==
  /\ k0 \in KernelState /\ s \in KernelState
  /\ s.list = k0.list /\ s.map = k0.map /\ s.high = k0.high
  /\ s.tsPrio = k0.tsPrio /\ s.tsNode = k0.tsNode
  /\ s.state = k0.state /\ s.bstate = k0.bstate /\ s.slice = k0.slice
  /\ s.ticks = k0.ticks /\ s.sliceMissed = k0.sliceMissed /\ s.tickMissed = k0.tickMissed
  /\ s.lock = k0.lock /\ s.locker = k0.locker /\ s.lockTcb = k0.lockTcb
  /\ s.nxt = k0.nxt /\ s.fault = k0.fault

LEMMA ShadowAlike ==
  ASSUME NEW k0 \in KernelState, NEW g \in [Task -> Prio]
  PROVE  Alike(k0, Shadow(k0, g)) /\ Shadow(k0, g).prio = g /\ Shadow(k0, g).cur = k0.cur
BY DEF Shadow, Alike, KernelState

LEMMA AlikeShadow ==
  ASSUME NEW k0, NEW s, Alike(k0, s), s.cur = k0.cur
  PROVE  s = Shadow(k0, s.prio)
BY DEF Shadow, Alike, KernelState

LEMMA AlikeAdd ==
  ASSUME NEW k0, NEW s, Alike(k0, s), NEW t \in Task, s.prio[t] = k0.prio[t],
         (s.cur = NULL \/ s.prio[t] < s.prio[s.cur])
           <=> (k0.cur = NULL \/ k0.prio[t] < k0.prio[k0.cur])
  PROVE  LET k1 == os_rq_add_task(k0, t)
             s1 == os_rq_add_task(s, t)
         IN Alike(k1, s1) /\ s1.prio = s.prio /\ s1.cur = s.cur /\ k1.cur = k0.cur
<1> DEFINE p == k0.prio[t]
           q == k0.list[p]
           q1 == IF k0.cur = NULL \/ p < k0.prio[k0.cur] THEN <<t>> \o q ELSE Append(q, t)
           m1 == IF q = <<>> THEN k0.map \cup {p} ELSE k0.map
           h1 == IF q = <<>> /\ p < k0.high THEN p ELSE k0.high
           f1 == k0.fault \/ SlotLinked(k0, t)
           k1 == os_rq_add_task(k0, t)
           s1 == os_rq_add_task(s, t)
<1>1. k1 = IF k0.state[t] = "READY" THEN k0
           ELSE [k0 EXCEPT !.map = m1, !.high = h1, !.list[p] = q1,
                           !.state[t] = "READY", !.fault = f1]
  BY DEF os_rq_add_task
<1>2. s1 = IF k0.state[t] = "READY" THEN s
           ELSE [s EXCEPT !.map = m1, !.high = h1, !.list[p] = q1,
                          !.state[t] = "READY", !.fault = f1]
  BY DEF os_rq_add_task, Alike, SlotLinked
<1>3. k1 \in KernelState /\ s1 \in KernelState
  BY AddTaskType DEF Alike
<1> DEFINE ls == [k0.list EXCEPT ![p] = q1]
           st == [k0.state EXCEPT ![t] = "READY"]
<1>4. ASSUME k0.state[t] # "READY"
      PROVE  /\ k1 = [k0 EXCEPT !.map = m1, !.high = h1, !.list = ls, !.state = st, !.fault = f1]
             /\ s1 = [s EXCEPT !.map = m1, !.high = h1, !.list = ls, !.state = st, !.fault = f1]
  <2> HIDE DEF p, q, q1, m1, h1, f1, k1, s1
  <2>1. QED
    BY <1>1, <1>2, <1>4 DEF Alike
<1> HIDE DEF p, q, q1, m1, h1, f1, ls, st, k1, s1
<1>5. Alike(k1, s1) /\ s1.prio = s.prio /\ s1.cur = s.cur /\ k1.cur = k0.cur
  <2>1. CASE k0.state[t] = "READY"
    BY <1>1, <1>2, <2>1
  <2>2. CASE k0.state[t] # "READY"
    <3>1. k0 \in KernelState /\ s \in KernelState
      BY DEF Alike
    <3>2. k1 = [k0 EXCEPT !.map = m1, !.high = h1, !.list = ls, !.state = st, !.fault = f1]
      BY <1>4, <2>2
    <3>3. s1 = [s EXCEPT !.map = m1, !.high = h1, !.list = ls, !.state = st, !.fault = f1]
      BY <1>4, <2>2
    <3>4. k1.cur = k0.cur /\ s1.cur = s.cur /\ s1.prio = s.prio
      BY <3>1, <3>2, <3>3 DEF KernelState
    <3>5. Alike(k1, s1)
      BY <1>3, <3>1, <3>2, <3>3 DEF Alike, KernelState
    <3>6. QED
      BY <3>4, <3>5
  <2>3. QED
    BY <2>1, <2>2
<1>6. QED
  BY <1>5 DEF k1, s1

LEMMA AlikeNext ==
  ASSUME NEW k0, NEW s, Alike(k0, s)
  PROVE  \A n : NextNode(s, n) = NextNode(k0, n)
BY DEF Alike, NextNode, SlotLinked

LEMMA AlikeUnlink ==
  ASSUME NEW k0, NEW s, Alike(k0, s), NEW t \in Task
  PROVE  /\ Alike(UnlinkSlot(k0, t), UnlinkSlot(s, t))
         /\ UnlinkSlot(s, t).prio = s.prio /\ UnlinkSlot(s, t).cur = s.cur
         /\ UnlinkSlot(k0, t).prio = k0.prio /\ UnlinkSlot(k0, t).cur = k0.cur
         /\ Alike(UnlinkTick(k0, t), UnlinkTick(s, t))
         /\ UnlinkTick(s, t).prio = s.prio /\ UnlinkTick(s, t).cur = s.cur
         /\ UnlinkTick(k0, t).prio = k0.prio /\ UnlinkTick(k0, t).cur = k0.cur
<1>1. /\ UnlinkSlot(k0, t) \in KernelState /\ UnlinkSlot(s, t) \in KernelState
      /\ UnlinkTick(k0, t) \in KernelState /\ UnlinkTick(s, t) \in KernelState
  BY UnlinkSlotType, UnlinkTickType DEF Alike
<1>2. /\ Alike(UnlinkSlot(k0, t), UnlinkSlot(s, t))
      /\ UnlinkSlot(s, t).prio = s.prio /\ UnlinkSlot(s, t).cur = s.cur
      /\ UnlinkSlot(k0, t).prio = k0.prio /\ UnlinkSlot(k0, t).cur = k0.cur
  BY <1>1 DEF Alike, UnlinkSlot, KernelState
<1>3. /\ Alike(UnlinkTick(k0, t), UnlinkTick(s, t))
      /\ UnlinkTick(s, t).prio = s.prio /\ UnlinkTick(s, t).cur = s.cur
      /\ UnlinkTick(k0, t).prio = k0.prio /\ UnlinkTick(k0, t).cur = k0.cur
  BY <1>1 DEF Alike, UnlinkTick, KernelState
<1>4. QED
  BY <1>2, <1>3

LEMMA AlikeSet ==
  ASSUME NEW k0, NEW s, Alike(k0, s), NEW t \in Task, NEW b \in BlockState
  PROVE  LET k1 == [k0 EXCEPT !.bstate[t] = b]
             s1 == [s EXCEPT !.bstate[t] = b]
         IN Alike(k1, s1) /\ s1.prio = s.prio /\ s1.cur = s.cur
              /\ k1.prio = k0.prio /\ k1.cur = k0.cur
<1> DEFINE bs == [k0.bstate EXCEPT ![t] = b]
           k1 == [k0 EXCEPT !.bstate = bs]
           s1 == [s EXCEPT !.bstate = bs]
<1>1. k0 \in KernelState /\ s \in KernelState /\ s.bstate = k0.bstate
  BY DEF Alike
<1>2. bs \in [Task -> BlockState]
  BY <1>1 DEF KernelState
<1> HIDE DEF bs
<1>3. k1 \in KernelState /\ s1 \in KernelState
  <2>1. \A x \in KernelState : [x EXCEPT !.bstate = bs] \in KernelState
    BY <1>2 DEF KernelState
  <2>2. QED
    BY <1>1, <2>1
<1>4. s1.prio = s.prio /\ s1.cur = s.cur /\ k1.prio = k0.prio /\ k1.cur = k0.cur
  BY <1>1 DEF KernelState
<1>5. Alike(k1, s1)
  BY <1>1, <1>3 DEF Alike, KernelState
<1>6. QED
  BY <1>1, <1>4, <1>5 DEF bs

LEMMA AlikeDel ==
  ASSUME NEW k0, NEW s, Alike(k0, s), NEW t \in Task, s.prio[t] = k0.prio[t]
  PROVE  LET k1 == os_rq_del_task(k0, t)
             s1 == os_rq_del_task(s, t)
         IN Alike(k1, s1) /\ s1.prio = s.prio /\ s1.cur = s.cur
              /\ k1.prio = k0.prio /\ k1.cur = k0.cur
<1> DEFINE p  == k0.prio[t]
           n  == NextNode(k0, t)
           kc == LeaveSlice(k0, t)
           sc == LeaveSlice(s, t)
           k1 == UnlinkSlot(kc, t)
           s1 == UnlinkSlot(sc, t)
           m  == k0.map \ {p}
           h  == IF k0.high = p THEN HighestReadyPriority(m) ELSE k0.high
           k2 == os_rq_del_task(k0, t)
           s2 == os_rq_del_task(s, t)
<1>0. k0 \in KernelState /\ s \in KernelState
  BY DEF Alike
<1>1. /\ kc = IF p = k0.tsPrio /\ t = k0.tsNode THEN [k0 EXCEPT !.tsNode = n] ELSE k0
      /\ sc = IF p = k0.tsPrio /\ t = k0.tsNode THEN [s EXCEPT !.tsNode = n] ELSE s
  BY AlikeNext DEF LeaveSlice, Alike
<1>2. n \in Task \cup List \cup {NULL}
  BY NextNodeType DEF Alike
<1>p. s.prio[t] = p /\ s.map = k0.map
  BY DEF Alike
<1>3. k2 = IF k1.list[p] # <<>> THEN k1
           ELSE [k1 EXCEPT !.map = k0.map \ {p},
                           !.high = IF @ = p THEN HighestReadyPriority(k0.map \ {p}) ELSE @]
  BY DEF os_rq_del_task
<1>4. s2 = IF s1.list[p] # <<>> THEN s1
           ELSE [s1 EXCEPT !.map = k0.map \ {p},
                           !.high = IF @ = p THEN HighestReadyPriority(k0.map \ {p}) ELSE @]
  BY <1>p DEF os_rq_del_task
<1> HIDE DEF n, kc, sc, k1, s1, k2, s2, p
<1>5. /\ Alike(kc, sc) /\ sc.prio = s.prio /\ sc.cur = s.cur /\ sc.high = k0.high
      /\ kc.prio = k0.prio /\ kc.cur = k0.cur /\ kc.high = k0.high
  <2>1. CASE p = k0.tsPrio /\ t = k0.tsNode
    <3>1. kc = [k0 EXCEPT !.tsNode = n] /\ sc = [s EXCEPT !.tsNode = n]
      BY <1>1, <2>1
    <3>2. kc \in KernelState /\ sc \in KernelState
      BY <1>0, <1>2, <3>1 DEF KernelState
    <3>3. /\ sc.prio = s.prio /\ sc.cur = s.cur /\ sc.high = s.high
          /\ kc.prio = k0.prio /\ kc.cur = k0.cur /\ kc.high = k0.high
      BY <1>0, <3>1 DEF KernelState
    <3>4. Alike(kc, sc)
      BY <1>0, <3>1, <3>2 DEF Alike, KernelState
    <3>5. QED
      BY <3>3, <3>4 DEF Alike
  <2>2. CASE ~ (p = k0.tsPrio /\ t = k0.tsNode)
    BY <1>1, <2>2 DEF Alike
  <2>3. QED
    BY <2>1, <2>2
<1>6. /\ Alike(k1, s1) /\ s1.prio = s.prio /\ s1.cur = s.cur /\ k1.prio = k0.prio
      /\ k1.cur = k0.cur
  BY <1>5, AlikeUnlink DEF k1, s1
<1>7. k1.high = k0.high /\ s1.high = k0.high
  BY <1>5, <1>6 DEF Alike, k1, s1, UnlinkSlot, KernelState
<1>8. k2 \in KernelState /\ s2 \in KernelState
  BY <1>0, DelTaskType DEF k2, s2
<1>9. Alike(k2, s2) /\ s2.prio = s.prio /\ s2.cur = s.cur /\ k2.prio = k0.prio /\ k2.cur = k0.cur
  <2>1. CASE k1.list[p] # <<>>
    BY <1>3, <1>4, <1>6, <2>1 DEF Alike
  <2>2. CASE k1.list[p] = <<>>
    <3>1. k2 = [k1 EXCEPT !.map = m, !.high = h]
      BY <1>3, <1>7, <2>2
    <3>2. s2 = [s1 EXCEPT !.map = m, !.high = h]
      BY <1>4, <1>6, <1>7, <2>2 DEF Alike
    <3> HIDE DEF m, h
    <3>3. k2.cur = k1.cur /\ s2.cur = s1.cur /\ s2.prio = s1.prio /\ k2.prio = k1.prio
      BY <1>6, <3>1, <3>2 DEF Alike, KernelState
    <3>4. Alike(k2, s2)
      BY <1>6, <1>8, <3>1, <3>2 DEF Alike, KernelState
    <3>5. QED
      BY <1>6, <3>3, <3>4
  <2>3. QED
    BY <2>1, <2>2
<1>10. QED
  BY <1>9 DEF k2, s2

\* Task t would go to the same end of its ready queue.
SamePlace(k0, s, t) ==
  /\ s.prio[t] = k0.prio[t]
  /\ (s.cur = NULL \/ s.prio[t] < s.prio[s.cur])
       <=> (k0.cur = NULL \/ k0.prio[t] < k0.prio[k0.cur])

LEMMA AlikeEndTick ==
  ASSUME NEW k0, NEW s, Alike(k0, s), NEW t \in Task, NEW why \in BlockState,
         SamePlace(k0, s, t)
  PROVE  LET k1 == EndWait(UnlinkTick(k0, t), t, why)
             s1 == EndWait(UnlinkTick(s, t), t, why)
         IN Alike(k1, s1) /\ s1.prio = s.prio /\ s1.cur = s.cur /\ k1.cur = k0.cur
<1> DEFINE ka == UnlinkTick(k0, t)
           sa == UnlinkTick(s, t)
           kb == [ka EXCEPT !.bstate[t] = why]
           sb == [sa EXCEPT !.bstate[t] = why]
           kc == UnlinkSlot(kb, t)
           sc == UnlinkSlot(sb, t)
<1>1. Alike(ka, sa) /\ sa.prio = s.prio /\ sa.cur = s.cur /\ ka.prio = k0.prio /\ ka.cur = k0.cur
  BY AlikeUnlink
<1>2. EndWait(ka, t, why) = os_rq_add_task(kc, t) /\ EndWait(sa, t, why) = os_rq_add_task(sc, t)
  BY DEF EndWait
<1> HIDE DEF ka, sa
<1>3. Alike(kb, sb) /\ sb.prio = sa.prio /\ sb.cur = sa.cur /\ kb.prio = ka.prio /\ kb.cur = ka.cur
  BY <1>1, AlikeSet
<1> HIDE DEF kb, sb
<1>4. Alike(kc, sc) /\ sc.prio = sb.prio /\ sc.cur = sb.cur /\ kc.prio = kb.prio /\ kc.cur = kb.cur
  BY <1>3, AlikeUnlink
<1> HIDE DEF kc, sc
<1>5. /\ sc.prio[t] = kc.prio[t]
      /\ (sc.cur = NULL \/ sc.prio[t] < sc.prio[sc.cur])
           <=> (kc.cur = NULL \/ kc.prio[t] < kc.prio[kc.cur])
  BY <1>1, <1>3, <1>4 DEF SamePlace
<1> DEFINE k1 == os_rq_add_task(kc, t)
           s1 == os_rq_add_task(sc, t)
<1>6. Alike(k1, s1) /\ s1.prio = sc.prio /\ s1.cur = sc.cur /\ k1.cur = kc.cur
  BY <1>4, <1>5, AlikeAdd
<1> HIDE DEF k1, s1
<1>7. Alike(k1, s1) /\ s1.prio = s.prio /\ s1.cur = s.cur /\ k1.cur = k0.cur
  BY <1>1, <1>3, <1>4, <1>6
<1>8. QED
  BY <1>2, <1>7 DEF k1, s1, ka, sa

LEMMA AlikeChoose ==
  ASSUME NEW k0, NEW s, Alike(k0, s)
  PROVE  LET k1 == os_rq_get_highest_prio_task(k0)
             s1 == os_rq_get_highest_prio_task(s)
         IN Alike(k1, s1) /\ s1.prio = s.prio /\ s1.cur = s.cur
              /\ k1.prio = k0.prio /\ k1.cur = k0.cur
<1> DEFINE h  == k0.high
           n0 == IF k0.tsPrio = h THEN k0.tsNode ELSE NextNode(k0, h)
           n1 == SkipHead(k0, n0)
           n2 == IF Rotates(k0, n1) THEN SkipHead(k0, NextNode(k0, n1)) ELSE n1
           sl == [k0.slice EXCEPT ![n1] = IF Rotates(k0, n1) THEN Timeslice ELSE @]
           bad == n1 \notin Task \/ n2 \notin Task
           k1 == os_rq_get_highest_prio_task(k0)
           s1 == os_rq_get_highest_prio_task(s)
<1>0. k0 \in KernelState /\ s \in KernelState
  BY DEF Alike
<1>1. /\ \A n : NextNode(s, n) = NextNode(k0, n) /\ SkipHead(s, n) = SkipHead(k0, n)
                /\ (Rotates(s, n) <=> Rotates(k0, n))
      /\ s.high = h /\ s.tsPrio = k0.tsPrio /\ s.tsNode = k0.tsNode /\ s.slice = k0.slice
  BY AlikeNext DEF Alike, SkipHead, Rotates
<1>2. k1 = IF bad THEN [k0 EXCEPT !.fault = TRUE]
           ELSE [k0 EXCEPT !.tsPrio = h, !.tsNode = n2, !.nxt = n2, !.slice = sl]
  BY DEF os_rq_get_highest_prio_task
<1>3. s1 = IF bad THEN [s EXCEPT !.fault = TRUE]
           ELSE [s EXCEPT !.tsPrio = h, !.tsNode = n2, !.nxt = n2, !.slice = sl]
  <2> DEFINE m0 == IF s.tsPrio = s.high THEN s.tsNode ELSE NextNode(s, s.high)
             m1 == SkipHead(s, m0)
             m2 == IF Rotates(s, m1) THEN SkipHead(s, NextNode(s, m1)) ELSE m1
  <2>1. m0 = n0
    BY <1>1
  <2>2. m1 = n1
    BY <1>1, <2>1
  <2>3. m2 = n2 /\ (Rotates(s, m1) <=> Rotates(k0, n1))
    BY <1>1, <2>2
  <2>4. s1 = IF m1 \notin Task \/ m2 \notin Task THEN [s EXCEPT !.fault = TRUE]
             ELSE [s EXCEPT !.tsPrio = s.high, !.tsNode = m2, !.nxt = m2,
                            !.slice[m1] = IF Rotates(s, m1) THEN Timeslice ELSE @]
    BY DEF os_rq_get_highest_prio_task
  <2> HIDE DEF m0, m1, m2, n0, n1, n2, s1
  <2>5. QED
    BY <1>1, <2>2, <2>3, <2>4
<1>4. k1 \in KernelState /\ s1 \in KernelState
  BY <1>0, GetHighestType
<1> HIDE DEF h, n0, n1, n2, sl, bad, k1, s1
<1>5. s1.prio = s.prio /\ s1.cur = s.cur /\ k1.prio = k0.prio /\ k1.cur = k0.cur
  BY <1>0, <1>2, <1>3 DEF KernelState
<1>6. Alike(k1, s1)
  <2>1. CASE bad
    <3>1. k1 = [k0 EXCEPT !.fault = TRUE] /\ s1 = [s EXCEPT !.fault = TRUE]
      BY <1>2, <1>3, <2>1
    <3>2. QED
      BY <1>0, <1>4, <3>1 DEF Alike, KernelState
  <2>2. CASE ~ bad
    <3>1. /\ k1 = [k0 EXCEPT !.tsPrio = h, !.tsNode = n2, !.nxt = n2, !.slice = sl]
          /\ s1 = [s EXCEPT !.tsPrio = h, !.tsNode = n2, !.nxt = n2, !.slice = sl]
      BY <1>2, <1>3, <2>2
    <3>2. QED
      BY <1>0, <1>4, <3>1 DEF Alike, KernelState
  <2>3. QED
    BY <2>1, <2>2
<1>7. QED
  BY <1>5, <1>6 DEF k1, s1

LEMMA AlikeSched ==
  ASSUME NEW k0, NEW s, Alike(k0, s), s.cur = k0.cur, k0.lock = 0, NEW by \in {"thread", "sw"}
  PROVE  LET k1 == os_sched(k0, by)
             s1 == os_sched(s, by)
         IN Alike(k1, s1) /\ s1.prio = s.prio /\ s1.cur = s.cur
              /\ k1.prio = k0.prio /\ k1.cur = k0.cur
<1> DEFINE ka == os_rq_get_highest_prio_task(k0)
           sa == os_rq_get_highest_prio_task(s)
           st == [t \in Task |->
                    IF t = ka.nxt THEN "RUNNING"
                    ELSE IF t = ka.cur /\ ka.state[t] = "RUNNING" THEN "READY"
                    ELSE ka.state[t]]
           k1 == os_sched(k0, by)
           s1 == os_sched(s, by)
<1>1. /\ Alike(ka, sa) /\ sa.prio = s.prio /\ sa.cur = s.cur
      /\ ka.prio = k0.prio /\ ka.cur = k0.cur
  BY AlikeChoose
<1>2. s.lock = 0 /\ k0 \in KernelState /\ s \in KernelState
  BY DEF Alike
<1>3. k1 = IF ka.fault \/ ka.nxt = ka.cur THEN ka ELSE [ka EXCEPT !.state = st]
  BY DEF os_sched, ChooseReady
<1>4. s1 = IF sa.fault \/ sa.nxt = sa.cur THEN sa
           ELSE [sa EXCEPT !.state = [t \in Task |->
                    IF t = sa.nxt THEN "RUNNING"
                    ELSE IF t = sa.cur /\ sa.state[t] = "RUNNING" THEN "READY"
                    ELSE sa.state[t]]]
  BY <1>2 DEF os_sched, ChooseReady
<1>5. k1 \in KernelState /\ s1 \in KernelState
  BY <1>2, SchedType
<1>c. sa.cur = ka.cur
  BY <1>1
<1> HIDE DEF ka, sa, k1, s1
<1>6. s1 = IF ka.fault \/ ka.nxt = ka.cur THEN sa ELSE [sa EXCEPT !.state = st]
  BY <1>1, <1>4, <1>c DEF Alike
<1> HIDE DEF st
<1>7. k1.prio = ka.prio /\ k1.cur = ka.cur /\ s1.prio = sa.prio /\ s1.cur = sa.cur
  BY <1>1, <1>3, <1>6 DEF Alike, KernelState
<1>8. Alike(k1, s1)
  <2>1. CASE ka.fault \/ ka.nxt = ka.cur
    BY <1>1, <1>3, <1>6, <2>1
  <2>2. CASE ~ (ka.fault \/ ka.nxt = ka.cur)
    <3>1. k1 = [ka EXCEPT !.state = st] /\ s1 = [sa EXCEPT !.state = st]
      BY <1>3, <1>6, <2>2
    <3>2. QED
      BY <1>1, <1>5, <3>1 DEF Alike, KernelState
  <2>3. QED
    BY <2>1, <2>2
<1>9. QED
  BY <1>1, <1>7, <1>8 DEF k1, s1

LEMMA AlikeInsert ==
  ASSUME NEW k0, NEW s, NEW t \in Task, NEW q \in Seq(Task),
         \A u \in ToSet(q) \cup {t} : s.prio[u] = k0.prio[u]
  PROVE  BlockInsert(s, q, t) = BlockInsert(k0, q, t)
<1>1. \A i \in DOMAIN q : q[i] \in ToSet(q)
  BY DEF ToSet
<1>2. {i \in DOMAIN q : s.prio[q[i]] > s.prio[t]} = {i \in DOMAIN q : k0.prio[q[i]] > k0.prio[t]}
  BY <1>1
<1>3. QED
  BY <1>2 DEF BlockInsert, BlockPosition

LEMMA AlikeAddBlock ==
  ASSUME NEW k0, NEW s, Alike(k0, s), Lists(s), NEW t \in Task, NEW obj \in Object,
         \A u \in ToSet(s.list[obj]) \cup {t} : s.prio[u] = k0.prio[u]
  PROVE  LET k1 == os_add_block_task(k0, t, obj)
             s1 == os_add_block_task(s, t, obj)
         IN Alike(k1, s1) /\ s1.prio = s.prio /\ s1.cur = s.cur /\ k1.cur = k0.cur
<1> DEFINE ka == os_rq_del_task(k0, t)
           sa == os_rq_del_task(s, t)
           q1 == BlockInsert(k0, ka.list[obj], t)
           f1 == ka.fault \/ SlotLinked(ka, t)
           ls == [ka.list EXCEPT ![obj] = q1]
           st == [ka.state EXCEPT ![t] = "BLOCKING"]
           k1 == os_add_block_task(k0, t, obj)
           s1 == os_add_block_task(s, t, obj)
<1>0. k0 \in KernelState /\ s \in KernelState
  BY DEF Alike
<1>1. Alike(ka, sa) /\ sa.prio = s.prio /\ sa.cur = s.cur /\ ka.prio = k0.prio /\ ka.cur = k0.cur
  BY AlikeDel
<1>2. BlockInsert(s, sa.list[obj], t) = BlockInsert(k0, sa.list[obj], t)
  <2>1. sa \in KernelState /\ ToSet(sa.list[obj]) = ToSet(s.list[obj]) \ {t}
    BY <1>0, DelTaskLists, ListNames
  <2>2. sa.list[obj] \in Seq(Task)
    BY <2>1, ListNames DEF KernelState
  <2> DEFINE q == sa.list[obj]
  <2>3. q \in Seq(Task) /\ \A u \in ToSet(q) \cup {t} : s.prio[u] = k0.prio[u]
    BY <2>1, <2>2
  <2> HIDE DEF q
  <2>4. BlockInsert(s, q, t) = BlockInsert(k0, q, t)
    BY <2>3, AlikeInsert
  <2>5. QED
    BY <2>4 DEF q
<1>3. k1 = [ka EXCEPT !.list = ls, !.state = st, !.fault = f1]
  BY DEF os_add_block_task
<1>4. s1 = [sa EXCEPT !.list = ls, !.state = st, !.fault = f1]
  <2>1. s1 = [sa EXCEPT !.list[obj] = BlockInsert(s, sa.list[obj], t), !.state[t] = "BLOCKING",
                        !.fault = sa.fault \/ SlotLinked(sa, t)]
    BY DEF os_add_block_task
  <2>2. sa.list = ka.list /\ sa.state = ka.state /\ sa.fault = ka.fault
    BY <1>1 DEF Alike
  <2>3. SlotLinked(sa, t) <=> SlotLinked(ka, t)
    BY <2>2 DEF SlotLinked
  <2> HIDE DEF sa, ka, s1
  <2>4. QED
    BY <1>2, <2>1, <2>2, <2>3
<1>5. k1 \in KernelState /\ s1 \in KernelState
  BY <1>0, AddBlockType
<1> HIDE DEF ka, sa, q1, f1, ls, st, k1, s1
<1>6. k1.cur = ka.cur /\ s1.prio = sa.prio /\ s1.cur = sa.cur
  BY <1>1, <1>3, <1>4 DEF Alike, KernelState
<1>7. Alike(k1, s1)
  BY <1>1, <1>3, <1>4, <1>5 DEF Alike, KernelState
<1>8. QED
  BY <1>1, <1>6, <1>7 DEF k1, s1

LEMMA AlikeAddNode ==
  ASSUME NEW k0, NEW s, Alike(k0, s), NEW t \in Task, NEW n \in Count,
         \A u \in Task : u = t \/ TickLinked(s, u) => s.prio[u] = k0.prio[u]
  PROVE  LET k1 == os_tick_add_node(k0, t, n)
             s1 == os_tick_add_node(s, t, n)
         IN Alike(k1, s1) /\ s1.prio = s.prio /\ s1.cur = s.cur
              /\ k1.prio = k0.prio /\ k1.cur = k0.cur
<1> DEFINE i  == TickPosition(k0.ticks, n)
           ka == [k0 EXCEPT !.bstate[t] = "TICKING"]
           sa == [s EXCEPT !.bstate[t] = "TICKING"]
           kb == os_rq_del_task(ka, t)
           sb == os_rq_del_task(sa, t)
           joins == i <= Len(k0.ticks) /\ Expiry(k0.ticks)[i] = n
           tk == IF joins THEN TickJoin(k0, i, t) ELSE TickSplit(k0, i, t, n)
           f1 == kb.fault \/ TickLinked(k0, t)
           st == [kb.state EXCEPT ![t] = "BLOCKING"]
           k1 == os_tick_add_node(k0, t, n)
           s1 == os_tick_add_node(s, t, n)
<1>0. k0 \in KernelState /\ s \in KernelState /\ s.ticks = k0.ticks
  BY DEF Alike
<1>1. Alike(ka, sa) /\ sa.prio = s.prio /\ sa.cur = s.cur /\ ka.prio = k0.prio /\ ka.cur = k0.cur
  BY AlikeSet DEF BlockState
<1>2. Alike(kb, sb) /\ sb.prio = s.prio /\ sb.cur = s.cur /\ kb.prio = k0.prio /\ kb.cur = k0.cur
  <2> HIDE DEF ka, sa
  <2>1. QED
    BY <1>1, AlikeDel
<1>3. joins => TickJoin(s, i, t) = TickJoin(k0, i, t)
  <2> SUFFICES ASSUME joins PROVE TickJoin(s, i, t) = TickJoin(k0, i, t)
    OBVIOUS
  <2>1. k0.ticks \in Seq(TickNode)
    BY <1>0 DEF KernelState
  <2>2. i \in DOMAIN k0.ticks
    <3>1. i \in 1..(Len(k0.ticks) + 1)
      BY <2>1, TickPositionType
    <3>2. QED
      BY <2>1, <3>1
  <2> HIDE DEF i
  <2>3. k0.ticks[i] \in TickNode
    BY <2>1, <2>2
  <2>4. k0.ticks[i].tasks \in Seq(Task)
    BY <2>3 DEF TickNode
  <2>5. \A u \in ToSet(k0.ticks[i].tasks) \cup {t} : s.prio[u] = k0.prio[u]
    <3>1. ToSet(k0.ticks[i].tasks) \subseteq Task
      BY <2>4 DEF ToSet
    <3>2. QED
      BY <1>0, <2>2, <3>1 DEF TickLinked
  <2>6. BlockInsert(s, k0.ticks[i].tasks, t) = BlockInsert(k0, k0.ticks[i].tasks, t)
    BY <2>4, <2>5, AlikeInsert
  <2>7. QED
    BY <1>0, <2>6 DEF TickJoin
<1>4. TickSplit(s, i, t, n) = TickSplit(k0, i, t, n) /\ (TickLinked(s, t) <=> TickLinked(k0, t))
  BY <1>0 DEF TickSplit, TickLinked
<1>5. k1 = [kb EXCEPT !.state = st, !.fault = f1, !.ticks = tk]
  BY DEF os_tick_add_node
<1>6. s1 = [sb EXCEPT !.state[t] = "BLOCKING", !.fault = @ \/ TickLinked(s, t),
                      !.ticks = IF i <= Len(s.ticks) /\ Expiry(s.ticks)[i] = n
                                  THEN TickJoin(s, i, t) ELSE TickSplit(s, i, t, n)]
  BY <1>0 DEF os_tick_add_node
<1>7. s1 = [sb EXCEPT !.state = st, !.fault = f1, !.ticks = tk]
  <2>1. sb.state = kb.state /\ sb.fault = kb.fault
    BY <1>2 DEF Alike
  <2>2. (IF i <= Len(s.ticks) /\ Expiry(s.ticks)[i] = n
           THEN TickJoin(s, i, t) ELSE TickSplit(s, i, t, n)) = tk
    BY <1>0, <1>3, <1>4
  <2> HIDE DEF sb, kb, s1, i, tk
  <2>3. QED
    BY <1>4, <1>6, <2>1, <2>2
<1>8. k1 \in KernelState /\ s1 \in KernelState
  BY <1>0, AddNodeType
<1> HIDE DEF i, ka, sa, kb, sb, joins, tk, f1, st, k1, s1
<1>9. k1.prio = kb.prio /\ k1.cur = kb.cur /\ s1.prio = sb.prio /\ s1.cur = sb.cur
  BY <1>2, <1>5, <1>7 DEF Alike, KernelState
<1>10. Alike(k1, s1)
  BY <1>2, <1>5, <1>7, <1>8 DEF Alike, KernelState
<1>11. QED
  BY <1>2, <1>9, <1>10 DEF k1, s1

LEMMA AlikeAddTick ==
  ASSUME NEW k0, NEW s, Alike(k0, s), Lists(s), NEW t \in Task, NEW n \in Count \cup {Never},
         NEW obj \in Object, s.state[t] # "BLOCKING",
         \A u \in Task : u = t \/ TickLinked(s, u) \/ u \in ToSet(s.list[obj])
                           => s.prio[u] = k0.prio[u]
  PROVE  LET k1 == os_add_tick_task(k0, t, n, obj)
             s1 == os_add_tick_task(s, t, n, obj)
         IN Alike(k1, s1) /\ s1.prio = s.prio /\ s1.cur = s.cur /\ k1.cur = k0.cur
<1> DEFINE kb == IF n = Never THEN k0 ELSE os_tick_add_node(k0, t, n)
           sb == IF n = Never THEN s ELSE os_tick_add_node(s, t, n)
<1>0. k0 \in KernelState /\ s \in KernelState /\ s.state = k0.state
  BY DEF Alike
<1>1. ~ TickLinked(s, t)
  BY <1>0, NotWaiting
<1>2. Alike(kb, sb) /\ sb.prio = s.prio /\ sb.cur = s.cur /\ kb.prio = k0.prio /\ kb.cur = k0.cur
  <2>1. CASE n = Never
    BY <2>1
  <2>2. CASE n # Never
    <3>1. n \in Count
      BY <2>2
    <3>2. QED
      BY <2>2, <3>1, AlikeAddNode
  <2>3. QED
    BY <2>1, <2>2
<1>3. sb \in KernelState /\ OnlyTask(s, sb, t)
  <2>1. CASE n = Never
    BY <1>0, <2>1 DEF OnlyTask, SameSched, Untouched
  <2>2. CASE n # Never
    <3>1. n \in Count
      BY <2>2
    <3>2. QED
      BY <1>0, <1>1, <2>2, <3>1, AddNodeLists
  <2>3. QED
    BY <2>1, <2>2
<1>4. /\ os_add_tick_task(k0, t, n, obj) = os_add_block_task(kb, t, obj)
      /\ os_add_tick_task(s, t, n, obj) = os_add_block_task(sb, t, obj)
  BY <1>0, ListNames, KernelAssumption DEF os_add_tick_task, List
<1> HIDE DEF kb, sb
<1>5. Lists(sb) /\ \A u \in ToSet(sb.list[obj]) \cup {t} : sb.prio[u] = kb.prio[u]
  <2>1. ToSet(sb.list[obj]) \subseteq Task
    BY <1>3, TasksOfList, ListNames
  <2>2. \A u \in Task \ {t} : u \in ToSet(sb.list[obj]) => u \in ToSet(s.list[obj])
    BY <1>3, ListNames DEF OnlyTask, Untouched
  <2>3. QED
    BY <1>2, <1>3, <2>1, <2>2 DEF OnlyTask
<1> DEFINE k1 == os_add_block_task(kb, t, obj)
           s1 == os_add_block_task(sb, t, obj)
<1>6. Alike(k1, s1) /\ s1.prio = sb.prio /\ s1.cur = sb.cur /\ k1.cur = kb.cur
  BY <1>2, <1>5, AlikeAddBlock
<1> HIDE DEF k1, s1
<1>7. Alike(k1, s1) /\ s1.prio = s.prio /\ s1.cur = s.cur /\ k1.cur = k0.cur
  BY <1>2, <1>6
<1>8. QED
  BY <1>4, <1>7 DEF k1, s1

-----------------------------------------------------------------------------
(* What happens to the lists of the shadow.                                *)

\* s is the memory k0 with other priorities.
Mirror(k0, s) == Alike(k0, s) /\ s.cur = k0.cur

\* No task has moved, and none has begun or ended to wait.
Stays(k0, k1) ==
  /\ SameTasks(k0, k1) /\ k1.lock = k0.lock /\ k1.fault = k0.fault
  /\ \A u \in Task : k1.state[u] = "BLOCKING" <=> k0.state[u] = "BLOCKING"

LEMMA StaysTwice ==
  ASSUME NEW k0, NEW k1, NEW k2, Stays(k0, k1), Stays(k1, k2)
  PROVE  Stays(k0, k2)
BY DEF Stays, SameTasks

LEMMA StaysCounters == ASSUME NEW k0, NEW k1, OnlyCounters(k0, k1) PROVE Stays(k0, k1)
BY DEF OnlyCounters, SameSched, Stays, SameTasks

LEMMA StaysChosen == ASSUME NEW k0, NEW k1, Chosen(k0, k1) PROVE Stays(k0, k1)
BY DEF Chosen, Stays

LEMMA SafeStays ==
  ASSUME NEW k0, NEW k1, NEW tasks, Safe(k0, tasks), tasks \subseteq Task, Stays(k0, k1),
         k0.lock = 0
  PROVE  Safe(k1, tasks)
<1>1. HolderWaits(k1) /\ SameTasks(k0, k1)
  BY DEF Stays, HolderWaits
<1>2. QED
  BY <1>1, SafeSame DEF Stays

LEMMA MirrorSched ==
  ASSUME NEW k0, NEW s, Mirror(k0, s), Lists(s), s.map # {}, s.lock = 0,
         NEW by \in {"thread", "sw"}
  PROVE  LET k1 == os_sched(k0, by)
             s1 == os_sched(s, by)
         IN Mirror(k1, s1) /\ s1.prio = s.prio /\ Stays(s, s1) /\ s1.map = s.map
<1> DEFINE k1 == os_sched(k0, by)
           s1 == os_sched(s, by)
<1>1. /\ s \in KernelState /\ Alike(k0, s) /\ s.cur = k0.cur /\ k0.lock = 0
      /\ by \in {"thread", "sw"}
  BY DEF Mirror, Alike
<1>2. Alike(k1, s1) /\ s1.prio = s.prio /\ s1.cur = s.cur /\ k1.cur = k0.cur
  BY <1>1, AlikeSched
<1>3. LockSafe(s, by)
  BY DEF LockSafe
<1>4. /\ OnlyChoice(s, s1) /\ s1.fault = s.fault
      /\ \A u \in Task : s1.state[u] = "BLOCKING" <=> s.state[u] = "BLOCKING"
  BY <1>1, <1>3, SchedLists
<1> HIDE DEF k1, s1
<1>5. SameTasks(s, s1) /\ s1.map = s.map
  BY <1>4 DEF OnlyChoice, SameTasks, TickLinked
<1>6. Mirror(k1, s1) /\ s1.prio = s.prio /\ Stays(s, s1) /\ s1.map = s.map
  BY <1>1, <1>2, <1>4, <1>5 DEF Mirror, Stays, OnlyChoice
<1>7. QED
  BY <1>6 DEF k1, s1

LEMMA MirrorChoose ==
  ASSUME NEW k0, NEW s, Mirror(k0, s), Lists(s), s.map # {}
  PROVE  LET k1 == os_rq_get_highest_prio_task(k0)
             s1 == os_rq_get_highest_prio_task(s)
         IN Mirror(k1, s1) /\ s1.prio = s.prio /\ Stays(s, s1)
<1> DEFINE k1 == os_rq_get_highest_prio_task(k0)
           s1 == os_rq_get_highest_prio_task(s)
<1>1. s \in KernelState /\ Alike(k0, s) /\ s.cur = k0.cur
  BY DEF Mirror, Alike
<1>2. Alike(k1, s1) /\ s1.prio = s.prio /\ s1.cur = s.cur /\ k1.cur = k0.cur
  BY <1>1, AlikeChoose
<1>3. OnlyChoice(s, s1) /\ s1.fault = s.fault /\ s1.state = s.state
  BY <1>1, GetHighestLists
<1> HIDE DEF k1, s1
<1>4. SameTasks(s, s1)
  BY <1>3 DEF OnlyChoice, SameTasks, TickLinked
<1>5. Mirror(k1, s1) /\ s1.prio = s.prio /\ Stays(s, s1)
  BY <1>1, <1>2, <1>3, <1>4 DEF Mirror, Stays, OnlyChoice
<1>6. QED
  BY <1>5 DEF k1, s1

LEMMA MirrorSlice ==
  ASSUME NEW k0, NEW s, Mirror(k0, s), Lists(s), k0.cur \in Task
  PROVE  LET k1 == UseSlice(k0)
             s1 == UseSlice(s)
         IN Mirror(k1, s1) /\ s1.prio = s.prio /\ Stays(s, s1) /\ s1.map = s.map
<1> DEFINE sl0 == k0.slice[k0.cur]
           left == IF k0.sliceMissed >= sl0 THEN 0 ELSE sl0 - k0.sliceMissed - 1
           sl == [k0.slice EXCEPT ![k0.cur] = IF left > Timeslice THEN 0 ELSE left]
           k1 == UseSlice(k0)
           s1 == UseSlice(s)
<1>1. /\ k0 \in KernelState /\ s \in KernelState /\ s.cur = k0.cur /\ s.slice = k0.slice
      /\ s.sliceMissed = k0.sliceMissed
  BY DEF Mirror, Alike
<1>2. k1 = [k0 EXCEPT !.slice = sl, !.sliceMissed = 0]
  BY DEF UseSlice
<1>3. s1 = [s EXCEPT !.slice = sl, !.sliceMissed = 0]
  BY <1>1 DEF UseSlice
<1>4. k1 \in KernelState /\ s1 \in KernelState /\ OnlyCounters(s, s1)
  BY <1>1, UseSliceType, UseSliceLists
<1> HIDE DEF sl0, left, sl, k1, s1
<1>5. k1.cur = k0.cur /\ s1.cur = s.cur /\ s1.prio = s.prio
  BY <1>1, <1>2, <1>3 DEF KernelState
<1>6. Alike(k1, s1)
  BY <1>1, <1>2, <1>3, <1>4 DEF Mirror, Alike, KernelState
<1>7. Mirror(k1, s1) /\ s1.prio = s.prio /\ Stays(s, s1) /\ s1.map = s.map
  BY <1>1, <1>4, <1>5, <1>6, StaysCounters DEF Mirror, OnlyCounters
<1>8. QED
  BY <1>7 DEF k1, s1

LEMMA MirrorTaken ==
  ASSUME NEW k0, NEW s, Mirror(k0, s), k0.ticks # <<>>, NEW c \in Count
  PROVE  LET k1 == TakeMissed(k0, c)
             s1 == TakeMissed(s, c)
         IN Mirror(k1, s1) /\ s1.prio = s.prio
<1> DEFINE m == IF k0.tickMissed > c THEN k0.tickMissed ELSE 0
           tk == [k0.ticks EXCEPT ![1].cnt = IF k0.tickMissed > c THEN 0 ELSE c - k0.tickMissed]
           k1 == TakeMissed(k0, c)
           s1 == TakeMissed(s, c)
<1>1. /\ k0 \in KernelState /\ s \in KernelState /\ s.cur = k0.cur /\ s.ticks = k0.ticks
      /\ s.tickMissed = k0.tickMissed
  BY DEF Mirror, Alike
<1>2. k1 = [k0 EXCEPT !.ticks = tk, !.tickMissed = m]
  BY <1>1 DEF TakeMissed, KernelState
<1>3. s1 = [s EXCEPT !.ticks = tk, !.tickMissed = m]
  BY <1>1 DEF TakeMissed, KernelState
<1>4. k1 \in KernelState /\ s1 \in KernelState
  BY <1>1, TakeMissedType
<1> HIDE DEF m, tk, k1, s1
<1>5. k1.cur = k0.cur /\ s1.cur = s.cur /\ s1.prio = s.prio
  BY <1>1, <1>2, <1>3 DEF KernelState
<1>6. Alike(k1, s1)
  BY <1>1, <1>2, <1>3, <1>4 DEF Mirror, Alike, KernelState
<1>7. Mirror(k1, s1) /\ s1.prio = s.prio
  BY <1>1, <1>5, <1>6 DEF Mirror
<1>8. QED
  BY <1>7 DEF k1, s1

LEMMA MirrorCount ==
  ASSUME NEW k0, NEW s, Mirror(k0, s), Lists(s)
  PROVE  LET k1 == CountTick(k0)
             s1 == CountTick(s)
         IN Mirror(k1, s1) /\ s1.prio = s.prio /\ Stays(s, s1)
<1>1. k0 \in KernelState /\ s \in KernelState /\ s.ticks = k0.ticks
  BY DEF Mirror, Alike
<1>2. CASE k0.ticks = <<>>
  BY <1>1, <1>2 DEF CountTick, Stays, SameTasks
<1>3. CASE k0.ticks # <<>>
  <2> DEFINE c == (k0.ticks[1].cnt - 1) % Wrap
  <2>1. c \in Count
    <3>1. k0.ticks[1] \in TickNode
      BY <1>1, <1>3 DEF KernelState
    <3>2. k0.ticks[1].cnt - 1 \in Int
      BY <3>1, KernelAssumption DEF TickNode, Count
    <3>3. QED
      BY <3>2, Modulo
  <2>2. CountTick(k0) = TakeMissed(k0, c) /\ CountTick(s) = TakeMissed(s, c)
    BY <1>1, <1>3 DEF CountTick
  <2> HIDE DEF c
  <2>3. QED
    BY <1>1, <1>3, <2>1, <2>2, MirrorTaken, TakeMissedLists, StaysCounters
<1>4. QED
  BY <1>2, <1>3

LEMMA MirrorDrop ==
  ASSUME NEW k0, NEW s, Mirror(k0, s), Lists(s), k0.ticks # <<>>, k0.ticks[1].tasks = <<>>
  PROVE  LET k1 == DropNode(k0)
             s1 == DropNode(s)
         IN Mirror(k1, s1) /\ s1.prio = s.prio /\ Stays(s, s1) /\ s1.map = s.map
<1> DEFINE r == Tail(k0.ticks)
           ka == [k0 EXCEPT !.ticks = r]
           sa == [s EXCEPT !.ticks = r]
           k1 == DropNode(k0)
           s1 == DropNode(s)
<1>1. k0 \in KernelState /\ s \in KernelState /\ s.ticks = k0.ticks
  BY DEF Mirror, Alike
<1>2. r \in Seq(TickNode)
  <2>1. k0.ticks \in Seq(TickNode)
    BY <1>1 DEF KernelState
  <2>2. QED
    BY <2>1
<1>3. /\ k1 = IF ka.ticks = <<>> THEN ka ELSE TakeMissed(ka, ka.ticks[1].cnt)
      /\ s1 = IF sa.ticks = <<>> THEN sa ELSE TakeMissed(sa, sa.ticks[1].cnt)
  BY <1>1 DEF DropNode
<1>4. s1 \in KernelState /\ OnlyCounters(s, s1) /\ k1 \in KernelState
  BY <1>1, DropNodeLists, DropNodeType
<1> HIDE DEF r
<1>5. \A x \in KernelState : [x EXCEPT !.ticks = r] \in KernelState
  BY <1>2 DEF KernelState
<1>6. ka \in KernelState /\ sa \in KernelState
  BY <1>1, <1>5
<1>7. ka.cur = k0.cur /\ sa.cur = s.cur /\ sa.prio = s.prio /\ ka.ticks = r /\ sa.ticks = r
  BY <1>1 DEF KernelState
<1>8. Mirror(ka, sa)
  <2>1. Alike(ka, sa)
    BY <1>1, <1>6 DEF Mirror, Alike, KernelState
  <2>2. QED
    BY <1>7, <2>1 DEF Mirror
<1> HIDE DEF ka, sa, k1, s1
<1>9. Mirror(k1, s1) /\ s1.prio = s.prio
  <2>1. CASE r = <<>>
    BY <1>3, <1>7, <1>8, <2>1
  <2>2. CASE r # <<>>
    <3> DEFINE c == r[1].cnt
    <3>1. r[1] \in TickNode
      BY <1>2, <2>2
    <3>2. c \in Count /\ k1 = TakeMissed(ka, c) /\ s1 = TakeMissed(sa, c)
      BY <1>3, <1>7, <2>2, <3>1 DEF TickNode
    <3> HIDE DEF c
    <3>3. QED
      BY <1>7, <1>8, <2>2, <3>2, MirrorTaken
  <2>3. QED
    BY <2>1, <2>2
<1>10. Mirror(k1, s1) /\ s1.prio = s.prio /\ Stays(s, s1) /\ s1.map = s.map
  BY <1>4, <1>9, StaysCounters DEF OnlyCounters
<1>11. QED
  BY <1>10 DEF k1, s1

\* The shadow with a current task that makes task t go to the end of its ready queue
\* that it goes to in k0.
Placed(k0, g, t) ==
  [Shadow(k0, g) EXCEPT
     !.cur = IF k0.cur = NULL \/ k0.prio[t] < k0.prio[k0.cur] THEN NULL ELSE t]

LEMMA PlacedFacts ==
  ASSUME NEW k0 \in KernelState, NEW g \in [Task -> Prio], NEW t \in Task, g[t] = k0.prio[t],
         Lists(Shadow(k0, g)), HighStart(Shadow(k0, g))
  PROVE  LET s == Placed(k0, g, t)
         IN /\ Alike(k0, s) /\ s.prio = g /\ Lists(s) /\ HighStart(s) /\ SamePlace(k0, s, t)
<1> DEFINE s0 == Shadow(k0, g)
           c == IF k0.cur = NULL \/ k0.prio[t] < k0.prio[k0.cur] THEN NULL ELSE t
           s == Placed(k0, g, t)
<1>1. Alike(k0, s0) /\ s0.prio = g /\ s0 \in KernelState
  BY ShadowAlike DEF Alike
<1>2. s = [s0 EXCEPT !.cur = c] /\ c \in Task \cup {NULL}
  BY DEF Placed
<1>3. Lists(s0) /\ HighStart(s0)
  OBVIOUS
<1>c. (c = NULL) <=> (k0.cur = NULL \/ k0.prio[t] < k0.prio[k0.cur])
  BY ListNames
<1>d. c # NULL => c = t
  OBVIOUS
<1> HIDE DEF s0, s, c
<1>4. s \in KernelState /\ s.prio = g /\ SameFields(s0, s) /\ s.cur = c
  BY <1>1, <1>2 DEF KernelState, SameFields
<1>5. Alike(k0, s)
  BY <1>1, <1>2, <1>4 DEF Alike, KernelState
<1>6. Lists(s) /\ HighStart(s)
  BY <1>1, <1>3, <1>4, FieldsSame DEF SameTasks, HighStart
<1>7. SamePlace(k0, s, t)
  <2>1. g[t] \in Int
    BY KernelAssumption DEF Prio
  <2>2. c = t => ~ (s.prio[t] < s.prio[s.cur])
    BY <1>4, <2>1
  <2>3. QED
    BY <1>4, <1>c, <1>d, <2>2 DEF SamePlace
<1>8. QED
  BY <1>4, <1>5, <1>6, <1>7 DEF s

LEMMA AlikeLists ==
  ASSUME NEW k0, NEW s, Alike(k0, s), Lists(s)
  PROVE  Lists(Shadow(k0, s.prio))
<1> DEFINE s0 == Shadow(k0, s.prio)
<1>1. s \in KernelState /\ s.prio \in [Task -> Prio] /\ k0 \in KernelState
  BY DEF Alike, KernelState
<1>2. Alike(k0, s0) /\ s0.prio = s.prio
  BY <1>1, ShadowAlike
<1> HIDE DEF s0
<1>3. SameFields(s, s0)
  BY <1>2 DEF Alike, SameFields
<1>4. QED
  BY <1>1, <1>3, FieldsSame DEF SameTasks, s0

\* What one task's move means for the shadow.
LEMMA ShadowOnly ==
  ASSUME NEW k0, NEW k1, NEW s, NEW s1, NEW t \in Task, Alike(k0, s), Alike(k1, s1),
         OnlyTask(s, s1, t), k1.cur = k0.cur
  PROVE  OnlyTask(Shadow(k0, s.prio), Shadow(k1, s1.prio), t)
<1> DEFINE r0 == Shadow(k0, s.prio)
           r1 == Shadow(k1, s1.prio)
<1>1. /\ k0 \in KernelState /\ k1 \in KernelState
      /\ s.prio \in [Task -> Prio] /\ s1.prio \in [Task -> Prio]
  BY DEF Alike, KernelState
<1>2. /\ Alike(k0, r0) /\ r0.prio = s.prio /\ r0.cur = k0.cur
      /\ Alike(k1, r1) /\ r1.prio = s1.prio /\ r1.cur = k1.cur
  BY <1>1, ShadowAlike
<1>3. Lists(r1)
  BY AlikeLists DEF OnlyTask
<1> HIDE DEF r0, r1
<1>4. SameSched(r0, r1) /\ r1.fault = r0.fault
  BY <1>2 DEF Alike, OnlyTask, SameSched
<1>5. ASSUME NEW u \in Task \ {t} PROVE Untouched(r0, r1, u)
  <2>1. Untouched(s, s1, u)
    BY DEF OnlyTask
  <2>2. /\ TickLinked(r0, u) <=> TickLinked(s, u)
        /\ TickLinked(r1, u) <=> TickLinked(s1, u)
    BY <1>2 DEF Alike, TickLinked
  <2>3. QED
    BY <1>2, <2>1, <2>2 DEF Untouched, Alike
<1>6. QED
  BY <1>3, <1>4, <1>5 DEF OnlyTask, r0, r1

\* What is left of a task's wait in the shadow is what is left of it in k0.
LEMMA ShadowSame ==
  ASSUME NEW k0 \in KernelState, NEW g \in [Task -> Prio]
  PROVE  /\ Shadow(k0, g) \in KernelState
         /\ Shadow(k0, g).list = k0.list /\ Shadow(k0, g).state = k0.state
         /\ Shadow(k0, g).bstate = k0.bstate /\ Shadow(k0, g).ticks = k0.ticks
         /\ Shadow(k0, g).lock = k0.lock /\ Shadow(k0, g).prio = g /\ Shadow(k0, g).cur = k0.cur
         /\ Shadow(k0, g).map = k0.map /\ Shadow(k0, g).high = k0.high
         /\ Shadow(k0, g).fault = k0.fault /\ Shadow(k0, g).nxt = k0.nxt
         /\ \A u : TickLinked(Shadow(k0, g), u) <=> TickLinked(k0, u)
BY ShadowAlike DEF Alike, TickLinked

\* A task has been put in the ready queue of its priority.
MadeReady(k0, k1, t, g, g1) ==
  /\ OnlyTask(Shadow(k0, g), Shadow(k1, g1), t) /\ k1 \in KernelState /\ k1.map # {}
  /\ k1.state[t] = "READY" /\ ~ TickLinked(k1, t) /\ t \in ToSet(k1.list[g1[t]])

LEMMA ShadowEndTick ==
  ASSUME NEW k0 \in KernelState, NEW g \in [Task -> Prio], NEW t \in Task, g[t] = k0.prio[t],
         Lists(Shadow(k0, g)), HighStart(Shadow(k0, g)), TickLinked(k0, t),
         NEW why \in BlockState
  PROVE  LET k1 == EndWait(UnlinkTick(k0, t), t, why)
         IN MadeReady(k0, k1, t, g, g) /\ k1.bstate[t] = why
<1> DEFINE s == Placed(k0, g, t)
           s1 == EndWait(UnlinkTick(s, t), t, why)
           k1 == EndWait(UnlinkTick(k0, t), t, why)
<1>1. Alike(k0, s) /\ s.prio = g /\ Lists(s) /\ HighStart(s) /\ SamePlace(k0, s, t)
  BY PlacedFacts
<1> HIDE DEF s
<1>2. s \in KernelState /\ TickLinked(s, t)
  BY <1>1 DEF Alike, TickLinked
<1>3. Alike(k1, s1) /\ s1.prio = s.prio /\ k1.cur = k0.cur
  BY <1>1, AlikeEndTick
<1>4. /\ OnlyTask(s, s1, t) /\ s1.map # {} /\ ~ TickLinked(s1, t) /\ s1.bstate[t] = why
      /\ s1.state[t] = "READY" /\ t \in ToSet(s1.list[s1.prio[t]])
  BY <1>1, <1>2, EndTickLists
<1> HIDE DEF s1, k1
<1>5. OnlyTask(Shadow(k0, g), Shadow(k1, g), t)
  BY <1>1, <1>3, <1>4, ShadowOnly
<1>6. MadeReady(k0, k1, t, g, g) /\ k1.bstate[t] = why
  BY <1>1, <1>3, <1>4, <1>5 DEF Alike, MadeReady, TickLinked
<1>7. QED
  BY <1>6 DEF k1

\* os_block_wakeup_task of a task that is on no tick node.
LEMMA ShadowWake ==
  ASSUME NEW k0 \in KernelState, NEW g \in [Task -> Prio], NEW t \in Task, g[t] = k0.prio[t],
         Lists(Shadow(k0, g)), HighStart(Shadow(k0, g)), ~ TickLinked(k0, t),
         k0.state[t] = "BLOCKING"
  PROVE  LET k1 == os_block_wakeup_task(k0, t)
         IN MadeReady(k0, k1, t, g, g) /\ k1.bstate = k0.bstate
<1> DEFINE s == Placed(k0, g, t)
           sa == UnlinkSlot(s, t)
           ka == UnlinkSlot(k0, t)
           s1 == os_rq_add_task(sa, t)
           k1 == os_rq_add_task(ka, t)
<1>1. Alike(k0, s) /\ s.prio = g /\ Lists(s) /\ HighStart(s) /\ SamePlace(k0, s, t)
  BY PlacedFacts
<1> HIDE DEF s
<1>2. s \in KernelState /\ ~ TickLinked(s, t) /\ s.state[t] = "BLOCKING" /\ s.bstate = k0.bstate
  BY <1>1 DEF Alike, TickLinked
<1>3. Alike(ka, sa) /\ sa.prio = s.prio /\ sa.cur = s.cur /\ ka.prio = k0.prio /\ ka.cur = k0.cur
  BY <1>1, AlikeUnlink
<1>4. /\ sa \in KernelState /\ OnlyTask(s, sa, t)
      /\ sa.prio = s.prio /\ sa.state = s.state /\ sa.bstate = s.bstate
      /\ sa.ticks = s.ticks /\ sa.map = s.map /\ sa.high = s.high
      /\ \A l \in List : ToSet(sa.list[l]) = ToSet(s.list[l]) \ {t}
  BY <1>1, <1>2, UnlinkWaiterLists
<1>5. os_block_wakeup_task(k0, t) = k1
  BY DEF os_block_wakeup_task
<1> HIDE DEF sa, ka
<1>6. /\ sa.prio[t] = ka.prio[t]
      /\ (sa.cur = NULL \/ sa.prio[t] < sa.prio[sa.cur])
           <=> (ka.cur = NULL \/ ka.prio[t] < ka.prio[ka.cur])
  BY <1>1, <1>3 DEF SamePlace
<1>7. Alike(k1, s1) /\ s1.prio = sa.prio /\ k1.cur = ka.cur
  BY <1>3, <1>6, AlikeAdd
<1>8. /\ Lists(sa) /\ HighStart(sa) /\ ~ SlotLinked(sa, t) /\ ~ TickLinked(sa, t)
      /\ sa.state[t] # "READY"
  BY <1>1, <1>2, <1>4 DEF OnlyTask, HighStart, SlotLinked, TickLinked
<1>9. /\ OnlyTask(sa, s1, t) /\ s1.map # {}
      /\ s1.bstate = sa.bstate /\ s1.ticks = sa.ticks
      /\ s1.state[t] = "READY" /\ t \in ToSet(s1.list[s1.prio[t]])
  BY <1>4, <1>8, AddTaskLists
<1> HIDE DEF s1, k1
<1>10. OnlyTask(s, s1, t)
  BY <1>4, <1>9, OnlyTaskTwice
<1>11. OnlyTask(Shadow(k0, g), Shadow(k1, g), t)
  BY <1>1, <1>3, <1>7, <1>10, ShadowOnly
<1>12. ~ TickLinked(k1, t)
  BY <1>7, <1>8, <1>9 DEF Alike, TickLinked
<1>13. MadeReady(k0, k1, t, g, g) /\ k1.bstate = k0.bstate
  BY <1>1, <1>2, <1>3, <1>4, <1>7, <1>9, <1>11, <1>12 DEF Alike, MadeReady
<1>14. QED
  BY <1>5, <1>13

\* os_block_wakeup_first_task, with the callback that unlinks the task from its tick node.
LEMMA ShadowWakeFirst ==
  ASSUME NEW k0 \in KernelState, NEW g \in [Task -> Prio], NEW obj \in Object,
         Lists(Shadow(k0, g)), HighStart(Shadow(k0, g)), k0.list[obj] # <<>>,
         g[Head(k0.list[obj])] = k0.prio[Head(k0.list[obj])]
  PROVE  LET t == Head(k0.list[obj])
             k1 == os_block_wakeup_first_task(k0, obj)
         IN /\ t \in Task /\ t \in ToSet(k0.list[obj])
            /\ MadeReady(k0, k1, t, g, g) /\ k1.bstate = k0.bstate
<1> DEFINE t == Head(k0.list[obj])
           kb == UnlinkSlot(k0, t)
           ku == UnlinkTick(k0, t)
           k1 == os_block_wakeup_task(ku, t)
           s0 == Shadow(k0, g)
           su == Shadow(ku, g)
<1>1. t \in Task /\ t \in ToSet(k0.list[obj])
  <2>1. k0.list[obj] \in Seq(Task)
    BY ListNames DEF KernelState
  <2>2. t = k0.list[obj][1] /\ 1 \in DOMAIN k0.list[obj]
    BY <2>1
  <2>3. QED
    BY <2>1, <2>2 DEF ToSet
<1>2. k0.state[t] = "BLOCKING"
  BY <1>1, ShadowSame DEF Lists, WaitersBlocked
<1>3. os_block_wakeup_first_task(k0, obj) = UnlinkTick(os_rq_add_task(kb, t), t)
  BY <1>2 DEF os_block_wakeup_first_task, os_block_wakeup_task
<1> HIDE DEF t
<1>4. kb \in KernelState /\ kb.state = k0.state
  <2>1. kb \in KernelState
    BY <1>1, UnlinkSlotType
  <2>2. kb.state = k0.state
    BY DEF UnlinkSlot, KernelState
  <2>3. QED
    BY <2>1, <2>2
<1>5. os_block_wakeup_first_task(k0, obj) = os_rq_add_task(UnlinkTick(kb, t), t)
  <2> HIDE DEF kb
  <2>1. QED
    BY <1>1, <1>2, <1>3, <1>4, WakeCommutes
<1>6. UnlinkTick(kb, t) = UnlinkSlot(ku, t) /\ ku.state = k0.state
  BY DEF UnlinkTick, UnlinkSlot, KernelState
<1>7. os_block_wakeup_first_task(k0, obj) = k1
  BY <1>2, <1>5, <1>6 DEF os_block_wakeup_task
<1>8. /\ s0 \in KernelState /\ Lists(s0) /\ HighStart(s0) /\ Alike(k0, s0) /\ s0.prio = g
  BY ShadowAlike, ShadowSame
<1>9. /\ OnlyTask(s0, UnlinkTick(s0, t), t) /\ ~ TickLinked(UnlinkTick(s0, t), t)
      /\ UnlinkTick(s0, t).map = s0.map /\ UnlinkTick(s0, t).high = s0.high
      /\ UnlinkTick(s0, t).bstate = s0.bstate
  BY <1>1, <1>8, UnlinkTickLists
<1>10. /\ Alike(ku, UnlinkTick(s0, t)) /\ UnlinkTick(s0, t).prio = g
       /\ UnlinkTick(s0, t).cur = s0.cur /\ ku.prio = k0.prio /\ ku.cur = k0.cur
  <2> HIDE DEF s0
  <2>1. Alike(k0, s0) /\ t \in Task
    BY <1>1, <1>8
  <2>2. Alike(ku, UnlinkTick(s0, t))
    BY <2>1, AlikeUnlink
  <2>3. /\ UnlinkTick(s0, t).prio = s0.prio /\ UnlinkTick(s0, t).cur = s0.cur
        /\ ku.prio = k0.prio /\ ku.cur = k0.cur
    BY <2>1, AlikeUnlink
  <2>4. QED
    BY <1>8, <2>2, <2>3
<1>11. s0.cur = k0.cur
  BY ShadowSame
<1> HIDE DEF s0, ku
<1>12. su = UnlinkTick(s0, t) /\ ku \in KernelState
  BY <1>10, <1>11, AlikeShadow DEF Alike
<1> HIDE DEF su
<1>13. /\ OnlyTask(s0, su, t) /\ Lists(su) /\ HighStart(su) /\ su.bstate = s0.bstate
       /\ ~ TickLinked(ku, t) /\ ku.bstate = k0.bstate
  BY <1>8, <1>9, <1>10, <1>12 DEF OnlyTask, HighStart, Alike, TickLinked
<1>14. /\ ku.state[t] = "BLOCKING" /\ g[t] = ku.prio[t]
  BY <1>2, <1>6, <1>10 DEF t
<1>15. MadeReady(ku, k1, t, g, g) /\ k1.bstate = ku.bstate
  BY <1>1, <1>12, <1>13, <1>14, ShadowWake DEF su
<1> HIDE DEF k1
<1>16. MadeReady(k0, k1, t, g, g) /\ k1.bstate = k0.bstate
  BY <1>13, <1>15, OnlyTaskTwice DEF MadeReady, su, s0
<1>17. QED
  BY <1>1, <1>7, <1>16 DEF t

\* A new control block, before it is put in the ready queue.
NewBlock(k0, t, p) == [k0 EXCEPT !.prio[t] = p, !.state[t] = "NEW", !.slice[t] = 0]

LEMMA NewBlockLists ==
  ASSUME NEW k0 \in KernelState, Lists(k0), HighStart(k0),
         NEW t \in Task, k0.state[t] = "NONE", NEW p \in Prio
  PROVE  LET ka == NewBlock(k0, t, p)
         IN /\ ka \in KernelState /\ OnlyTask(k0, ka, t) /\ HighStart(ka)
            /\ ~ SlotLinked(ka, t) /\ ~ TickLinked(ka, t) /\ ka.state[t] = "NEW"
            /\ ka.bstate = k0.bstate /\ ka.prio[t] = p
<1> DEFINE pr == [k0.prio EXCEPT ![t] = p]
           st == [k0.state EXCEPT ![t] = "NEW"]
           sl == [k0.slice EXCEPT ![t] = 0]
           ka == [k0 EXCEPT !.prio = pr, !.state = st, !.slice = sl]
<1>1. ~ SlotLinked(k0, t) /\ ~ TickLinked(k0, t)
  BY DEF SlotLinked, List, Lists, QueuesReady, WaitersBlocked
<1>2. /\ \A u \in Task \ {t} : pr[u] = k0.prio[u] /\ st[u] = k0.state[u]
      /\ pr \in [Task -> Prio] /\ st \in [Task -> TaskState] /\ sl \in [Task -> Count]
      /\ st[t] = "NEW" /\ pr[t] = p
  BY ListNames DEF KernelState, TaskState
<1>n. NewBlock(k0, t, p) = ka
  BY DEF NewBlock
<1> HIDE DEF pr, st, sl
<1>3. /\ ka \in KernelState /\ SameSched(k0, ka) /\ ka.fault = k0.fault
      /\ ka.list = k0.list /\ ka.prio = pr /\ ka.state = st /\ ka.bstate = k0.bstate
      /\ ka.ticks = k0.ticks /\ ka.map = k0.map /\ ka.high = k0.high
      /\ ka.tsPrio = k0.tsPrio /\ ka.tsNode = k0.tsNode
  BY <1>2 DEF KernelState, SameSched
<1> HIDE DEF ka
<1>5. Lists(ka)
  <2>1. \A u : TickLinked(ka, u) <=> TickLinked(k0, u)
    BY <1>3 DEF TickLinked
  <2>2. \A l \in List : t \notin ToSet(k0.list[l]) /\ ToSet(k0.list[l]) \subseteq Task
    BY <1>1, TasksOfList DEF SlotLinked
  <2>3. Unique(ka) /\ MapExact(ka) /\ PositionKept(ka)
    BY <1>3 DEF Lists, Unique, MapExact, PositionKept
  <2>4. QueuesReady(ka)
    BY <1>2, <1>3, <2>2, ListNames DEF Lists, QueuesReady
  <2>5. \A o \in Object : \A u \in ToSet(ka.list[o]) : ka.state[u] = "BLOCKING"
    BY <1>2, <1>3, <2>2, ListNames DEF Lists, WaitersBlocked
  <2>6. \A u \in Task : TickLinked(ka, u) => ka.state[u] = "BLOCKING"
    BY <1>1, <1>2, <1>3, <2>1 DEF Lists, WaitersBlocked
  <2>7. \A u \in ToSet(ka.list[SysBlock]) : ~ TickLinked(ka, u)
    BY <1>3, <2>1 DEF Lists, WaitersBlocked
  <2>8. QED
    BY <2>3, <2>4, <2>5, <2>6, <2>7 DEF Lists, WaitersBlocked
<1>6. OnlyTask(k0, ka, t)
  BY <1>2, <1>3, <1>5 DEF OnlyTask, Untouched, TickLinked
<1>7. HighStart(ka) /\ ~ SlotLinked(ka, t) /\ ~ TickLinked(ka, t)
  BY <1>1, <1>2, <1>3 DEF HighStart, SlotLinked, TickLinked
<1>8. QED
  BY <1>n, <1>2, <1>3, <1>6, <1>7

-----------------------------------------------------------------------------
(* os_task_create, os_add_tick_task, and what leaves the lists alone.      *)

LEMMA ShadowNew ==
  ASSUME NEW k0 \in KernelState, NEW g \in [Task -> Prio], NEW t \in Task, NEW p \in Prio
  PROVE  Shadow(NewBlock(k0, t, p), [g EXCEPT ![t] = p]) = NewBlock(Shadow(k0, g), t, p)
<1> DEFINE st == [k0.state EXCEPT ![t] = "NEW"]
           sl == [k0.slice EXCEPT ![t] = 0]
           pr == [k0.prio EXCEPT ![t] = p]
           g1 == [g EXCEPT ![t] = p]
           s0 == Shadow(k0, g)
           kn == NewBlock(k0, t, p)
           sn == NewBlock(s0, t, p)
<1>1. kn = [k0 EXCEPT !.prio = pr, !.state = st, !.slice = sl]
  BY DEF NewBlock
<1>2. s0 = [k0 EXCEPT !.prio = g] /\ s0.prio = g /\ s0.state = k0.state /\ s0.slice = k0.slice
  BY DEF Shadow, KernelState
<1>3. sn = [s0 EXCEPT !.prio = g1, !.state = st, !.slice = sl]
  BY <1>2 DEF NewBlock
<1> HIDE DEF st, sl, pr, g1, s0, kn, sn
<1>4. Shadow(kn, g1) = sn
  BY <1>1, <1>2, <1>3 DEF Shadow, KernelState
<1>5. QED
  BY <1>4 DEF kn, sn, s0, g1

\* os_task_create, for a control block that has not been used.
LEMMA ShadowCreate ==
  ASSUME NEW k0 \in KernelState, NEW g \in [Task -> Prio], NEW t \in Task, NEW p \in Prio,
         Lists(Shadow(k0, g)), HighStart(Shadow(k0, g)), k0.state[t] = "NONE",
         NEW g1, g1 = [g EXCEPT ![t] = p]
  PROVE  LET k1 == os_task_create(k0, t, p)
         IN /\ MadeReady(k0, k1, t, g, g1) /\ k1.bstate = k0.bstate
            /\ k1.prio[t] = p
<1> DEFINE s0 == Shadow(k0, g)
           kn == NewBlock(k0, t, p)
           sn == Shadow(kn, g1)
           s == Placed(kn, g1, t)
           s1 == os_rq_add_task(s, t)
           k1 == os_rq_add_task(kn, t)
<1>0. os_task_create(k0, t, p) = k1
  BY DEF os_task_create, NewBlock
<1>1. /\ s0 \in KernelState /\ Lists(s0) /\ HighStart(s0) /\ s0.state[t] = "NONE"
      /\ s0.bstate = k0.bstate
  BY ShadowSame
<1>2. sn = NewBlock(s0, t, p)
  BY ShadowNew
<1>3. kn \in KernelState /\ kn.prio[t] = p /\ kn.bstate = k0.bstate
  <2> DEFINE st == [k0.state EXCEPT ![t] = "NEW"]
             sl == [k0.slice EXCEPT ![t] = 0]
             pr == [k0.prio EXCEPT ![t] = p]
  <2>1. /\ pr \in [Task -> Prio] /\ st \in [Task -> TaskState] /\ sl \in [Task -> Count]
        /\ pr[t] = p
    BY ListNames DEF KernelState, TaskState
  <2>2. kn = [k0 EXCEPT !.prio = pr, !.state = st, !.slice = sl]
    BY DEF NewBlock
  <2> HIDE DEF st, sl, pr, kn
  <2>3. QED
    BY <2>1, <2>2 DEF KernelState
<1>4. g1 \in [Task -> Prio] /\ g1[t] = p
  OBVIOUS
<1> HIDE DEF s0, kn
<1>5. /\ sn \in KernelState /\ OnlyTask(s0, sn, t) /\ Lists(sn) /\ HighStart(sn)
      /\ ~ SlotLinked(sn, t) /\ ~ TickLinked(sn, t) /\ sn.state[t] = "NEW"
  <2> HIDE DEF sn
  <2>1. /\ sn \in KernelState /\ OnlyTask(s0, sn, t) /\ HighStart(sn)
        /\ ~ SlotLinked(sn, t) /\ ~ TickLinked(sn, t) /\ sn.state[t] = "NEW"
    BY <1>1, <1>2, NewBlockLists
  <2>2. QED
    BY <2>1 DEF OnlyTask
<1>6. Alike(kn, s) /\ s.prio = g1 /\ Lists(s) /\ HighStart(s) /\ SamePlace(kn, s, t)
  <2>1. kn \in KernelState /\ g1 \in [Task -> Prio] /\ g1[t] = kn.prio[t]
    BY <1>3, <1>4
  <2>2. Lists(Shadow(kn, g1)) /\ HighStart(Shadow(kn, g1))
    BY <1>5
  <2> HIDE DEF sn
  <2>3. QED
    BY <2>1, <2>2, PlacedFacts
<1>7. Alike(kn, sn)
  BY <1>3, <1>4, ShadowAlike
<1> HIDE DEF s, sn
<1>8. s \in KernelState /\ ~ SlotLinked(s, t) /\ ~ TickLinked(s, t) /\ s.state[t] # "READY"
  BY <1>5, <1>6, <1>7 DEF Alike, SlotLinked, TickLinked
<1>9. /\ OnlyTask(s, s1, t) /\ s1.map # {} /\ s1.prio = s.prio /\ s1.bstate = s.bstate
      /\ s1.ticks = s.ticks /\ s1.state[t] = "READY" /\ t \in ToSet(s1.list[s1.prio[t]])
  BY <1>6, <1>8, AddTaskLists
<1>10. Alike(k1, s1) /\ k1.cur = kn.cur
  BY <1>6, <1>3, <1>4, AlikeAdd DEF SamePlace
<1>11. Keeps(kn, k1)
  BY <1>3, KeepsAddTask
<1> HIDE DEF s1, k1
<1>12. OnlyTask(Shadow(kn, g1), Shadow(k1, g1), t)
  BY <1>6, <1>9, <1>10, ShadowOnly
<1>13. OnlyTask(s0, Shadow(k1, g1), t)
  BY <1>5, <1>12, OnlyTaskTwice DEF sn
<1>14. MadeReady(k0, k1, t, g, g1)
  BY <1>6, <1>8, <1>9, <1>10, <1>13 DEF Alike, MadeReady, TickLinked, s0
<1>15. k1.bstate = k0.bstate /\ k1.prio[t] = p
  BY <1>3, <1>6, <1>9, <1>10, <1>11 DEF Alike, Keeps
<1>16. QED
  BY <1>0, <1>14, <1>15

\* os_add_tick_task for a task that waits for an object.
LEMMA ShadowTake ==
  ASSUME NEW k0 \in KernelState, NEW g \in [Task -> Prio], NEW t \in Task,
         Lists(Shadow(k0, g)), NEW n \in Count \cup {Never}, NEW obj \in Object \ {SysBlock},
         k0.state[t] # "BLOCKING",
         \A u \in Task : u = t \/ TickLinked(k0, u) \/ u \in ToSet(k0.list[obj])
                           => g[u] = k0.prio[u]
  PROVE  LET k1 == os_add_tick_task(k0, t, n, obj)
         IN /\ k1 \in KernelState /\ OnlyTask(Shadow(k0, g), Shadow(k1, g), t)
            /\ k1.state[t] = "BLOCKING" /\ t \in ToSet(k1.list[obj])
            /\ k1.bstate[t] \in {"TICKING", k0.bstate[t]}
<1> DEFINE s == Shadow(k0, g)
           s1 == os_add_tick_task(s, t, n, obj)
           k1 == os_add_tick_task(k0, t, n, obj)
<1>1. /\ s \in KernelState /\ Lists(s) /\ Alike(k0, s) /\ s.prio = g /\ s.cur = k0.cur
      /\ s.state[t] # "BLOCKING" /\ s.bstate = k0.bstate /\ s.list = k0.list
      /\ \A u : TickLinked(s, u) <=> TickLinked(k0, u)
  BY ShadowAlike, ShadowSame
<1> HIDE DEF s
<1>2. \A u \in Task : u = t \/ TickLinked(s, u) \/ u \in ToSet(s.list[obj])
                        => s.prio[u] = k0.prio[u]
  BY <1>1
<1>3. obj \in Object
  OBVIOUS
<1>4. Alike(k1, s1) /\ s1.prio = s.prio /\ s1.cur = s.cur /\ k1.cur = k0.cur
  BY <1>1, <1>2, <1>3, AlikeAddTick
<1>5. /\ OnlyTask(s, s1, t) /\ s1.state[t] = "BLOCKING" /\ t \in ToSet(s1.list[obj])
      /\ n # Never => s1.bstate[t] = "TICKING"
      /\ n = Never => s1.bstate[t] = s.bstate[t]
  BY <1>1, TakeWaits
<1> HIDE DEF s1, k1
<1>6. OnlyTask(Shadow(k0, g), Shadow(k1, g), t)
  BY <1>1, <1>4, <1>5, ShadowOnly
<1>7. /\ k1 \in KernelState /\ k1.state[t] = "BLOCKING" /\ t \in ToSet(k1.list[obj])
      /\ k1.bstate[t] \in {"TICKING", k0.bstate[t]}
  BY <1>1, <1>4, <1>5 DEF Alike
<1>8. QED
  BY <1>6, <1>7 DEF k1

LEMMA ShadowSet ==
  ASSUME NEW k0 \in KernelState, NEW g \in [Task -> Prio], NEW t \in Task, NEW b \in BlockState,
         Lists(Shadow(k0, g))
  PROVE  LET k1 == [k0 EXCEPT !.bstate[t] = b]
         IN /\ k1 \in KernelState /\ OnlyTask(Shadow(k0, g), Shadow(k1, g), t)
            /\ k1.bstate[t] = b /\ k1.state = k0.state /\ k1.list = k0.list
            /\ k1.map = k0.map /\ k1.high = k0.high /\ k1.prio = k0.prio
            /\ \A u : TickLinked(k1, u) <=> TickLinked(k0, u)
<1> DEFINE s == Shadow(k0, g)
           s1 == [s EXCEPT !.bstate[t] = b]
           k1 == [k0 EXCEPT !.bstate[t] = b]
<1>1. s \in KernelState /\ Lists(s) /\ Alike(k0, s) /\ s.prio = g /\ s.cur = k0.cur
  BY ShadowAlike, ShadowSame
<1> HIDE DEF s
<1>2. Alike(k1, s1) /\ s1.prio = s.prio /\ k1.cur = k0.cur /\ k1.prio = k0.prio
  BY <1>1, AlikeSet
<1>3. /\ OnlyTask(s, s1, t) /\ s1.bstate[t] = b /\ s1.state = s.state /\ s1.list = s.list
      /\ s1.ticks = s.ticks /\ s1.map = s.map /\ s1.high = s.high
  BY <1>1, SetBState
<1> HIDE DEF s1, k1
<1>4. OnlyTask(Shadow(k0, g), Shadow(k1, g), t)
  BY <1>1, <1>2, <1>3, ShadowOnly
<1>5. /\ k1 \in KernelState /\ k1.bstate[t] = b /\ k1.state = k0.state /\ k1.list = k0.list
      /\ k1.map = k0.map /\ k1.high = k0.high
      /\ \A u : TickLinked(k1, u) <=> TickLinked(k0, u)
  BY <1>1, <1>2, <1>3 DEF Alike, TickLinked
<1>6. QED
  BY <1>2, <1>4, <1>5 DEF k1

\* os_block_wakeup_all_task: what has become of the tasks in q, and of the others.
Woken(k0, k1, g, q) ==
  /\ k1 \in KernelState /\ k1.prio = k0.prio /\ k1.bstate = k0.bstate
  /\ Lists(Shadow(k1, g)) /\ HighStart(Shadow(k1, g))
  /\ SameSched(Shadow(k0, g), Shadow(k1, g)) /\ k1.fault = k0.fault
  /\ \A u \in Task :
       IF u \in q
         THEN k1.state[u] = "READY" /\ ~ TickLinked(k1, u) /\ u \in ToSet(k1.list[g[u]])
         ELSE Untouched(Shadow(k0, g), Shadow(k1, g), u)

\* One task more.
LEMMA WokenMore ==
  ASSUME NEW k0 \in KernelState, NEW g \in [Task -> Prio], NEW q \in SUBSET Task, NEW k1,
         Woken(k0, k1, g, q), NEW t \in Task, t \notin q, g[t] = k0.prio[t],
         k0.state[t] = "BLOCKING", ~ TickLinked(k0, t)
  PROVE  Woken(k0, os_block_wakeup_task(k1, t), g, q \cup {t})
<1> DEFINE k2 == os_block_wakeup_task(k1, t)
           s0 == Shadow(k0, g)
           s1 == Shadow(k1, g)
           s2 == Shadow(k2, g)
<1>1. /\ k1 \in KernelState /\ k1.prio = k0.prio /\ k1.bstate = k0.bstate
      /\ Lists(s1) /\ HighStart(s1) /\ SameSched(s0, s1) /\ k1.fault = k0.fault
      /\ Untouched(s0, s1, t)
  BY DEF Woken
<1>2. k1.state[t] = "BLOCKING" /\ ~ TickLinked(k1, t)
  BY <1>1, ShadowSame DEF Untouched
<1>3. MadeReady(k1, k2, t, g, g) /\ k2.bstate = k1.bstate
  BY <1>1, <1>2, ShadowWake
<1>4. k2.prio = k1.prio
  BY <1>1, KeepsWakeup DEF Keeps
<1> HIDE DEF k2
<1>5. k2 \in KernelState /\ OnlyTask(s1, s2, t) /\ k2.map # {}
  BY <1>3 DEF MadeReady
<1>6. k2.fault = k1.fault /\ HighStart(s2)
  BY <1>1, <1>5, ShadowSame DEF OnlyTask, HighStart
<1>7. SameSched(s0, s2) /\ Lists(s2)
  BY <1>1, <1>5 DEF OnlyTask, SameSched
<1>8. ASSUME NEW u \in Task
      PROVE  IF u \in q \cup {t}
               THEN k2.state[u] = "READY" /\ ~ TickLinked(k2, u) /\ u \in ToSet(k2.list[g[u]])
               ELSE Untouched(s0, s2, u)
  <2>1. CASE u = t
    BY <1>3, <2>1 DEF MadeReady
  <2>2. CASE u # t
    <3>1. Untouched(s1, s2, u)
      BY <1>5, <2>2 DEF OnlyTask
    <3>2. CASE u \notin q
      <4>1. Untouched(s0, s1, u)
        BY <3>2 DEF Woken
      <4>2. QED
        BY <2>2, <3>1, <3>2, <4>1 DEF Untouched
    <3>3. CASE u \in q
      <4>0. k1.state[u] = "READY" /\ ~ TickLinked(k1, u) /\ u \in ToSet(k1.list[g[u]])
        BY <3>3 DEF Woken
      <4>1. g[u] \in List
        BY ListNames
      <4>2. /\ s1.state = k1.state /\ s2.state = k2.state /\ s1.list = k1.list
            /\ s2.list = k2.list /\ (TickLinked(s1, u) <=> TickLinked(k1, u))
            /\ (TickLinked(s2, u) <=> TickLinked(k2, u))
        BY <1>1, <1>5, ShadowSame
      <4>3. QED
        BY <3>1, <3>3, <4>0, <4>1, <4>2 DEF Untouched
    <3>4. QED
      BY <3>2, <3>3
  <2>3. QED
    BY <2>1, <2>2
<1>9. Woken(k0, k2, g, q \cup {t})
  BY <1>1, <1>3, <1>4, <1>5, <1>6, <1>7, <1>8 DEF Woken
<1>10. QED
  BY <1>9 DEF k2

LEMMA WokenAll ==
  ASSUME NEW k0 \in KernelState, NEW g \in [Task -> Prio], NEW obj \in Object,
         Lists(Shadow(k0, g)), HighStart(Shadow(k0, g)),
         \A u \in ToSet(k0.list[obj]) : ~ TickLinked(k0, u) /\ g[u] = k0.prio[u]
  PROVE  LET k1 == os_block_wakeup_all_task(k0, obj)
         IN Woken(k0, k1, g, ToSet(k0.list[obj])) /\ k1.list[obj] = <<>>
<1> DEFINE q == k0.list[obj]
           n == Len(q)
           Rec(w, i) == IF i = 0 THEN k0 ELSE os_block_wakeup_task(w[i - 1], q[i])
           c == CHOOSE w : w = [i \in 0..n |-> Rec(w, i)]
<1>1. q \in Seq(Task) /\ n \in Nat /\ q \in [1..n -> Task]
  <2>1. q \in Seq(Task)
    BY ListNames DEF KernelState
  <2> HIDE DEF q
  <2>2. QED
    BY <2>1
<1>2. PICK w \in [0..n -> KernelState] :
        \A i \in 0..n : w[i] = IF i = 0 THEN k0 ELSE os_block_wakeup_task(w[i - 1], q[i])
  <2> HIDE DEF q, n
  <2>1. QED
    BY ZenonT(30), <1>1, WokenExist
<1>3. w = [i \in 0..n |-> Rec(w, i)]
  BY <1>2
<1>4. c = [i \in 0..n |-> Rec(c, i)]
  BY <1>3
<1>5. os_block_wakeup_all_task(k0, obj) = c[n]
  BY DEF os_block_wakeup_all_task
<1>6. /\ IsInjective(q)
      /\ \A u \in ToSet(q) : k0.state[u] = "BLOCKING" /\ ~ TickLinked(k0, u) /\ g[u] = k0.prio[u]
  BY ShadowSame, ListNames DEF Lists, Unique, WaitersBlocked
<1>7. DOMAIN q = 1..n /\ ToSet(q) \subseteq Task
  BY <1>1 DEF ToSet
<1> HIDE DEF c, q
<1> DEFINE Ahead(m) == {q[j] : j \in 1..m}
           Odd == {m \in 0..n : ~ Woken(k0, c[m], g, Ahead(m))}
<1>8. Odd = {}
  <2> SUFFICES ASSUME Odd # {} PROVE FALSE
    OBVIOUS
  <2>1. PICK m \in Odd : \A y \in Odd : m <= y
    <3>1. Odd \subseteq Nat
      OBVIOUS
    <3> HIDE DEF Odd
    <3>2. QED
      BY <3>1, MinOfNats
  <2>2. m \in 0..n /\ c[m] = Rec(c, m)
    BY <1>4, <2>1
  <2>3. CASE m = 0
    <3>1. c[m] = k0
      BY <2>2, <2>3
    <3>2. Woken(k0, k0, g, Ahead(m))
      BY DEF Woken, SameSched, Untouched
    <3>3. QED
      BY <2>1, <3>1, <3>2
  <2>4. CASE m # 0
    <3>0. Odd \subseteq 0..n
      OBVIOUS
    <3>1. m - 1 \in 0..n /\ m - 1 \notin Odd /\ m \in 1..n
      <4> HIDE DEF Odd
      <4>1. QED
        BY <1>1, <2>1, <2>4, <3>0
    <3>2. Woken(k0, c[m - 1], g, Ahead(m - 1))
      BY <3>1
    <3>3. c[m] = os_block_wakeup_task(c[m - 1], q[m])
      BY <2>2, <2>4
    <3>4. q[m] \in Task /\ q[m] \in ToSet(q) /\ Ahead(m - 1) \subseteq Task
      BY <1>1, <1>7, <3>1 DEF ToSet
    <3>5. q[m] \notin Ahead(m - 1)
      <4> SUFFICES ASSUME NEW j \in 1..(m - 1), q[j] = q[m] PROVE FALSE
        OBVIOUS
      <4>1. j \in DOMAIN q /\ m \in DOMAIN q /\ j # m
        BY <1>1, <1>7, <3>1
      <4>2. QED
        BY <1>6, <4>1 DEF IsInjective
    <3>6. Ahead(m) = Ahead(m - 1) \cup {q[m]}
      <4>1. 1..m = 1..(m - 1) \cup {m}
        BY <3>1
      <4>2. QED
        BY <4>1
    <3> HIDE DEF Ahead
    <3>7. Woken(k0, c[m], g, Ahead(m - 1) \cup {q[m]})
      BY <1>6, <3>2, <3>3, <3>4, <3>5, WokenMore
    <3>8. QED
      BY <2>1, <3>6, <3>7
  <2>5. QED
    BY <2>3, <2>4
<1> DEFINE k1 == c[n]
<1>9. Woken(k0, k1, g, ToSet(q))
  <2>1. n \in 0..n /\ Ahead(n) = ToSet(q)
    BY <1>1, <1>7 DEF ToSet
  <2>2. QED
    BY <1>8, <2>1
<1> HIDE DEF k1
<1>10. k1.list[obj] = <<>>
  <2>1. k1 \in KernelState /\ Lists(Shadow(k1, g)) /\ obj \in List
    BY <1>9, ListNames DEF Woken
  <2>2. k1.list[obj] \in Seq(Task) /\ ToSet(k1.list[obj]) \subseteq Task
    BY <2>1, TasksOfList DEF KernelState
  <2>3. ASSUME NEW u \in ToSet(k1.list[obj]) PROVE FALSE
    <3>1. u \in Task /\ k1.state[u] = "BLOCKING"
      BY <2>1, <2>2, ShadowSame DEF Lists, WaitersBlocked
    <3>2. u \notin ToSet(q) /\ Untouched(Shadow(k0, g), Shadow(k1, g), u)
      BY <1>9, <3>1 DEF Woken
    <3>3. u \in ToSet(q)
      <4>1. Shadow(k0, g).list = k0.list /\ Shadow(k1, g).list = k1.list
        BY <2>1, ShadowSame
      <4>2. u \in ToSet(k0.list[obj])
        BY <2>1, <3>2, <4>1 DEF Untouched
      <4>3. QED
        BY <4>2 DEF q
    <3>4. QED
      BY <3>2, <3>3
  <2>4. QED
    BY <2>2, <2>3, EmptySet
<1>11. QED
  BY <1>5, <1>9, <1>10 DEF k1, q

-----------------------------------------------------------------------------
(* The tasks that wait for the mutex.                                      *)

\* What the application may do: a task whose priority the mutex may have raised is
\* not taken out of its ready queue by anything but a wait for the mutex.
MutexClient == ~ Careless /\ Calls \cap {"delay", "exit", "suspend", "resume", "lock"} = {}

\* The kernel's memory with every task at the priority it was given.
Given == Shadow(k, given)

ListsInv ==
  /\ Safe(Given, alive) /\ k.lock = 0 /\ ~ k.fault
  /\ running => Idle \in alive
  /\ ~ running => \A t \in Task \ alive : k.state[t] = "NONE"
  /\ irq = "sw" \/ swEnabled => running

Queue == ToSet(k.list[Mutex])

\* What can be left of a call of such an application.
Left(w) == Shape(w) /\ \A i \in DOMAIN w : w[i] \notin {"delayRet", "gone"}

\* A call that waits, and only such a call, has its end before it.
WaitersInv ==
  /\ \A t \in Task : Left(todo[t])
  /\ \A u \in Queue : Awaits(todo[u]) /\ u # owner /\ k.bstate[u] # "TIMEOUT"
  /\ \A u \in Task : k.state[u] = "BLOCKING" => u \in Queue
  /\ \A u \in Task : k.bstate[u] = "TIMEOUT" => Awaits(todo[u])

WaitInv == MutexInv /\ ListsInv /\ WaitersInv /\ NoWaiterForgotten

\* Task v waits or does not wait, as before.
SameWait(v) ==
  /\ v \in Queue' <=> v \in Queue
  /\ k'.state[v] = "BLOCKING" <=> k.state[v] = "BLOCKING"
  /\ k'.bstate[v] = "TIMEOUT" <=> k.bstate[v] = "TIMEOUT"
  /\ Awaits(todo'[v]) <=> Awaits(todo[v])

\* It waits no longer, and has still to notice.
EndedWait(v) ==
  v \in Queue /\ v \notin Queue' /\ k'.state[v] # "BLOCKING" /\ Awaits(todo'[v])

\* It has noticed.
LeftWait(v) == v \notin Queue' /\ k'.state[v] # "BLOCKING" /\ k'.bstate[v] # "TIMEOUT"

\* It begins to wait.
BeginsWait(v) ==
  v \in Queue' /\ v # owner' /\ k'.bstate[v] # "TIMEOUT" /\ Awaits(todo'[v])

LEMMA WaitParts ==
  ASSUME WaitInv
  PROVE  /\ k \in KernelState /\ given \in [Task -> Prio] /\ alive \subseteq Task
         /\ todo \in [Task -> Seq(Step)] /\ owner \in Task \cup {NULL}
         /\ TypeInv /\ MutexTypeInv /\ PrioInv
         /\ Lists(Given) /\ HighStart(Given) /\ Given.state[Idle] # "BLOCKING"
         /\ Queue \subseteq Task /\ Mutex \in Object /\ Mutex \in List /\ Mutex # SysBlock
BY MutexParts, MutexFacts, MutexAssumption, TasksOfList
   DEF WaitInv, MutexInv, ListsInv, Safe, Queue

LEMMA NewQueue ==
  ASSUME MutexInv'
  PROVE  /\ k' \in KernelState /\ Queue' \subseteq Task
         /\ k'.list[Mutex] = <<>> <=> Queue' = {}
<1>1. k' \in KernelState
  BY DEF MutexInv, MutexTypeInv, TypeInv, TypeOK
<1>2. k'.list[Mutex] \in Seq(Task) /\ ToSet(k'.list[Mutex]) \subseteq Task
  BY <1>1, MutexFacts, TasksOfList
<1>3. k'.list[Mutex] = <<>> <=> ToSet(k'.list[Mutex]) = {}
  BY <1>2, EmptySet
<1>4. QED
  BY <1>1, <1>2, <1>3 DEF Queue

LEMMA QueueBlocked ==
  ASSUME WaitInv, NEW u \in Task
  PROVE  /\ u \in Queue <=> k.state[u] = "BLOCKING"
         /\ TickLinked(k, u) => u \in Queue
         /\ u \in Queue => k.prio[u] = given[u]
<1>1. /\ Given.state = k.state /\ Given.list = k.list
      /\ TickLinked(Given, u) <=> TickLinked(k, u)
  BY WaitParts, ShadowSame DEF Given
<1>2. /\ u \in Queue => k.state[u] = "BLOCKING"
      /\ TickLinked(k, u) => k.state[u] = "BLOCKING"
  BY <1>1, WaitParts DEF Lists, WaitersBlocked, Queue
<1>3. k.state[u] = "BLOCKING" => u \in Queue
  BY DEF WaitInv, WaitersInv
<1>4. u \in Queue => k.prio[u] = given[u]
  BY WaitParts DEF WaitInv, WaitersInv, PrioInv
<1>5. QED
  BY <1>2, <1>3, <1>4

LEMMA WaitersStep ==
  ASSUME WaitInv, MutexInv',
         \A v \in Task : Left(todo'[v]),
         \A v \in Task : SameWait(v) \/ EndedWait(v) \/ LeftWait(v) \/ BeginsWait(v),
         owner' \in {owner, NULL} \/ owner' \notin Queue
  PROVE  WaitersInv'
<1>1. Queue' \subseteq Task
  BY NewQueue
<1>2. ASSUME NEW u \in Queue'
      PROVE  Awaits(todo'[u]) /\ u # owner' /\ k'.bstate[u] # "TIMEOUT"
  <2>1. u \in Task /\ u # NULL
    BY <1>1, ListNames
  <2>2. SameWait(u) => u \in Queue /\ u # owner /\ Awaits(todo[u]) /\ k.bstate[u] # "TIMEOUT"
    BY DEF SameWait, WaitInv, WaitersInv
  <2>3. QED
    BY <2>1, <2>2 DEF SameWait, EndedWait, LeftWait, BeginsWait
<1>3. ASSUME NEW u \in Task, k'.state[u] = "BLOCKING" PROVE u \in Queue'
  BY <1>3 DEF SameWait, EndedWait, LeftWait, BeginsWait, WaitInv, WaitersInv
<1>4. ASSUME NEW u \in Task, k'.bstate[u] = "TIMEOUT" PROVE Awaits(todo'[u])
  BY <1>4 DEF SameWait, EndedWait, LeftWait, BeginsWait, WaitInv, WaitersInv
<1>5. QED
  BY <1>2, <1>3, <1>4 DEF WaitersInv

LEMMA ForgotStep ==
  ASSUME WaitInv, MutexInv', owner' = owner,
         \A v \in Task : SameWait(v) \/ EndedWait(v) \/ (~ OnItsWay(v) /\ v \notin Queue')
  PROVE  NoWaiterForgotten'
<1>1. /\ Queue' \subseteq Task /\ (k'.list[Mutex] = <<>> <=> Queue' = {})
      /\ (k.list[Mutex] = <<>> <=> Queue = {})
  <2>1. k.list[Mutex] \in Seq(Task)
    BY WaitParts, TasksOfList
  <2>2. k.list[Mutex] = <<>> <=> Queue = {}
    BY <2>1, EmptySet DEF Queue
  <2>3. QED
    BY <2>2, NewQueue
<1>2. SUFFICES ASSUME Waits', owner' = NULL PROVE \E t \in Task : OnItsWay(t)'
  BY DEF NoWaiterForgotten
<1>3. PICK u \in Queue' : u \in Task
  BY <1>1, <1>2 DEF Waits
<1>4. u \in Queue
  BY <1>3 DEF SameWait, EndedWait
<1>5. PICK v \in Task : OnItsWay(v)
  BY <1>1, <1>2, <1>4 DEF WaitInv, NoWaiterForgotten, Waits
<1>6. v \notin Queue
  BY <1>5, QueueBlocked DEF OnItsWay
<1>7. SameWait(v)
  BY <1>5, <1>6 DEF EndedWait
<1>8. OnItsWay(v)'
  BY <1>5, <1>7 DEF SameWait, OnItsWay, Awaits
<1>9. QED
  BY <1>8

-----------------------------------------------------------------------------
(* What a step means for the tasks that wait.                              *)

\* What the mutex sees of task v's wait is the same in two memories.
SameSeen(k0, k1, v) ==
  /\ v \in ToSet(k1.list[Mutex]) <=> v \in ToSet(k0.list[Mutex])
  /\ k1.state[v] = "BLOCKING" <=> k0.state[v] = "BLOCKING"
  /\ k1.bstate[v] = "TIMEOUT" <=> k0.bstate[v] = "TIMEOUT"

LEMMA SeenStays ==
  ASSUME NEW k0, NEW k1, Stays(k0, k1), NEW v \in Task PROVE SameSeen(k0, k1, v)
BY DEF Stays, SameTasks, SameSeen

LEMMA SeenOnly ==
  ASSUME NEW k0, NEW k1, NEW u, OnlyTask(k0, k1, u), NEW v \in Task \ {u}
  PROVE  SameSeen(k0, k1, v)
BY MutexFacts DEF OnlyTask, Untouched, SameSeen

LEMMA SeenTwice ==
  ASSUME NEW k0, NEW k1, NEW k2, NEW v, SameSeen(k0, k1, v), SameSeen(k1, k2, v)
  PROVE  SameSeen(k0, k2, v)
BY DEF SameSeen

\* What is left of the calls, when the tasks that wait are the same.
CallsKept ==
  \A v \in Task : Left(todo'[v]) /\ (Awaits(todo'[v]) <=> Awaits(todo[v]))

LEMMA NextGiven ==
  ASSUME MutexInv'
  PROVE  /\ k' \in KernelState /\ given' \in [Task -> Prio] /\ Given' = Shadow(k', given')
         /\ alive' \subseteq Task
BY DEF MutexInv, MutexTypeInv, TypeInv, TypeOK, Given

LEMMA SeenWait ==
  ASSUME WaitInv, MutexInv', NEW v \in Task, SameSeen(Given, Given', v),
         Awaits(todo'[v]) <=> Awaits(todo[v])
  PROVE  SameWait(v)
<1>1. Given.list = k.list /\ Given.state = k.state /\ Given.bstate = k.bstate
  BY WaitParts, ShadowSame DEF Given
<1>2. /\ Shadow(k', given').list = k'.list /\ Shadow(k', given').state = k'.state
      /\ Shadow(k', given').bstate = k'.bstate
  BY NextGiven, ShadowSame
<1>3. /\ v \in ToSet(k'.list[Mutex]) <=> v \in ToSet(k.list[Mutex])
      /\ k'.state[v] = "BLOCKING" <=> k.state[v] = "BLOCKING"
      /\ k'.bstate[v] = "TIMEOUT" <=> k.bstate[v] = "TIMEOUT"
  BY <1>1, <1>2, NextGiven DEF SameSeen
<1>4. QED
  BY <1>3 DEF SameWait, Queue

\* A step that changes neither the owner nor what the calls still have to do.
LEMMA PlainStep ==
  ASSUME WaitInv, MutexInv', ListsInv', CallsKept, owner' = owner,
         \A v \in Task : SameWait(v) \/ EndedWait(v)
  PROVE  WaitInv'
<1>1. NoWaiterForgotten'
  BY ForgotStep
<1>2. \A v \in Task : Left(todo'[v])
  BY DEF CallsKept
<1>3. WaitersInv'
  BY <1>2, WaitersStep
<1>4. QED
  BY <1>1, <1>3 DEF WaitInv

\* It moves no task.
LEMMA QuietStep ==
  ASSUME WaitInv, MutexInv', CallsKept, owner' = owner, Stays(Given, Given'),
         running, UNCHANGED <<running, alive>>
  PROVE  WaitInv'
<1>1. Given' = Shadow(k', given') /\ k'.lock = k.lock /\ k'.fault = k.fault
  <2>1. Given.lock = k.lock /\ Given.fault = k.fault
    BY WaitParts, ShadowSame DEF Given
  <2>2. Shadow(k', given').lock = k'.lock /\ Shadow(k', given').fault = k'.fault
    BY NextGiven, ShadowSame
  <2>3. QED
    BY <2>1, <2>2, NextGiven DEF Stays
<1>2. /\ Safe(Given, alive) /\ alive \subseteq Task /\ Given.lock = 0 /\ k.lock = 0 /\ ~ k.fault
      /\ running => Idle \in alive
  BY WaitParts, ShadowSame DEF WaitInv, ListsInv, Given
<1>3. Safe(Given', alive')
  BY <1>2, SafeStays
<1>4. ListsInv'
  BY <1>1, <1>2, <1>3 DEF ListsInv
<1>5. \A v \in Task : SameWait(v)
  BY SeenStays, SeenWait DEF CallsKept
<1>6. QED
  BY <1>4, <1>5, PlainStep

\* Safe survives the move of a task that does not end up waiting.
LEMMA SafeReady ==
  ASSUME NEW k0 \in KernelState, NEW k1, NEW u \in Task, NEW g \in [Task -> Prio],
         NEW g1 \in [Task -> Prio], NEW tasks, NEW tasks1,
         Safe(Shadow(k0, g), tasks), MadeReady(k0, k1, u, g, g1), tasks \subseteq Task,
         tasks1 \subseteq tasks \cup {u}
  PROVE  Safe(Shadow(k1, g1), tasks1)
<1> DEFINE s0 == Shadow(k0, g)
           s1 == Shadow(k1, g1)
<1>1. /\ OnlyTask(s0, s1, u) /\ k1 \in KernelState /\ k1.map # {} /\ k1.state[u] = "READY"
      /\ u \in ToSet(k1.list[g1[u]])
  BY DEF MadeReady
<1>2. s0 \in KernelState
  BY ShadowSame
<1>3. /\ s1 \in KernelState /\ s1.map # {} /\ s1.state[u] = "READY"
      /\ u \in ToSet(s1.list[s1.prio[u]])
  BY <1>1, ShadowSame
<1> HIDE DEF s0, s1
<1>4. HighStart(s1) /\ Findable(s1, u) /\ s1.state[u] # "BLOCKING"
  BY <1>3 DEF HighStart, Findable
<1>5. Safe(s0, tasks)
  BY DEF s0
<1>6. Safe(s1, tasks1)
  BY <1>1, <1>2, <1>3, <1>4, <1>5, SafeOneTask
<1>7. QED
  BY <1>6 DEF s1

\* It makes one task ready.
LEMMA ReadyEffect ==
  ASSUME WaitInv, MutexInv', CallsKept, NEW u \in Task,
         MadeReady(k, k', u, given, given'), alive' \subseteq alive \cup {u},
         alive \subseteq alive', running, running' = running,
         u \in Queue \/ k'.bstate[u] = k.bstate[u]
  PROVE  ListsInv' /\ \A v \in Task : SameWait(v) \/ EndedWait(v)
<1>1. /\ Given' = Shadow(k', given') /\ Given = Shadow(k, given) /\ k' \in KernelState
      /\ given' \in [Task -> Prio] /\ given \in [Task -> Prio] /\ k \in KernelState
  BY NextGiven, WaitParts DEF Given
<1>2. OnlyTask(Given, Given', u) /\ k'.state[u] = "READY"
  BY <1>1 DEF MadeReady
<1>3. k'.lock = k.lock /\ k'.fault = k.fault /\ k'.list = Given'.list /\ k'.state = Given'.state
      /\ k.list = Given.list /\ k.state = Given.state
  BY <1>1, <1>2, ShadowSame DEF OnlyTask, SameSched
<1>4. Safe(Given', alive')
  BY <1>1, WaitParts, SafeReady DEF WaitInv, ListsInv
<1>5. ListsInv'
  BY <1>3, <1>4 DEF ListsInv, WaitInv
<1>6. \A v \in Task \ {u} : SameWait(v)
  BY <1>2, SeenOnly, SeenWait DEF CallsKept
<1>7. u \notin Queue' /\ k'.state[u] # "BLOCKING"
  BY <1>2, <1>3, MutexFacts DEF OnlyTask, Lists, WaitersBlocked, Queue
<1>8. SameWait(u) \/ EndedWait(u)
  <2>1. CASE u \in Queue
    <3>1. Awaits(todo'[u])
      BY <2>1 DEF CallsKept, WaitInv, WaitersInv
    <3>2. QED
      BY <1>7, <2>1, <3>1 DEF EndedWait
  <2>2. CASE u \notin Queue
    <3>1. k.state[u] # "BLOCKING"
      BY <2>2, QueueBlocked
    <3>2. QED
      BY <1>7, <2>2, <3>1 DEF SameWait, CallsKept
  <2>3. QED
    BY <2>1, <2>2
<1>9. QED
  BY <1>5, <1>6, <1>8

LEMMA ReadyStep ==
  ASSUME WaitInv, MutexInv', CallsKept, owner' = owner, NEW u \in Task,
         MadeReady(k, k', u, given, given'), alive' \subseteq alive \cup {u},
         alive \subseteq alive', running, running' = running,
         u \in Queue \/ k'.bstate[u] = k.bstate[u]
  PROVE  WaitInv'
BY ReadyEffect, PlainStep

-----------------------------------------------------------------------------
(* The handlers.                                                           *)

LEMMA TodoSame == ASSUME WaitInv, todo' = todo PROVE CallsKept
BY DEF WaitInv, WaitersInv, CallsKept

LEMMA GivenMirror ==
  ASSUME WaitInv
  PROVE  /\ Mirror(k, Given) /\ Given.prio = given /\ Lists(Given) /\ Given \in KernelState
         /\ Given.lock = 0 /\ k.lock = 0 /\ ~ k.fault /\ Safe(Given, alive)
         /\ running => Given.map # {} /\ Idle \in alive
<1>1. Alike(k, Given) /\ Given.prio = given /\ Given.cur = k.cur
  BY WaitParts, ShadowAlike DEF Given
<1>2. Given.lock = k.lock /\ Given \in KernelState
  BY <1>1 DEF Alike
<1>3. running => Given.map # {}
  BY <1>2, QueueThere DEF WaitInv, ListsInv
<1>4. QED
  BY <1>1, <1>2, <1>3, WaitParts DEF WaitInv, ListsInv, Mirror

\* A step whose effect on the kernel is that of s1 on the shadow.
LEMMA MirrorStep ==
  ASSUME WaitInv, MutexInv', CallsKept, owner' = owner, given' = given, running,
         UNCHANGED <<running, alive>>, NEW s1, Mirror(k', s1), s1.prio = given,
         Stays(Given, s1)
  PROVE  WaitInv'
<1>1. s1 = Shadow(k', s1.prio)
  BY AlikeShadow DEF Mirror
<1>2. Given' = s1
  BY <1>1, NextGiven
<1>3. QED
  BY <1>2, QuietStep

LEMMA SysTickWait ==
  ASSUME WaitInv, MutexInv', SysTick, owner' = owner, given' = given
  PROVE  WaitInv'
<1> DEFINE ka == UseSlice(k)
           sa == UseSlice(Given)
           k1 == os_sched_timeslice_poll(k)
           s1 == IF SliceUsedUp(k) THEN os_sched(sa, "thread") ELSE sa
           s2 == CountTick(s1)
<1>1. /\ k' = CountTick(k1) /\ running /\ k.cur # NULL
      /\ UNCHANGED <<running, todo, alive>>
  BY DEF SysTick, TickTaken
<1>2. /\ Mirror(k, Given) /\ Given.prio = given /\ Lists(Given) /\ Given.lock = 0
      /\ Given.map # {} /\ k.cur \in Task
  BY <1>1, GivenMirror, WaitParts DEF KernelState
<1>3. Mirror(ka, sa) /\ sa.prio = Given.prio /\ Stays(Given, sa) /\ sa.map = Given.map
  BY <1>2, MirrorSlice
<1>4. k1 = IF SliceUsedUp(k) THEN os_sched(ka, "thread") ELSE ka
  BY DEF os_sched_timeslice_poll
<1> HIDE DEF ka, sa, k1
<1>5. Lists(sa) /\ sa.lock = 0 /\ sa.map # {} /\ "thread" \in {"thread", "sw"}
  BY <1>2, <1>3 DEF Stays, SameTasks
<1>6. Mirror(k1, s1) /\ s1.prio = given /\ Stays(Given, s1)
  <2>1. CASE SliceUsedUp(k)
    <3>1. LET kb == os_sched(ka, "thread")
              sb == os_sched(sa, "thread")
          IN Mirror(kb, sb) /\ sb.prio = sa.prio /\ Stays(sa, sb) /\ sb.map = sa.map
      BY <1>3, <1>5, MirrorSched
    <3>2. k1 = os_sched(ka, "thread") /\ s1 = os_sched(sa, "thread")
      BY <1>4, <2>1
    <3>3. Mirror(k1, s1) /\ s1.prio = sa.prio /\ Stays(sa, s1)
      BY <3>1, <3>2
    <3> HIDE DEF s1
    <3>4. QED
      BY <1>2, <1>3, <3>3, StaysTwice
  <2>2. CASE ~ SliceUsedUp(k)
    BY <1>2, <1>3, <1>4, <2>2
  <2>3. QED
    BY <2>1, <2>2
<1> HIDE DEF s1
<1>7. Lists(s1)
  BY <1>6 DEF Stays, SameTasks
<1>8. Mirror(k', s2) /\ s2.prio = s1.prio /\ Stays(s1, s2)
  BY <1>1, <1>6, <1>7, MirrorCount
<1> HIDE DEF s2
<1>9. Stays(Given, s2) /\ s2.prio = given
  BY <1>6, <1>8, StaysTwice
<1>10. QED
  BY <1>1, <1>8, <1>9, TodoSame, MirrorStep

LEMMA TickParts ==
  ASSUME WaitInv, irq = "tick" PROVE running /\ k.ticks # <<>>
BY WaitParts DEF TypeInv

LEMMA ExpireTaskWait ==
  ASSUME WaitInv, MutexInv', ExpireTask, owner' = owner, given' = given
  PROVE  WaitInv'
<1> DEFINE u == Head(k.ticks[1].tasks)
           k1 == EndWait(UnlinkTick(k, u), u, "TIMEOUT")
<1>1. /\ k' = k1 /\ k.ticks[1].tasks # <<>> /\ running /\ k.ticks # <<>>
      /\ UNCHANGED <<running, todo, alive>>
  BY TickParts DEF ExpireTask, ExpireFirst, ExpiryDue
<1>2. u \in Task /\ TickLinked(k, u)
  <2>1. k.ticks[1] \in TickNode /\ 1 \in DOMAIN k.ticks
    BY <1>1, WaitParts DEF KernelState
  <2>2. k.ticks[1].tasks \in Seq(Task)
    BY <2>1 DEF TickNode
  <2>3. u \in Task /\ u \in ToSet(k.ticks[1].tasks)
    BY <1>1, <2>2 DEF ToSet
  <2>4. QED
    BY <2>1, <2>3 DEF TickLinked
<1> HIDE DEF u
<1>3. u \in Queue /\ given[u] = k.prio[u] /\ "TIMEOUT" \in BlockState
  BY <1>2, QueueBlocked DEF BlockState
<1>4. MadeReady(k, k1, u, given, given)
  BY <1>2, <1>3, WaitParts, ShadowEndTick DEF Given
<1> HIDE DEF k1
<1>5. QED
  BY <1>1, <1>2, <1>3, <1>4, TodoSame, ReadyStep

LEMMA ExpireNextWait ==
  ASSUME WaitInv, MutexInv', ExpireNext, owner' = owner, given' = given
  PROVE  WaitInv'
<1>1. /\ k' = DropNode(k) /\ k.ticks[1].tasks = <<>> /\ running /\ k.ticks # <<>>
      /\ UNCHANGED <<running, todo, alive>>
  BY TickParts DEF ExpireNext, ExpiryDue
<1>2. /\ Mirror(k', DropNode(Given)) /\ DropNode(Given).prio = Given.prio
      /\ Stays(Given, DropNode(Given))
  BY <1>1, GivenMirror, MirrorDrop
<1>3. QED
  BY <1>1, <1>2, GivenMirror, TodoSame, MirrorStep

\* The two counts of missed ticks.
Missed(k0, m, n) == [k0 EXCEPT !.tickMissed = m, !.sliceMissed = n]

LEMMA MirrorMissed ==
  ASSUME NEW k0, NEW s, Mirror(k0, s), Lists(s), NEW m \in Count, NEW n \in Count
  PROVE  LET k1 == Missed(k0, m, n)
             s1 == Missed(s, m, n)
         IN Mirror(k1, s1) /\ s1.prio = s.prio /\ Stays(s, s1) /\ s1.map = s.map
<1> DEFINE k1 == Missed(k0, m, n)
           s1 == Missed(s, m, n)
<1>1. k0 \in KernelState /\ s \in KernelState /\ Alike(k0, s) /\ s.cur = k0.cur
  BY DEF Mirror, Alike
<1>2. k1 \in KernelState /\ s1 \in KernelState
  <2>1. \A x \in KernelState : [x EXCEPT !.tickMissed = m, !.sliceMissed = n] \in KernelState
    BY DEF KernelState
  <2>2. QED
    BY <1>1, <2>1 DEF Missed
<1>3. /\ SameFields(s, s1) /\ s1.lock = s.lock /\ s1.fault = s.fault
      /\ s1.cur = s.cur /\ k1.cur = k0.cur
  BY <1>1 DEF KernelState, SameFields, Missed
<1>e. /\ k1 = [k0 EXCEPT !.tickMissed = m, !.sliceMissed = n]
      /\ s1 = [s EXCEPT !.tickMissed = m, !.sliceMissed = n]
  BY DEF Missed
<1> HIDE DEF k1, s1
<1>4. Alike(k1, s1)
  BY <1>1, <1>2, <1>e DEF Alike, KernelState
<1>5. SameTasks(s, s1)
  BY <1>1, <1>3, FieldsSame
<1>6. Mirror(k1, s1) /\ s1.prio = s.prio /\ Stays(s, s1) /\ s1.map = s.map
  BY <1>1, <1>3, <1>4, <1>5 DEF Mirror, Stays, SameFields
<1>7. QED
  BY <1>6 DEF k1, s1

LEMMA MirrorCur ==
  ASSUME NEW k0, NEW s, Mirror(k0, s), Lists(s), NEW c \in Task \cup {NULL}
  PROVE  LET k1 == [k0 EXCEPT !.cur = c]
             s1 == [s EXCEPT !.cur = c]
         IN Mirror(k1, s1) /\ s1.prio = s.prio /\ Stays(s, s1) /\ s1.map = s.map
<1> DEFINE k1 == [k0 EXCEPT !.cur = c]
           s1 == [s EXCEPT !.cur = c]
<1>1. k0 \in KernelState /\ s \in KernelState /\ Alike(k0, s)
  BY DEF Mirror, Alike
<1>2. k1 \in KernelState /\ s1 \in KernelState
  <2>1. \A x \in KernelState : [x EXCEPT !.cur = c] \in KernelState
    BY DEF KernelState
  <2>2. QED
    BY <1>1, <2>1
<1>3. /\ SameFields(s, s1) /\ s1.lock = s.lock /\ s1.fault = s.fault
      /\ s1.cur = c /\ k1.cur = c
  BY <1>1 DEF KernelState, SameFields
<1>e. k1 = [k0 EXCEPT !.cur = c] /\ s1 = [s EXCEPT !.cur = c]
  OBVIOUS
<1> HIDE DEF k1, s1
<1>4. Alike(k1, s1)
  BY <1>1, <1>2, <1>e DEF Alike, KernelState
<1>5. SameTasks(s, s1)
  BY <1>1, <1>3, FieldsSame
<1>6. Mirror(k1, s1) /\ s1.prio = s.prio /\ Stays(s, s1) /\ s1.map = s.map
  BY <1>1, <1>3, <1>4, <1>5 DEF Mirror, Stays, SameFields
<1>7. QED
  BY <1>6 DEF k1, s1

LEMMA MissTickWait ==
  ASSUME WaitInv, MutexInv', MissTick, owner' = owner, given' = given
  PROVE  WaitInv'
<1> DEFINE m == k.tickMissed + 1
           n == k.sliceMissed + 1
           s1 == Missed(Given, m, n)
<1>1. /\ running /\ UNCHANGED <<running, todo, alive>>
      /\ k' = Missed(k, m, n)
  BY DEF MissTick, Missed
<1>2. m \in Count /\ n \in Count
  <2>1. k.tickMissed \in Nat /\ k.sliceMissed \in Nat
    BY WaitParts, KernelAssumption DEF KernelState, Count
  <2>2. k.tickMissed < MaxMissed /\ k.sliceMissed < MaxMissed
    BY DEF MissTick
  <2>3. QED
    BY <2>1, <2>2, ClientFacts
<1> HIDE DEF m, n
<1>3. Mirror(k', s1) /\ s1.prio = Given.prio /\ Stays(Given, s1)
  BY <1>1, <1>2, GivenMirror, MirrorMissed
<1> HIDE DEF s1
<1>4. QED
  BY <1>1, <1>3, GivenMirror, TodoSame, MirrorStep

LEMMA ExpireLastWait ==
  ASSUME WaitInv, MutexInv', ExpireLast, owner' = owner, given' = given
  PROVE  WaitInv'
<1> DEFINE ka == DropNode(k)
           sa == DropNode(Given)
           n == ka.sliceMissed
           kb == Missed(ka, 0, n)
           sb == Missed(sa, 0, n)
           k1 == os_sched(kb, "thread")
           s1 == os_sched(sb, "thread")
<1>1. /\ k' = os_sched([ka EXCEPT !.tickMissed = 0], "thread")
      /\ k.ticks[1].tasks = <<>> /\ running /\ k.ticks # <<>>
      /\ UNCHANGED <<running, todo, alive>>
  BY TickParts DEF ExpireLast, AfterExpiry, ExpiryDue
<1>2. /\ Mirror(ka, sa) /\ sa.prio = Given.prio /\ Stays(Given, sa) /\ sa.map = Given.map
      /\ Given.map # {} /\ Given.lock = 0 /\ Given.prio = given
  BY <1>1, GivenMirror, MirrorDrop
<1> HIDE DEF ka, sa
<1>3. ka \in KernelState /\ Lists(sa) /\ 0 \in Count /\ n \in Count
  BY <1>2, KernelAssumption DEF Mirror, Alike, Stays, SameTasks, KernelState, Count
<1>4. [ka EXCEPT !.tickMissed = 0] = kb
  BY <1>3 DEF KernelState, Missed
<1>5. k' = k1
  BY <1>1, <1>4
<1> HIDE DEF n
<1>6. Mirror(kb, sb) /\ sb.prio = sa.prio /\ Stays(sa, sb) /\ sb.map = sa.map
  BY <1>2, <1>3, MirrorMissed
<1> HIDE DEF kb, sb
<1>7. Lists(sb) /\ sb.map # {} /\ sb.lock = 0 /\ "thread" \in {"thread", "sw"}
  BY <1>2, <1>6 DEF Stays, SameTasks
<1>8. Mirror(k1, s1) /\ s1.prio = sb.prio /\ Stays(sb, s1)
  BY <1>6, <1>7, MirrorSched
<1> HIDE DEF k1, s1
<1>9. Mirror(k', s1) /\ s1.prio = given /\ Stays(Given, s1)
  BY <1>2, <1>5, <1>6, <1>8, StaysTwice
<1>10. QED
  BY <1>1, <1>9, TodoSame, MirrorStep

LEMMA SwLeaveWait ==
  ASSUME WaitInv, MutexInv', SwLeave, owner' = owner, given' = given
  PROVE  WaitInv'
<1> DEFINE k1 == IF k.cur = NULL THEN [k EXCEPT !.cur = k.nxt] ELSE k
           s1 == IF k.cur = NULL THEN [Given EXCEPT !.cur = k.nxt] ELSE Given
           k2 == IF k1.cur = k1.nxt THEN os_sched(k1, "sw") ELSE k1
           s2 == IF k1.cur = k1.nxt THEN os_sched(s1, "sw") ELSE s1
           k3 == [k2 EXCEPT !.cur = k2.nxt]
           s3 == [s2 EXCEPT !.cur = k2.nxt]
<1>1. /\ k' = IF k2.fault THEN k2 ELSE k3
      /\ running /\ UNCHANGED <<running, todo, alive>>
  BY DEF SwLeave, SwitchTask, WaitInv, ListsInv
<1>2. /\ Mirror(k, Given) /\ Given.prio = given /\ Lists(Given) /\ Given.lock = 0
      /\ Given.map # {} /\ k.nxt \in Task \cup {NULL}
  BY <1>1, GivenMirror, WaitParts DEF KernelState
<1>3. Mirror(k1, s1) /\ s1.prio = given /\ Stays(Given, s1) /\ s1.map = Given.map
  <2>1. Stays(Given, Given)
    BY <1>2 DEF Stays, SameTasks
  <2>2. CASE k.cur = NULL
    <3>1. /\ Mirror([k EXCEPT !.cur = k.nxt], [Given EXCEPT !.cur = k.nxt])
          /\ [Given EXCEPT !.cur = k.nxt].prio = given
          /\ Stays(Given, [Given EXCEPT !.cur = k.nxt])
          /\ [Given EXCEPT !.cur = k.nxt].map = Given.map
      BY <1>2, MirrorCur
    <3>2. QED
      BY <2>2, <3>1
  <2>3. CASE k.cur # NULL
    BY <1>2, <2>1, <2>3
  <2>4. QED
    BY <2>2, <2>3
<1>e. k2 = IF k1.cur = k1.nxt THEN os_sched(k1, "sw") ELSE k1
  OBVIOUS
<1>f. s2 = IF k1.cur = k1.nxt THEN os_sched(s1, "sw") ELSE s1
  OBVIOUS
<1> HIDE DEF k1, s1, k2, s2
<1>4. Lists(s1) /\ s1.map # {} /\ s1.lock = 0 /\ "sw" \in {"thread", "sw"}
  BY <1>2, <1>3 DEF Stays, SameTasks
<1>5. Mirror(k2, s2) /\ s2.prio = given /\ Stays(Given, s2)
  <2>1. CASE k1.cur = k1.nxt
    <3>1. LET kb == os_sched(k1, "sw")
              sb == os_sched(s1, "sw")
          IN Mirror(kb, sb) /\ sb.prio = s1.prio /\ Stays(s1, sb) /\ sb.map = s1.map
      BY <1>3, <1>4, MirrorSched
    <3>2. k2 = os_sched(k1, "sw") /\ s2 = os_sched(s1, "sw")
      BY <1>e, <1>f, <2>1
    <3>3. Mirror(k2, s2) /\ s2.prio = s1.prio /\ Stays(s1, s2)
      BY <3>1, <3>2
    <3>4. QED
      BY <1>3, <3>3, StaysTwice
  <2>2. CASE k1.cur # k1.nxt
    BY <1>3, <1>e, <1>f, <2>2
  <2>3. QED
    BY <2>1, <2>2
<1>6. ~ k2.fault /\ k2.nxt \in Task \cup {NULL} /\ Lists(s2)
  BY <1>5, GivenMirror DEF Mirror, Alike, Stays, SameTasks, KernelState
<1>7. k' = k3
  BY <1>1, <1>6
<1>8. Mirror(k3, s3) /\ s3.prio = s2.prio /\ Stays(s2, s3)
  BY <1>5, <1>6, MirrorCur
<1> HIDE DEF k3, s3
<1>9. Mirror(k', s3) /\ s3.prio = given /\ Stays(Given, s3)
  BY <1>5, <1>7, <1>8, StaysTwice
<1>10. QED
  BY <1>1, <1>9, TodoSame, MirrorStep

\* A step that leaves the kernel's memory as it is.
LEMMA StillStep ==
  ASSUME WaitInv, MutexInv', CallsKept, owner' = owner, running,
         UNCHANGED <<running, alive, k, given>>
  PROVE  WaitInv'
<1>1. Given' = Given
  BY DEF Given
<1>2. Stays(Given, Given)
  BY GivenMirror DEF Stays, SameTasks
<1>3. QED
  BY <1>1, <1>2, QuietStep

LEMMA SwEnterWait ==
  ASSUME WaitInv, MutexInv', SwEnter, owner' = owner, given' = given
  PROVE  WaitInv'
BY TodoSame, StillStep DEF SwEnter, SwitchDue, WaitInv, ListsInv

-----------------------------------------------------------------------------
(* Booting.                                                                *)

\* Tasks that are created get a priority.
GivenNew == given' = [v \in Task |-> IF v \in alive' \ alive THEN k'.prio[v] ELSE given[v]]

LEMMA ReadySeen ==
  ASSUME NEW k0 \in KernelState, NEW k1, NEW u \in Task, NEW g \in [Task -> Prio],
         NEW g1 \in [Task -> Prio], MadeReady(k0, k1, u, g, g1), Lists(Shadow(k0, g)),
         k0.state[u] # "BLOCKING", k1.bstate[u] = k0.bstate[u], NEW v \in Task
  PROVE  SameSeen(Shadow(k0, g), Shadow(k1, g1), v)
<1> DEFINE s0 == Shadow(k0, g)
           s1 == Shadow(k1, g1)
<1>1. OnlyTask(s0, s1, u) /\ k1 \in KernelState /\ k1.state[u] = "READY"
  BY DEF MadeReady
<1>2. /\ s0.state = k0.state /\ s0.bstate = k0.bstate /\ Lists(s0)
      /\ s1.state = k1.state /\ s1.bstate = k1.bstate /\ Lists(s1)
  BY <1>1, ShadowSame DEF OnlyTask
<1> HIDE DEF s0, s1
<1>3. u \notin ToSet(s0.list[Mutex]) /\ u \notin ToSet(s1.list[Mutex])
  BY <1>1, <1>2, MutexFacts DEF Lists, WaitersBlocked
<1>4. SameSeen(s0, s1, u)
  BY <1>1, <1>2, <1>3 DEF SameSeen
<1>5. v # u => SameSeen(s0, s1, v)
  BY <1>1, SeenOnly
<1>6. QED
  BY <1>4, <1>5 DEF s0, s1

LEMMA BootCreateWait ==
  ASSUME WaitInv, MutexInv', NEW t \in Task, NEW p \in Prio, BootCreate(t, p),
         owner' = owner, GivenNew
  PROVE  WaitInv'
<1> DEFINE ka == os_task_create(k, t, p)
           g1 == [given EXCEPT ![t] = p]
           sa == Shadow(ka, g1)
           k1 == os_sched(ka, "thread")
           s1 == os_sched(sa, "thread")
<1>1. /\ ~ running /\ t \notin alive /\ k' = k1 /\ alive' = alive \cup {t}
      /\ UNCHANGED <<running, todo, swEnabled, irq>>
  BY DEF BootCreate
<1>2. /\ k \in KernelState /\ given \in [Task -> Prio] /\ Lists(Given) /\ HighStart(Given)
      /\ k.state[t] = "NONE" /\ Given = Shadow(k, given) /\ alive \subseteq Task
      /\ Given.state = k.state
  BY <1>1, WaitParts, ShadowSame DEF WaitInv, ListsInv, Given
<1>e. g1 = [given EXCEPT ![t] = p]
  OBVIOUS
<1>3. g1 \in [Task -> Prio]
  BY <1>2
<1>4. MadeReady(k, ka, t, given, g1) /\ ka.bstate = k.bstate /\ ka.prio[t] = p
  <2> HIDE DEF g1
  <2>1. QED
    BY <1>2, <1>e, ShadowCreate
<1> HIDE DEF ka
<1>5. /\ ka \in KernelState /\ ka.map # {} /\ OnlyTask(Given, sa, t)
  BY <1>2, <1>4 DEF MadeReady
<1>6. Safe(sa, alive')
  <2> HIDE DEF g1
  <2>1. Safe(Shadow(k, given), alive)
    BY <1>2 DEF WaitInv, ListsInv
  <2>2. QED
    BY <1>1, <1>2, <1>3, <1>4, <2>1, SafeReady
<1>7. /\ Mirror(ka, sa) /\ sa.prio = g1 /\ Lists(sa) /\ sa.map # {} /\ sa.lock = 0
      /\ sa \in KernelState /\ "thread" \in {"thread", "sw"} /\ sa.fault = k.fault
  <2> HIDE DEF g1
  <2>1. Alike(ka, sa) /\ sa.prio = g1 /\ sa.cur = ka.cur /\ sa.map = ka.map
    BY <1>3, <1>5, ShadowAlike, ShadowSame
  <2> HIDE DEF sa
  <2>2. sa.lock = 0 /\ sa.fault = k.fault
    BY <1>2, <1>5, GivenMirror, ShadowSame DEF OnlyTask, SameSched
  <2>3. QED
    BY <1>5, <2>1, <2>2 DEF Mirror, Alike, OnlyTask
<1>k. k1 = os_sched(ka, "thread")
  OBVIOUS
<1>s. s1 = os_sched(sa, "thread")
  OBVIOUS
<1>8. Mirror(k1, s1) /\ s1.prio = g1 /\ Stays(sa, s1)
  BY <1>7, MirrorSched
<1>9. Chosen(sa, s1)
  <2> HIDE DEF sa, s1
  <2>1. QED
    BY <1>6, <1>7, <1>s, SchedChosen
<1>10. k1.prio[t] = p
  BY <1>4, <1>5, <1>k, KeepsSched DEF Keeps
<1> HIDE DEF sa, k1, s1
<1>11. given' = g1
  BY <1>1, <1>2, <1>10 DEF GivenNew
<1> HIDE DEF g1
<1>12. Given' = s1
  BY <1>1, <1>8, <1>11, AlikeShadow, NextGiven DEF Mirror
<1>13. Safe(Given', alive')
  BY <1>1, <1>6, <1>7, <1>8, <1>12, NextGiven, SafeStays
<1>14. s1.lock = 0 /\ ~ s1.fault /\ s1.state = k'.state /\ k'.lock = s1.lock /\ k'.fault = s1.fault
  BY <1>1, <1>7, <1>8, GivenMirror DEF Mirror, Alike, Stays
<1>15. ASSUME NEW v \in Task \ alive' PROVE k'.state[v] = "NONE"
  <2>1. v \in Task \ {t} /\ Given.state[v] = "NONE"
    BY <1>1, <1>2, <1>15 DEF WaitInv, ListsInv
  <2>2. sa.state[v] = "NONE"
    BY <1>5, <2>1 DEF OnlyTask, Untouched
  <2>3. QED
    BY <1>7, <1>9, <1>14, <2>1, <2>2 DEF Chosen
<1>16. ListsInv'
  <2>1. ~ running' /\ k'.lock = 0 /\ ~ k'.fault
    BY <1>1, <1>14
  <2>2. ~ (irq' = "sw" \/ swEnabled')
    BY <1>1 DEF WaitInv, ListsInv
  <2>3. QED
    BY <1>13, <1>15, <2>1, <2>2 DEF ListsInv
<1>17. ASSUME NEW v \in Task PROVE SameWait(v)
  <2>1. SameSeen(Given, sa, v)
    <3>1. k.state[t] # "BLOCKING" /\ ka.bstate[t] = k.bstate[t]
      BY <1>2, <1>4
    <3>2. QED
      BY <1>2, <1>3, <1>4, <3>1, ReadySeen DEF sa
  <2>2. SameSeen(sa, Given', v)
    BY <1>8, <1>12, SeenStays
  <2>3. QED
    BY <1>1, <2>1, <2>2, SeenTwice, SeenWait
<1>18. QED
  BY <1>1, <1>16, <1>17, TodoSame, PlainStep

LEMMA StartWait ==
  ASSUME WaitInv, MutexInv', os_sys_start, owner' = owner, given' = given
  PROVE  WaitInv'
<1> DEFINE s1 == os_rq_get_highest_prio_task(Given)
<1>1. /\ Idle \in alive /\ k' = os_rq_get_highest_prio_task(k) /\ running' = TRUE
      /\ UNCHANGED <<todo, alive>>
  BY DEF os_sys_start
<1>2. /\ Mirror(k, Given) /\ Lists(Given) /\ Given.prio = given /\ Given.map # {}
  BY <1>1, GivenMirror, QueueThere
<1>3. Mirror(k', s1) /\ s1.prio = given /\ Stays(Given, s1)
  BY <1>1, <1>2, MirrorChoose
<1> HIDE DEF s1
<1>4. Given' = s1
  BY <1>3, AlikeShadow, NextGiven DEF Mirror
<1>5. Safe(Given', alive')
  BY <1>1, <1>3, <1>4, GivenMirror, WaitParts, SafeStays
<1>6. k'.lock = 0 /\ ~ k'.fault
  <2>1. Given.lock = 0 /\ Given.fault = k.fault /\ ~ k.fault
    BY <1>2, GivenMirror DEF Mirror, Alike
  <2>2. QED
    BY <1>3, <2>1 DEF Mirror, Alike, Stays
<1>7. ListsInv'
  BY <1>1, <1>5, <1>6 DEF ListsInv
<1>8. \A v \in Task : SameWait(v)
  BY <1>1, <1>3, <1>4, SeenStays, SeenWait
<1>9. QED
  BY <1>1, <1>7, <1>8, TodoSame, PlainStep

-----------------------------------------------------------------------------
(* Tasks.                                                                  *)

LEMMA LeftNone ==
  \A r \in {<<>>, <<"sched">>} : Left(r) /\ ~ Awaits(r)
<1>1. \A r \in {<<>>, <<"sched">>} : Shape(r) /\ ~ Awaits(r)
  BY AwaitNone
<1>2. \A r \in {<<>>, <<"sched">>} : \A i \in DOMAIN r : r[i] = "sched"
  OBVIOUS
<1>3. QED
  BY <1>1, <1>2 DEF Left

LEMMA LeftTail ==
  ASSUME NEW w \in Seq(Step), w # <<>>, Left(w)
  PROVE  /\ Left(Tail(w)) /\ Head(w) \in {"sched", "ctxSw", "waitRet"}
         /\ Head(w) = "sched" => Left(<<"ctxSw">> \o Tail(w)) /\ Left(<<>> \o Tail(w))
<1>1. /\ Shape(w) /\ Shape(Tail(w)) /\ w[1] \in Step /\ Head(w) = w[1] /\ 1 \in DOMAIN w
      /\ DOMAIN w = 1..Len(w) /\ Len(w) \in Nat
  BY AwaitTail, TailFacts DEF Left
<1>2. \A i \in DOMAIN w : w[i] \notin {"delayRet", "gone"}
  BY DEF Left
<1>3. ASSUME NEW i \in DOMAIN Tail(w) PROVE Tail(w)[i] \notin {"delayRet", "gone"}
  <2>1. i + 1 \in DOMAIN w /\ Tail(w)[i] = w[i + 1]
    BY <1>1, TailFacts
  <2>2. QED
    BY <1>2, <2>1
<1>4. ASSUME Head(w) = "sched" PROVE Left(<<"ctxSw">> \o Tail(w)) /\ Left(<<>> \o Tail(w))
  <2>1. Shape(<<"ctxSw">> \o Tail(w))
    BY <1>1, <1>4, AwaitSched
  <2>2. ASSUME NEW i \in DOMAIN (<<"ctxSw">> \o Tail(w))
        PROVE  (<<"ctxSw">> \o Tail(w))[i] \notin {"delayRet", "gone"}
    <3>1. i = 1 \/ i \in 2..Len(w)
      BY <1>1, TailFacts
    <3>2. (<<"ctxSw">> \o Tail(w))[1] = "ctxSw"
      BY TailFacts
    <3>3. \A j \in 2..Len(w) : (<<"ctxSw">> \o Tail(w))[j] = w[j]
      BY TailFacts
    <3>4. QED
      BY <1>1, <1>2, <3>1, <3>2, <3>3
  <2>3. <<>> \o Tail(w) = Tail(w)
    BY TailFacts
  <2>4. QED
    BY <1>1, <1>3, <2>1, <2>2, <2>3 DEF Left
<1>5. QED
  BY <1>1, <1>2, <1>3, <1>4 DEF Left, Step

\* The task that makes a call.
LEMMA Caller ==
  ASSUME WaitInv, NEW t \in Task, NEW c, Invokes(t, c)
  PROVE  /\ running /\ c \in Calls /\ todo[t] = <<>> /\ t \in alive /\ t # Idle
         /\ t \notin Queue /\ k.state[t] # "BLOCKING" /\ k.bstate[t] # "TIMEOUT"
<1>1. running /\ c \in Calls /\ todo[t] = <<>> /\ t \in alive /\ t # Idle
  BY DEF Invokes, Runs
<1>2. ~ Awaits(todo[t])
  BY <1>1, LeftNone
<1>3. t \notin Queue /\ k.bstate[t] # "TIMEOUT"
  BY <1>2 DEF WaitInv, WaitersInv
<1>4. QED
  BY <1>1, <1>3, QueueBlocked

\* A call that does not wait.
LEMMA NoWait ==
  ASSUME WaitInv, NEW t \in Task, todo[t] = <<>>, NEW k1, NEW r \in {<<>>, <<"sched">>},
         Then(t, k1, r)
  PROVE  CallsKept
<1>1. todo' = [todo EXCEPT ![t] = r] /\ todo \in [Task -> Seq(Step)]
  BY WaitParts DEF Then
<1>2. Left(r) /\ ~ Awaits(r) /\ ~ Awaits(todo[t])
  BY LeftNone
<1>3. \A v \in Task : Left(todo[v])
  BY DEF WaitInv, WaitersInv
<1>4. QED
  BY <1>1, <1>2, <1>3 DEF CallsKept

LEMMA CreateWait ==
  ASSUME WaitInv, MutexInv', NEW t \in Task, Create(t), owner' = owner, GivenNew
  PROVE  WaitInv'
<1>1. Invokes(t, "create")
  BY DEF Create
<1>2. PICK u \in UserTask \ alive, p \in UserPrio :
        /\ k.state[u] = "NONE" /\ alive' = alive \cup {u}
        /\ Then(t, os_task_create(k, u, p), <<"sched">>)
  BY DEF Create
<1>3. u \in Task /\ p \in Prio /\ running /\ todo[t] = <<>>
  BY <1>1, Caller, ClientFacts
<1> DEFINE k1 == os_task_create(k, u, p)
           g1 == [given EXCEPT ![u] = p]
<1>4. MadeReady(k, k1, u, given, g1) /\ k1.bstate = k.bstate /\ k1.prio[u] = p
  <2>1. /\ k \in KernelState /\ given \in [Task -> Prio] /\ Lists(Shadow(k, given))
        /\ HighStart(Shadow(k, given))
    BY WaitParts DEF Given
  <2>2. g1 = [given EXCEPT ![u] = p]
    OBVIOUS
  <2> HIDE DEF g1
  <2>3. QED
    BY <1>2, <1>3, <2>1, <2>2, ShadowCreate
<1>5. k' = k1 /\ UNCHANGED running
  BY <1>2 DEF Then
<1>6. CallsKept
  <2>1. <<"sched">> \in {<<>>, <<"sched">>}
    OBVIOUS
  <2>2. QED
    BY <1>2, <1>3, <2>1, NoWait
<1> HIDE DEF k1
<1>7. given' = g1
  BY <1>2, <1>3, <1>4, <1>5, WaitParts DEF GivenNew
<1> HIDE DEF g1
<1>8. MadeReady(k, k', u, given, given') /\ k'.bstate[u] = k.bstate[u]
  BY <1>4, <1>5, <1>7
<1>9. QED
  BY <1>2, <1>3, <1>5, <1>6, <1>8, ReadyStep

\* os_task_yield gives the rest of the slice away.
NoSlice(k0, t) == [k0 EXCEPT !.slice[t] = 0]

LEMMA MirrorYield ==
  ASSUME NEW k0, NEW s, Mirror(k0, s), Lists(s), NEW t \in Task
  PROVE  LET k1 == NoSlice(k0, t)
             s1 == NoSlice(s, t)
         IN Mirror(k1, s1) /\ s1.prio = s.prio /\ Stays(s, s1)
<1> DEFINE sl == [k0.slice EXCEPT ![t] = 0]
           k1 == NoSlice(k0, t)
           s1 == NoSlice(s, t)
<1>1. k0 \in KernelState /\ s \in KernelState /\ Alike(k0, s) /\ s.cur = k0.cur
  BY DEF Mirror, Alike
<1>2. k1 = [k0 EXCEPT !.slice = sl] /\ s1 = [s EXCEPT !.slice = sl]
  BY <1>1 DEF NoSlice, Alike
<1>3. sl \in [Task -> Count]
  BY <1>1, KernelAssumption DEF KernelState, Count
<1> HIDE DEF sl, k1, s1
<1>4. k1 \in KernelState /\ s1 \in KernelState
  <2>1. \A x \in KernelState : [x EXCEPT !.slice = sl] \in KernelState
    BY <1>3 DEF KernelState
  <2>2. QED
    BY <1>1, <1>2, <2>1
<1>5. /\ SameFields(s, s1) /\ s1.lock = s.lock /\ s1.fault = s.fault
      /\ s1.cur = s.cur /\ k1.cur = k0.cur
  BY <1>1, <1>2 DEF KernelState, SameFields
<1>6. Alike(k1, s1)
  BY <1>1, <1>2, <1>4 DEF Alike, KernelState
<1>7. SameTasks(s, s1)
  BY <1>1, <1>5, FieldsSame
<1>8. Mirror(k1, s1) /\ s1.prio = s.prio /\ Stays(s, s1)
  BY <1>1, <1>5, <1>6, <1>7 DEF Mirror, Stays, SameFields
<1>9. QED
  BY <1>8 DEF k1, s1

LEMMA YieldWait ==
  ASSUME WaitInv, MutexInv', NEW t \in Task, os_task_yield(t), owner' = owner, given' = given
  PROVE  WaitInv'
<1>1. /\ Invokes(t, "yield") /\ Then(t, NoSlice(k, t), <<"sched">>) /\ alive' = alive
      /\ k' = NoSlice(k, t) /\ running' = running
  BY DEF os_task_yield, NoSlice, Then
<1>2. CallsKept /\ running
  BY <1>1, Caller, NoWait
<1>3. /\ Mirror(k', NoSlice(Given, t)) /\ NoSlice(Given, t).prio = Given.prio
      /\ Stays(Given, NoSlice(Given, t))
  BY <1>1, GivenMirror, MirrorYield
<1>4. QED
  BY <1>1, <1>2, <1>3, GivenMirror, MirrorStep

LEMMA WakeTickWait ==
  ASSUME WaitInv, MutexInv', NEW t \in Task, WakeTick(t), owner' = owner, given' = given
  PROVE  WaitInv'
<1>1. Invokes(t, "wake") /\ alive' = alive
  BY DEF WakeTick
<1>2. PICK u \in alive : TickLinked(k, u) /\ Then(t, os_wakeup_tick_task(k, u), <<>>)
  BY DEF WakeTick
<1> DEFINE k1 == EndWait(UnlinkTick(k, u), u, "EARLY_WAKEUP")
<1>3. k' = k1 /\ running' = running
  BY <1>2 DEF Then, os_wakeup_tick_task
<1>4. CallsKept /\ running
  BY <1>1, <1>2, Caller, NoWait
<1>5. u \in Task /\ u \in Queue /\ given[u] = k.prio[u] /\ "EARLY_WAKEUP" \in BlockState
  BY <1>2, WaitParts, QueueBlocked DEF BlockState
<1>6. MadeReady(k, k1, u, given, given)
  BY <1>2, <1>5, WaitParts, ShadowEndTick DEF Given
<1> HIDE DEF k1
<1>7. QED
  BY <1>1, <1>3, <1>4, <1>5, <1>6, ReadyStep

LEMMA CallWait ==
  ASSUME MutexClient, WaitInv, MutexInv', NEW t \in Task, Call(t), owner' = owner, GivenNew
  PROVE  WaitInv'
<1>1. ASSUME alive' = alive PROVE given' = given
  BY <1>1, WaitParts DEF GivenNew
<1>2. ~ Exit(t) /\ ~ os_task_delay_ms(t) /\ ~ os_task_suspend(t) /\ ~ os_task_resume(t)
      /\ ~ os_sched_lock(t)
  BY DEF MutexClient, Exit, os_task_delay_ms, os_task_suspend, os_task_resume, os_sched_lock,
     Invokes
<1>3. ~ os_sched_unlock(t)
  BY GivenMirror DEF os_sched_unlock
<1>4. CASE Create(t)
  BY <1>4, CreateWait
<1>5. CASE os_task_yield(t)
  BY <1>1, <1>5, YieldWait DEF os_task_yield
<1>6. CASE WakeTick(t)
  BY <1>1, <1>6, WakeTickWait DEF WakeTick
<1>7. QED
  BY <1>2, <1>3, <1>4, <1>5, <1>6 DEF Call

\* What is left of a call whose next step leaves it waiting as it was.
LEMMA CallGoesOn ==
  ASSUME WaitInv, NEW t \in Task, todo[t] # <<>>, NEW r, todo' = [todo EXCEPT ![t] = r],
         \/ Head(todo[t]) = "ctxSw" /\ r = Tail(todo[t])
         \/ Head(todo[t]) = "sched" /\ r \in {<<"ctxSw">> \o Tail(todo[t]), <<>> \o Tail(todo[t])}
  PROVE  CallsKept
<1> DEFINE w == todo[t]
<1>1. w \in Seq(Step) /\ w # <<>> /\ Left(w) /\ Shape(w)
  BY WaitParts DEF WaitInv, WaitersInv, Left
<1>2. todo'[t] = r /\ \A v \in Task \ {t} : todo'[v] = todo[v]
  BY WaitParts
<1>3. \A v \in Task : Left(todo[v])
  BY DEF WaitInv, WaitersInv
<1> HIDE DEF w
<1>4. CASE Head(w) = "ctxSw" /\ r = Tail(w)
  <2>1. Left(r) /\ (Awaits(r) <=> Awaits(w))
    BY <1>1, <1>4, AwaitTail, LeftTail
  <2>2. QED
    BY <1>2, <1>3, <2>1 DEF CallsKept, w
<1>5. CASE Head(w) = "sched" /\ r \in {<<"ctxSw">> \o Tail(w), <<>> \o Tail(w)}
  <2>1. Left(r)
    BY <1>1, <1>5, LeftTail
  <2>2. Awaits(r) <=> Awaits(w)
    BY <1>1, <1>5, AwaitSched
  <2>3. QED
    BY <1>2, <1>3, <2>1, <2>2 DEF CallsKept, w
<1>6. QED
  BY <1>4, <1>5 DEF w

LEMMA SchedWait ==
  ASSUME WaitInv, MutexInv', NEW t \in Task, SchedStep(t), owner' = owner, given' = given
  PROVE  WaitInv'
<1> DEFINE k1 == os_sched(k, "thread")
           s1 == os_sched(Given, "thread")
           r == (IF Switches(k1) THEN <<"ctxSw">> ELSE <<>>) \o Tail(todo[t])
<1>1. /\ Continues(t, "sched") /\ Then(t, k1, r) /\ alive' = alive
      /\ k' = k1 /\ running' = running /\ todo' = [todo EXCEPT ![t] = r]
  BY DEF SchedStep, Then
<1>2. running /\ todo[t] # <<>> /\ Head(todo[t]) = "sched"
  BY <1>1 DEF Continues, Runs
<1>3. r \in {<<"ctxSw">> \o Tail(todo[t]), <<>> \o Tail(todo[t])}
  OBVIOUS
<1> HIDE DEF r
<1>4. CallsKept
  BY <1>1, <1>2, <1>3, CallGoesOn
<1>5. /\ Mirror(k, Given) /\ Lists(Given) /\ Given.map # {} /\ Given.lock = 0
      /\ "thread" \in {"thread", "sw"}
  BY <1>2, GivenMirror
<1>6. Mirror(k1, s1) /\ s1.prio = Given.prio /\ Stays(Given, s1)
  BY <1>5, MirrorSched
<1> HIDE DEF k1, s1
<1>7. QED
  BY <1>1, <1>2, <1>4, <1>6, GivenMirror, MirrorStep

LEMMA TaskStepWait ==
  ASSUME WaitInv, MutexInv', NEW t \in Task, TaskStep(t), owner' = owner, GivenNew
  PROVE  WaitInv'
<1>1. given' = given /\ alive' = alive
  BY WaitParts DEF TaskStep, SchedStep, os_ctx_sw, DelayReturn, RunsOff, GivenNew
<1>2. ~ DelayReturn(t) /\ ~ RunsOff(t)
  <2>1. todo[t] # <<>> => Head(todo[t]) \in {"sched", "ctxSw", "waitRet"}
    BY WaitParts, LeftTail DEF WaitInv, WaitersInv
  <2>2. QED
    BY <2>1 DEF DelayReturn, RunsOff, Continues
<1>3. CASE SchedStep(t)
  BY <1>1, <1>3, SchedWait
<1>4. CASE os_ctx_sw(t)
  <2>1. /\ running /\ todo[t] # <<>> /\ Head(todo[t]) = "ctxSw" /\ UNCHANGED <<running, alive, k>>
        /\ todo' = [todo EXCEPT ![t] = Tail(todo[t])]
    BY <1>4 DEF os_ctx_sw, Continues, Runs
  <2>2. CallsKept
    BY <2>1, CallGoesOn
  <2>3. QED
    BY <1>1, <2>1, <2>2, StillStep
<1>5. QED
  BY <1>2, <1>3, <1>4 DEF TaskStep

\* A step of the kernel leaves no task forgotten.
LEMMA KernelWait ==
  ASSUME MutexClient, WaitInv, MutexInv', KernelStep
  PROVE  WaitInv'
<1>1. Next /\ owner' = owner /\ GivenNew
  BY DEF KernelStep, GivenNew
<1>2. alive' = alive => given' = given
  BY <1>1, WaitParts DEF GivenNew
<1>3. CASE Boot
  <2>1. ASSUME os_sys_start PROVE WaitInv'
    BY <1>1, <1>2, <2>1, StartWait DEF os_sys_start
  <2>2. QED
    BY <1>1, <1>3, <2>1, BootCreateWait, ListNames, ClientFacts DEF Boot
<1>4. CASE TickHandler
  <2>1. given' = given
    BY <1>2, <1>4 DEF TickHandler, SysTick, ExpireTask, ExpireNext, ExpireLast
  <2>2. QED
    BY <1>1, <1>4, <2>1, SysTickWait, ExpireTaskWait, ExpireNextWait, ExpireLastWait
       DEF TickHandler
<1>5. CASE MissTick \/ SwEnter \/ SwLeave
  <2>1. given' = given
    BY <1>2, <1>5 DEF MissTick, SwEnter, SwLeave
  <2>2. QED
    BY <1>1, <1>5, <2>1, MissTickWait, SwEnterWait, SwLeaveWait
<1>6. QED
  BY <1>1, <1>3, <1>4, <1>5, CallWait, TaskStepWait DEF Next

-----------------------------------------------------------------------------
(* The calls of the mutex.                                                 *)

LEMMA RestShadow ==
  ASSUME MutexTypeInv, NEW k0 \in KernelState
  PROVE  /\ Shadow(Restored(k0), given) = Shadow(k0, given)
         /\ owner \in Task => \A u : Shadow(RaiseOwner(k0, u), given) = Shadow(k0, given)
<1>1. \A pr : [[k0 EXCEPT !.prio = pr] EXCEPT !.prio = given] = [k0 EXCEPT !.prio = given]
  BY DEF KernelState
<1>2. \A o, p : [k0 EXCEPT !.prio[o] = p] = [k0 EXCEPT !.prio = [k0.prio EXCEPT ![o] = p]]
  BY DEF KernelState
<1>3. \A o, p : Shadow([k0 EXCEPT !.prio[o] = p], given) = Shadow(k0, given)
  BY <1>1, <1>2 DEF Shadow
<1>4. QED
  BY <1>3 DEF Restored, RaiseOwner

\* What a step of a task in a call of the mutex shows the kernel.
LEMMA ListsNext ==
  ASSUME WaitInv, MutexInv', running, UNCHANGED <<running, alive>>, Safe(Given', alive'),
         Given'.lock = Given.lock, Given'.fault = Given.fault
  PROVE  ListsInv'
<1>1. Given.lock = 0 /\ ~ Given.fault
  BY GivenMirror DEF Mirror, Alike
<1>2. k'.lock = Given'.lock /\ k'.fault = Given'.fault
  BY NextGiven, ShadowSame
<1>3. QED
  BY <1>1, <1>2 DEF ListsInv, WaitInv

LEMMA SameGiven ==
  ASSUME WaitInv, MutexInv', running, UNCHANGED <<running, alive>>, Given' = Given
  PROVE  ListsInv' /\ \A v \in Task : SameSeen(Given, Given', v)
BY ListsNext, GivenMirror DEF SameSeen

\* The mutex has got an owner: nobody is forgotten.
LEMMA OwnedStep ==
  ASSUME WaitInv, MutexInv', ListsInv', owner' # NULL, owner' = owner \/ owner' \notin Queue,
         \A v \in Task : Left(todo'[v]),
         \A v \in Task : SameWait(v) \/ EndedWait(v) \/ LeftWait(v) \/ BeginsWait(v)
  PROVE  WaitInv'
<1>1. WaitersInv'
  BY WaitersStep
<1>2. NoWaiterForgotten'
  BY DEF NoWaiterForgotten
<1>3. QED
  BY <1>1, <1>2 DEF WaitInv

LEMMA LockFreeWait ==
  ASSUME WaitInv, MutexInv', NEW t \in Task, Invokes(t, "mutexLock"), LockFree(t),
         UNCHANGED <<alive, given>>
  PROVE  WaitInv'
<1>1. /\ k' = k /\ owner' = t /\ UNCHANGED <<running, todo>>
  BY DEF LockFree, OwnerChange, Restored
<1>2. running /\ t \notin Queue /\ t # NULL
  BY Caller, ListNames
<1>3. Given' = Given
  BY <1>1 DEF Given
<1>4. ListsInv' /\ \A v \in Task : SameSeen(Given, Given', v)
  BY <1>1, <1>2, <1>3, SameGiven
<1>5. \A v \in Task : SameWait(v)
  BY <1>1, <1>4, SeenWait
<1>6. \A v \in Task : Left(todo'[v])
  BY <1>1 DEF WaitInv, WaitersInv
<1>7. QED
  BY <1>1, <1>2, <1>4, <1>5, <1>6, OwnedStep

LEMMA LockAgainWait ==
  ASSUME WaitInv, MutexInv', NEW t \in Task, Invokes(t, "mutexLock"), LockAgain(t),
         UNCHANGED <<alive, given>>
  PROVE  WaitInv'
<1>1. UNCHANGED <<k, running, todo, owner>> /\ running
  BY Caller DEF LockAgain
<1>2. QED
  BY <1>1, TodoSame, StillStep

LEMMA LeftTake ==
  Left(<<"sched", "waitRet">>) /\ Awaits(<<"sched", "waitRet">>)
<1> DEFINE w == <<"sched", "waitRet">>
<1>1. \A i \in DOMAIN w : w[i] \in {"sched", "waitRet"}
  OBVIOUS
<1>2. \A i \in DOMAIN w : w[i] \notin {"delayRet", "gone"}
  BY <1>1
<1>3. QED
  BY <1>2, AwaitTake DEF Left

LEMMA LockTakenWait ==
  ASSUME WaitInv, MutexInv', NEW t \in Task, Invokes(t, "mutexLock"), LockTaken(t),
         UNCHANGED <<alive, given>>
  PROVE  WaitInv'
<1> DEFINE k0 == RaiseOwner(k, t)
<1>1. PICK n \in LockTimeOuts :
        Then(t, os_add_tick_task(k0, t, n, Mutex), <<"sched", "waitRet">>)
  BY DEF LockTaken
<1> DEFINE k1 == os_add_tick_task(k0, t, n, Mutex)
<1>2. /\ k' = k1 /\ running' = running /\ owner' = owner /\ owner \in Task \ {t} /\ owner # NULL
      /\ todo' = [todo EXCEPT ![t] = <<"sched", "waitRet">>]
  BY <1>1, WaitParts DEF LockTaken, Then
<1>3. /\ running /\ t \in alive /\ t # Idle /\ t \notin Queue /\ k.state[t] # "BLOCKING"
      /\ k.bstate[t] # "TIMEOUT"
  BY Caller
<1>4. /\ k0 \in KernelState /\ k0.state = k.state /\ \A u \in Task \ {owner} : k0.prio[u] = k.prio[u]
      /\ Shadow(k0, given) = Given
  BY <1>2, WaitParts, RaiseFacts, RestShadow DEF Given
<1>5. k0.list = k.list /\ k0.bstate = k.bstate /\ \A u : TickLinked(k0, u) <=> TickLinked(k, u)
  <2>1. /\ Shadow(k0, given).list = k0.list /\ Shadow(k0, given).bstate = k0.bstate
        /\ \A u : TickLinked(Shadow(k0, given), u) <=> TickLinked(k0, u)
    BY <1>4, WaitParts, ShadowSame
  <2>2. /\ Given.list = k.list /\ Given.bstate = k.bstate
        /\ \A u : TickLinked(Given, u) <=> TickLinked(k, u)
    BY WaitParts, ShadowSame DEF Given
  <2>3. QED
    BY <1>4, <2>1, <2>2
<1> HIDE DEF k0
<1>6. ASSUME NEW u \in Task, u = t \/ TickLinked(k0, u) \/ u \in ToSet(k0.list[Mutex])
      PROVE  given[u] = k0.prio[u]
  <2>1. u = t \/ u \in Queue
    BY <1>5, <1>6, QueueBlocked DEF Queue
  <2>2. u # owner
    BY <1>2, <2>1 DEF WaitInv, WaitersInv
  <2>3. k.prio[u] = given[u]
    BY <2>2, WaitParts DEF PrioInv
  <2>4. QED
    BY <1>4, <2>2, <2>3
<1>7. n \in Count \cup {Never} /\ Mutex \in Object \ {SysBlock} /\ given \in [Task -> Prio]
  BY WaitParts, MutexFacts
<1>8. /\ k1 \in KernelState /\ OnlyTask(Shadow(k0, given), Shadow(k1, given), t)
      /\ k1.state[t] = "BLOCKING" /\ t \in ToSet(k1.list[Mutex])
      /\ k1.bstate[t] \in {"TICKING", k0.bstate[t]}
  <2>1. Lists(Shadow(k0, given)) /\ k0.state[t] # "BLOCKING"
    BY <1>3, <1>4, WaitParts
  <2>2. \A u \in Task : u = t \/ TickLinked(k0, u) \/ u \in ToSet(k0.list[Mutex])
                         => given[u] = k0.prio[u]
    BY <1>6
  <2>3. k0 \in KernelState
    BY <1>4
  <2>4. QED
    BY <1>7, <2>1, <2>2, <2>3, ShadowTake
<1> HIDE DEF k1
<1>9. /\ Given' = Shadow(k1, given) /\ OnlyTask(Given, Given', t)
      /\ Given'.state[t] = "BLOCKING" /\ t \in ToSet(Given'.list[Mutex]) /\ t \in Queue'
      /\ k'.bstate[t] # "TIMEOUT" /\ Given' \in KernelState
  BY <1>2, <1>3, <1>4, <1>5, <1>7, <1>8, NextGiven, ShadowSame DEF Queue
<1>10. Safe(Given, alive) /\ Idle \in alive /\ Given \in KernelState /\ alive \subseteq Task
  BY <1>3, GivenMirror, WaitParts
<1>11. Safe(Given', alive')
  <2>1. Given'.lock = 0 /\ Given'.map # {}
    <3>1. Given'.lock = 0
      BY <1>9, GivenMirror DEF OnlyTask, SameSched
    <3>2. Given'.prio[Idle] = Given.prio[Idle] /\ Given.prio[Idle] \in Prio
      BY <1>3, <1>9, <1>10, ListNames DEF OnlyTask, Untouched, KernelState
    <3>3. Idle \in ToSet(Given.list[Given.prio[Idle]]) /\ Idle \in Task \ {t}
      BY <1>3, <1>10, ListNames DEF Safe, Findable
    <3>4. Idle \in ToSet(Given'.list[Given.prio[Idle]])
      BY <1>9, <3>2, <3>3, ListNames DEF OnlyTask, Untouched
    <3>5. Given'.list[Given.prio[Idle]] # <<>>
      BY <1>9, <3>2, <3>4, ListNames, TasksOfList, EmptySet
    <3>6. QED
      BY <1>9, <3>1, <3>2, <3>5 DEF OnlyTask, Lists, MapExact
  <2>2. HighStart(Given') /\ HolderWaits(Given') /\ Findable(Given', t)
    BY <1>9, <2>1, MutexFacts DEF HighStart, HolderWaits, Findable
  <2>3. QED
    BY <1>3, <1>9, <1>10, <2>2, SafeOneTask
<1>12. ListsInv'
  <2>1. Given'.lock = Given.lock /\ Given'.fault = Given.fault
    BY <1>9 DEF OnlyTask, SameSched
  <2>2. QED
    BY <1>2, <1>3, <1>11, <2>1, ListsNext
<1>13. todo'[t] = <<"sched", "waitRet">> /\ \A v \in Task \ {t} : todo'[v] = todo[v]
  BY <1>2, WaitParts
<1>14. \A v \in Task \ {t} : SameWait(v)
  BY <1>9, <1>13, SeenOnly, SeenWait
<1>15. BeginsWait(t)
  BY <1>2, <1>9, <1>13, LeftTake DEF BeginsWait
<1>16. \A v \in Task : Left(todo'[v])
  BY <1>13, LeftTake DEF WaitInv, WaitersInv
<1>17. QED
  BY <1>2, <1>12, <1>14, <1>15, <1>16, OwnedStep

LEMMA LockWait ==
  ASSUME WaitInv, MutexInv', NEW t \in Task, os_mutex_lock(t)
  PROVE  WaitInv'
BY LockFreeWait, LockAgainWait, LockTakenWait DEF os_mutex_lock

LEMMA LockReturnWait ==
  ASSUME WaitInv, MutexInv', NEW t \in Task, LockReturn(t)
  PROVE  WaitInv'
<1> DEFINE k1 == [k EXCEPT !.bstate[t] = "NONE"]
           w == todo[t]
<1>1. /\ running /\ w # <<>> /\ Head(w) = "waitRet" /\ k.state[t] # "BLOCKING"
      /\ UNCHANGED <<running, alive, given>>
      /\ todo' = [todo EXCEPT ![t] = Tail(w)]
      /\ \/ k.bstate[t] = "TIMEOUT" /\ k' = k1 /\ owner' = owner
         \/ k' = Restored(k1) /\ owner' = t
  BY DEF LockReturn, Continues, Runs, OwnerChange
<1>2. w \in Seq(Step) /\ Left(w) /\ Shape(w)
  BY WaitParts DEF WaitInv, WaitersInv, Left
<1>3. Left(Tail(w)) /\ ~ Awaits(Tail(w))
  BY <1>1, <1>2, AwaitTail, LeftTail
<1> HIDE DEF w
<1>4. todo'[t] = Tail(w) /\ \A v \in Task \ {t} : todo'[v] = todo[v]
  BY <1>1, WaitParts
<1>5. \A v \in Task : Left(todo'[v])
  BY <1>3, <1>4 DEF WaitInv, WaitersInv
<1>6. "NONE" \in BlockState /\ k \in KernelState /\ given \in [Task -> Prio]
      /\ Lists(Shadow(k, given)) /\ MutexTypeInv
  BY WaitParts DEF Given, BlockState
<1>7. /\ k1 \in KernelState /\ OnlyTask(Shadow(k, given), Shadow(k1, given), t)
      /\ k1.bstate[t] = "NONE" /\ k1.state = k.state /\ k1.list = k.list
      /\ k1.map = k.map /\ k1.high = k.high
      /\ \A u : TickLinked(k1, u) <=> TickLinked(k, u)
  BY <1>6, ShadowSet
<1> HIDE DEF k1
<1>8. /\ Given' = Shadow(k1, given) /\ Given = Shadow(k, given) /\ OnlyTask(Given, Given', t)
      /\ Given' \in KernelState
  BY <1>1, <1>6, <1>7, NextGiven, RestShadow, ShadowSame DEF Given
<1>9. /\ Given'.bstate[t] = "NONE" /\ Given'.state = Given.state /\ Given'.list = Given.list
      /\ Given'.map = Given.map /\ Given'.high = Given.high /\ Given'.prio = Given.prio
      /\ Given.state = k.state /\ Given.list = k.list
      /\ \A u : TickLinked(Given', u) <=> TickLinked(Given, u)
  BY <1>6, <1>7, <1>8, ShadowSame
<1>10. /\ k'.bstate[t] = "NONE" /\ k'.state = k.state /\ k'.list = k.list
  BY <1>8, <1>9, NextGiven, ShadowSame
<1>11. t \notin Queue /\ t \notin Queue' /\ LeftWait(t)
  BY <1>1, <1>10, QueueBlocked DEF Queue, LeftWait
<1>12. Safe(Given', alive')
  <2>1. Safe(Given, alive) /\ alive \subseteq Task /\ Given \in KernelState /\ Given.lock = 0
    BY GivenMirror, WaitParts
  <2>2. HighStart(Given') /\ HolderWaits(Given') /\ (t \in alive => Findable(Given', t))
    BY <1>8, <1>9, <2>1 DEF Safe, HighStart, HolderWaits, Findable, OnlyTask, SameSched
  <2>3. t = Idle => Given'.state[t] # "BLOCKING"
    BY <1>1, <1>9
  <2>4. QED
    BY <1>1, <1>8, <2>1, <2>2, <2>3, SafeOneTask
<1>13. ListsInv'
  <2>1. Given'.lock = Given.lock /\ Given'.fault = Given.fault
    BY <1>8 DEF OnlyTask, SameSched
  <2>2. QED
    BY <1>1, <1>12, <2>1, ListsNext
<1>14. \A v \in Task \ {t} : SameWait(v)
  BY <1>4, <1>8, SeenOnly, SeenWait
<1>15. CASE k.bstate[t] = "TIMEOUT" /\ owner' = owner
  <2>1. ~ OnItsWay(t)
    BY <1>15 DEF OnItsWay
  <2>2. NoWaiterForgotten'
    BY <1>11, <1>14, <1>15, <2>1, ForgotStep
  <2>3. WaitersInv'
    BY <1>5, <1>11, <1>14, <1>15, WaitersStep
  <2>4. QED
    BY <1>13, <2>2, <2>3 DEF WaitInv
<1>16. CASE owner' = t
  BY <1>5, <1>11, <1>13, <1>14, <1>16, ListNames, OwnedStep
<1>17. QED
  BY <1>1, <1>15, <1>16

\* Nobody has the mutex, and nobody waits for it.
LEMMA IdleMutex ==
  ASSUME WaitInv, MutexInv', ListsInv', owner' = NULL, \A v \in Task : Left(todo'[v]),
         \A v \in Task : SameWait(v) \/ EndedWait(v), Queue' = {}
  PROVE  WaitInv'
<1>1. WaitersInv'
  BY WaitersStep
<1>2. NoWaiterForgotten'
  BY NewQueue DEF NoWaiterForgotten, Waits
<1>3. QED
  BY <1>1, <1>2 DEF WaitInv

LEMMA UnlockWait ==
  ASSUME WaitInv, MutexInv', NEW t \in Task, os_mutex_unlock(t)
  PROVE  WaitInv'
<1>1. /\ Invokes(t, "mutexUnlock") /\ owner = t /\ UNCHANGED <<alive, given>>
      /\ running /\ todo[t] = <<>>
  BY Caller DEF os_mutex_unlock
<1>2. CASE StillNested
  <2>1. UNCHANGED <<k, running, todo, owner>>
    BY <1>2 DEF os_mutex_unlock, vars
  <2>2. QED
    BY <1>1, <2>1, TodoSame, StillStep
<1> DEFINE k0 == Restored(k)
<1>3. /\ k0 \in KernelState /\ Shadow(k0, given) = Given
      /\ \A u \in Task : k0.prio[u] = given[u]
  <2>1. MutexTypeInv /\ k \in KernelState /\ PrioInv
    BY WaitParts
  <2>2. k0 \in KernelState /\ \A u \in Task : k0.prio[u] = IF u = owner THEN ownerPrio ELSE k.prio[u]
    BY <2>1, RestoredFacts
  <2>3. Shadow(k0, given) = Given
    BY <2>1, RestShadow DEF Given
  <2>4. QED
    BY <1>1, <2>1, <2>2, <2>3, ListNames DEF PrioInv
<1>4. k0.list = k.list /\ k0.bstate = k.bstate /\ k0.state = k.state
  BY <1>3, WaitParts, ShadowSame DEF Given
<1>5. CASE ~ StillNested /\ Waits
  <2> DEFINE u == Head(k0.list[Mutex])
             k1 == os_block_wakeup_first_task(k0, Mutex)
  <2>1. owner' = NULL /\ Then(t, k1, <<"sched">>) /\ k' = k1 /\ running' = running
    BY <1>5 DEF os_mutex_unlock, ReleaseOwner, Then
  <2>2. k0.list[Mutex] # <<>> /\ Mutex \in Object /\ given \in [Task -> Prio]
        /\ Lists(Shadow(k0, given)) /\ HighStart(Shadow(k0, given))
    BY <1>3, <1>4, <1>5, WaitParts DEF Waits
  <2>3. u \in Task
    <3>1. k0.list[Mutex] \in Seq(Task)
      BY <1>3, MutexFacts, TasksOfList
    <3>2. QED
      BY <2>2, <3>1
  <2>4. given[u] = k0.prio[u]
    BY <1>3, <2>3
  <2>5. u \in ToSet(k0.list[Mutex]) /\ MadeReady(k0, k1, u, given, given) /\ k1.bstate = k0.bstate
    <3> HIDE DEF k0
    <3>1. QED
      BY <1>3, <2>2, <2>4, ShadowWakeFirst
  <2> HIDE DEF k0, u, k1
  <2>6. u \in Queue /\ MadeReady(k, k', u, given, given')
    BY <1>1, <1>3, <1>4, <2>1, <2>5 DEF MadeReady, Queue, Given
  <2>7. CallsKept
    <3>1. <<"sched">> \in {<<>>, <<"sched">>}
      OBVIOUS
    <3>2. QED
      BY <1>1, <2>1, <3>1, NoWait
  <2>8. ListsInv' /\ \A v \in Task : SameWait(v) \/ EndedWait(v)
    BY <1>1, <2>1, <2>3, <2>6, <2>7, ReadyEffect
  <2>9. WaitersInv'
    BY <2>1, <2>7, <2>8, WaitersStep DEF CallsKept
  <2>10. ASSUME NEW v \in Task, v = u PROVE OnItsWay(v)'
    <3>1. Awaits(todo'[v]) /\ k.bstate[v] # "TIMEOUT"
      BY <2>6, <2>7, <2>10 DEF CallsKept, WaitInv, WaitersInv
    <3>2. k'.state[v] = "READY" /\ k'.bstate[v] = k.bstate[v]
      BY <1>4, <2>1, <2>5, <2>10 DEF MadeReady
    <3>3. QED
      BY <3>1, <3>2 DEF OnItsWay, Awaits
  <2>11. NoWaiterForgotten'
    BY <2>3, <2>10 DEF NoWaiterForgotten
  <2>12. QED
    BY <2>8, <2>9, <2>11 DEF WaitInv
<1>6. CASE ~ StillNested /\ ~ Waits
  <2>1. owner' = NULL /\ Then(t, k0, <<>>) /\ k' = k0 /\ running' = running
    BY <1>6 DEF os_mutex_unlock, ReleaseOwner, Then
  <2> HIDE DEF k0
  <2>2. CallsKept
    <3>1. <<>> \in {<<>>, <<"sched">>}
      OBVIOUS
    <3>2. QED
      BY <1>1, <2>1, <3>1, NoWait
  <2>3. Given' = Given
    BY <1>1, <1>3, <2>1, NextGiven
  <2>4. ListsInv' /\ \A v \in Task : SameSeen(Given, Given', v)
    BY <1>1, <2>1, <2>3, SameGiven
  <2>5. \A v \in Task : SameWait(v)
    BY <2>2, <2>4, SeenWait DEF CallsKept
  <2>6. Queue' = {}
    BY <1>4, <1>6, <2>1, NewQueue DEF Waits
  <2>7. QED
    BY <2>1, <2>2, <2>4, <2>5, <2>6, IdleMutex DEF CallsKept
<1>7. QED
  BY <1>2, <1>5, <1>6

\* os_mutex_destory, when no waiting task is on the tick list.
LEMMA DestroyWait ==
  ASSUME MutexClient, WaitInv, MutexInv', NEW t \in Task, os_mutex_destory(t)
  PROVE  WaitInv'
<1> DEFINE k0 == Restored(k)
           k1 == os_block_wakeup_all_task(k0, Mutex)
<1>1. /\ Invokes(t, "destroy") /\ owner' = NULL /\ UNCHANGED <<alive, given>>
      /\ running /\ todo[t] = <<>> /\ running' = running
      /\ \A u \in Queue : ~ TickLinked(k, u)
      /\ Then(t, [k1 EXCEPT !.list[Mutex] = <<>>], <<"sched">>)
      /\ k' = [k1 EXCEPT !.list[Mutex] = <<>>]
  BY Caller DEF os_mutex_destory, Destroyable, Then, MutexClient, Queue
<1>2. /\ k0 \in KernelState /\ Shadow(k0, given) = Given
      /\ \A u \in Task \ {owner} : k0.prio[u] = given[u]
  <2>1. MutexTypeInv /\ k \in KernelState /\ PrioInv
    BY WaitParts
  <2>2. k0 \in KernelState /\ \A u \in Task : k0.prio[u] = IF u = owner THEN ownerPrio ELSE k.prio[u]
    BY <2>1, RestoredFacts
  <2>3. Shadow(k0, given) = Given
    BY <2>1, RestShadow DEF Given
  <2>4. QED
    BY <2>1, <2>2, <2>3 DEF PrioInv
<1>3. /\ k0.list = k.list /\ k0.bstate = k.bstate /\ k0.state = k.state
      /\ \A u : TickLinked(k0, u) <=> TickLinked(k, u)
  <2>1. /\ Shadow(k0, given).list = k0.list /\ Shadow(k0, given).bstate = k0.bstate
        /\ Shadow(k0, given).state = k0.state
        /\ \A u : TickLinked(Shadow(k0, given), u) <=> TickLinked(k0, u)
    BY <1>2, WaitParts, ShadowSame
  <2>2. /\ Given.list = k.list /\ Given.bstate = k.bstate /\ Given.state = k.state
        /\ \A u : TickLinked(Given, u) <=> TickLinked(k, u)
    BY WaitParts, ShadowSame DEF Given
  <2>3. QED
    BY <1>2, <2>1, <2>2
<1> HIDE DEF k0
<1>4. /\ Mutex \in Object /\ given \in [Task -> Prio] /\ Queue \subseteq Task
      /\ Lists(Shadow(k0, given)) /\ HighStart(Shadow(k0, given))
  BY <1>2, WaitParts
<1>5. \A u \in ToSet(k0.list[Mutex]) : ~ TickLinked(k0, u) /\ given[u] = k0.prio[u]
  BY <1>1, <1>2, <1>3, <1>4 DEF Queue, WaitInv, WaitersInv
<1>6. Woken(k0, k1, given, Queue) /\ k1.list[Mutex] = <<>>
  <2>1. Woken(k0, k1, given, ToSet(k0.list[Mutex])) /\ k1.list[Mutex] = <<>>
    BY <1>2, <1>4, <1>5, WokenAll
  <2>2. QED
    BY <1>3, <2>1 DEF Queue
<1> HIDE DEF k1
<1>7. /\ k1 \in KernelState /\ k1.bstate = k.bstate
      /\ Lists(Shadow(k1, given)) /\ HighStart(Shadow(k1, given))
      /\ SameSched(Given, Shadow(k1, given)) /\ k1.fault = k0.fault
      /\ \A u \in Task :
           IF u \in Queue
             THEN k1.state[u] = "READY" /\ ~ TickLinked(k1, u) /\ u \in ToSet(k1.list[given[u]])
             ELSE Untouched(Given, Shadow(k1, given), u)
  BY <1>2, <1>3, <1>6 DEF Woken
<1>8. [k1 EXCEPT !.list[Mutex] = <<>>] = k1
  <2>1. [k1.list EXCEPT ![Mutex] = <<>>] = k1.list
    BY <1>6, <1>7, MutexFacts DEF KernelState
  <2>2. QED
    BY <2>1, <1>7 DEF KernelState
<1>9. k' = k1 /\ Given' = Shadow(k1, given) /\ Given' \in KernelState
  BY <1>1, <1>4, <1>7, <1>8, NextGiven, ShadowSame
<1>10. /\ Given'.state = k1.state /\ Given'.list = k1.list /\ Given'.prio = given
       /\ Given'.bstate = k1.bstate /\ Given'.fault = k1.fault
       /\ \A u : TickLinked(Given', u) <=> TickLinked(k1, u)
  BY <1>4, <1>7, <1>9, ShadowSame
<1>11. Given.fault = k0.fault /\ Given.lock = 0 /\ Given.prio = given /\ Given.bstate = k.bstate
  BY <1>2, <1>3, <1>4, GivenMirror, ShadowSame
<1>12. Safe(Given', alive')
  <2>1. HolderWaits(Given')
    BY <1>7, <1>9, <1>11 DEF HolderWaits, SameSched
  <2>2. ASSUME NEW u \in alive PROVE Findable(Given', u)
    <3>1. u \in Task
      BY <2>2, WaitParts
    <3>2. CASE u \in Queue
      BY <1>7, <1>10, <3>1, <3>2 DEF Findable
    <3>3. CASE u \notin Queue
      <4>1. Untouched(Given, Given', u)
        BY <1>7, <1>9, <3>1, <3>3
      <4>2. Findable(Given, u)
        BY <2>2, GivenMirror DEF Safe
      <4>3. given[u] \in List
        BY <1>4, <3>1, ListNames
      <4>4. QED
        BY <1>10, <1>11, <4>1, <4>2, <4>3, ListNames DEF Untouched, Findable
    <3>4. QED
      BY <3>2, <3>3
  <2>3. Given'.state[Idle] # "BLOCKING"
    <3>1. Given.state[Idle] # "BLOCKING" /\ Idle \in Task
      BY WaitParts, ListNames
    <3>2. QED
      BY <1>7, <1>9, <1>10, <3>1 DEF Untouched
  <2>4. QED
    BY <1>1, <1>7, <1>9, <2>1, <2>2, <2>3 DEF Safe
<1>13. ListsInv'
  <2>1. Given'.lock = Given.lock /\ Given'.fault = Given.fault
    BY <1>7, <1>9, <1>10, <1>11 DEF SameSched
  <2>2. QED
    BY <1>1, <1>12, <2>1, ListsNext
<1>14. CallsKept
  <2>1. <<"sched">> \in {<<>>, <<"sched">>}
    OBVIOUS
  <2>2. QED
    BY <1>1, <2>1, NoWait
<1>15. Queue' = {}
  BY <1>6, <1>9, NewQueue
<1>16. ASSUME NEW v \in Task PROVE SameWait(v) \/ EndedWait(v)
  <2>1. CASE v \in Queue
    <3>1. k'.state[v] = "READY" /\ Awaits(todo'[v])
      BY <1>7, <1>9, <1>14, <2>1 DEF CallsKept, WaitInv, WaitersInv
    <3>2. QED
      BY <1>15, <2>1, <3>1 DEF EndedWait
  <2>2. CASE v \notin Queue
    <3>1. Untouched(Given, Given', v)
      BY <1>7, <1>9, <2>2
    <3>2. SameSeen(Given, Given', v)
      BY <3>1, MutexFacts DEF Untouched, SameSeen
    <3>3. QED
      BY <1>14, <3>2, SeenWait DEF CallsKept
  <2>3. QED
    BY <2>1, <2>2
<1>17. QED
  BY <1>1, <1>13, <1>14, <1>15, <1>16, IdleMutex DEF CallsKept

-----------------------------------------------------------------------------
(* The invariant holds.                                                    *)

LEMMA WaitInvStep == MutexClient /\ WaitInv /\ [MutexNext]_allVars => WaitInv'
<1> SUFFICES ASSUME MutexClient, WaitInv, [MutexNext]_allVars PROVE WaitInv'
  OBVIOUS
<1>1. MutexInv'
  BY MutexInvStep DEF WaitInv
<1>2. CASE UNCHANGED allVars
  BY <1>2 DEF allVars, mutexVars, vars, WaitInv, MutexInv, MutexTypeInv, TypeInv, TypeOK, OwnerInv,
     PrioInv, ListsInv, WaitersInv, NoWaiterForgotten, Given, Queue, Waits, OnItsWay
<1>3. QED
  BY <1>1, <1>2, KernelWait, LockWait, LockReturnWait, UnlockWait, DestroyWait DEF MutexNext

LEMMA WaitInvInit == MutexInit => WaitInv
<1> SUFFICES ASSUME MutexInit PROVE WaitInv
  OBVIOUS
<1>1. MutexInv /\ SafeInv /\ Init /\ owner = NULL
  BY MutexInvInit, SafeInvInit DEF MutexInit, os_mutex_init
<1>2. /\ k = KernelReset /\ alive = {} /\ todo = [t \in Task |-> <<>>] /\ running = FALSE
      /\ swEnabled = FALSE /\ irq = "none" /\ given = [t \in Task |-> MaxPrio]
  BY <1>1 DEF Init, MutexInit
<1>3. /\ k.prio = [t \in Task |-> MaxPrio] /\ k.lock = 0 /\ ~ k.fault
      /\ k.state = [t \in Task |-> "NONE"] /\ k.bstate = [t \in Task |-> "NONE"]
      /\ k.list = [l \in List |-> <<>>] /\ k \in KernelState
  BY <1>1, <1>2, MutexParts DEF KernelReset, MutexInv
<1>4. Given = k
  BY <1>2, <1>3 DEF Given, Shadow, KernelState
<1>5. ListsInv
  BY <1>1, <1>2, <1>3, <1>4 DEF ListsInv, SafeInv
<1>6. Queue = {} /\ k.list[Mutex] = <<>>
  BY <1>3, MutexFacts DEF Queue, ToSet
<1>7. \A t \in Task : todo[t] = <<>> /\ Left(todo[t])
  BY <1>2, LeftNone
<1>8. WaitersInv
  BY <1>3, <1>6, <1>7 DEF WaitersInv
<1>9. NoWaiterForgotten
  BY <1>6 DEF NoWaiterForgotten, Waits
<1>10. QED
  BY <1>1, <1>5, <1>8, <1>9 DEF WaitInv

\* No task waits for a mutex that nobody has or is about to take: unlocking, a lock that
\* is taken before the woken task runs, a time limit that passes and destroying the mutex
\* lose no wake-up, also while the owner stands in a queue that is not the one of its
\* priority (os_mutex_lock, os_mutex_unlock, os_block_wakeup_first_task).
THEOREM NobodyForgotten == ASSUME MutexClient PROVE MutexSpec => []NoWaiterForgotten
<1>1. MutexClient /\ WaitInv /\ [MutexNext]_allVars => WaitInv'
  BY WaitInvStep
<1>2. WaitInv => NoWaiterForgotten
  BY DEF WaitInv
<1>3. QED
  BY <1>1, <1>2, WaitInvInit, PTL DEF MutexSpec

\* The raise of a priority that leaves the owner in its old queue does not make the
\* scheduler link a node twice or take a list head for a task (__mutex_owner_prio_up,
\* os_rq_get_highest_prio_task).
THEOREM RaiseIsHarmless == ASSUME MutexClient PROVE MutexSpec => []NoFault
<1>1. MutexClient /\ WaitInv /\ [MutexNext]_allVars => WaitInv'
  BY WaitInvStep
<1>2. WaitInv => NoFault
  BY DEF WaitInv, ListsInv, NoFault
<1>3. QED
  BY <1>1, <1>2, WaitInvInit, PTL DEF MutexSpec
=============================================================================
