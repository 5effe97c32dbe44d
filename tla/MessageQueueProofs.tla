-------------------------- MODULE MessageQueueProofs --------------------------
(***************************************************************************)
(* The message queue is a bounded queue, no wakeup is lost and no receive  *)
(* reads the head of an empty list, if the queue is only polled; if one    *)
(* task waits, of a higher priority than all others, and interrupts do not *)
(* post; or if a listener takes all the messages.  A task that has waited  *)
(* works on the queue outside of a critical section.  In the second case   *)
(* nobody else gets the processor until it is done; in the third, tasks    *)
(* and interrupts come in between, and the proof is about what they may    *)
(* find: the list and the count are one apart.                             *)
(***************************************************************************)
EXTENDS MessageQueue, KernelProofs

\* The application follows one of the three rules, and uses the rest of the kernel so
\* that tasks neither come nor go, are not suspended, a wait is not cut short by
\* another task and the scheduler is not locked.
MqClient ==
  /\ ~ Careless /\ "free" \notin Disciplines
  /\ \A c \in {"create", "exit", "suspend", "resume", "wake", "lock"} : c \notin Calls

\* The task is in a call that waits or has waited.
Busy(t) == job[t] # NoJob

\* What the task's call waits for.
Possible(t) == IF job[t].op = "receive" THEN num > 0 ELSE num < Capacity

\* A task that has worked on the list and not yet on the count.
Halfway(t) == Busy(t) /\ job[t].at \in {"load", "store"}

DataInv ==
  /\ msgs \in Seq(Message) /\ num \in 0..Capacity
  /\ job \in [Task -> Job]
  /\ posts \in Seq(Message) /\ Len(posts) <= MaxPosts
  /\ discipline \in Disciplines

\* What is posted is published before any task goes on.
PostsInv == posts # <<>> => MayPost /\ (swPending \/ irq = "sw")

\* What kernel and application rely on, and that the memory is sound.  A published
\* message may wake a task of a higher priority than the one that is about to run.
BaseInv ==
  /\ SafetyInv /\ ReadyInv /\ k.lock = 0 /\ ~ k.fault
  /\ discipline = "ranked" => ChoiceInv

\* A control block that is not in use is in no list.
UnusedInv == \A t \in Task \ alive : /\ ~ TickLinked(k, t)
                                     /\ \A l \in List : t \notin ToSet(k.list[l])

\* What is left of a task's call tells whether it waits or has waited.
CallInv(t) ==
  /\ Shape(todo[t]) /\ (Awaits(todo[t]) <=> Busy(t))
  /\ \A i \in DOMAIN todo[t] : todo[t][i] # "gone"

\* Who waits, or has waited and is not done, is of a higher priority than all others,
\* or is the listener; when it does not wait any longer it is ready.
RankInv(t) ==
  /\ t \in ToSet(k.list[Queue]) => Busy(t) /\ job[t].at = "wait"
  /\ Busy(t) => /\ running /\ t \in alive
                /\ t \in ToSet(k.list[Queue]) \/ Ready(k, t)
                /\ \/ discipline = "ranked" /\ \A u \in alive \ {t} : k.prio[t] < k.prio[u]
                   \/ discipline = t /\ job[t].op = "receive"

\* A call waits while what it waits for is not possible, and does it when it is.
ProgressInv(t) ==
  Busy(t) =>
    /\ t \in ToSet(k.list[Queue]) => ~ Possible(t)
    /\ (/\ t \notin ToSet(k.list[Queue]) /\ job[t].at # "wake"
        /\ job[t].at = "wait" => k.bstate[t] # "TIMEOUT") => Possible(t)
    /\ Halfway(t) =>
         Len(msgs) = num + (IF job[t].op = "send" THEN 1 ELSE -1)
    /\ job[t].at = "store" => job[t].count = num

TaskInv == \A t \in Task : CallInv(t) /\ RankInv(t) /\ ProgressInv(t)

CountInv == (\A t \in Task : ~ Halfway(t)) => num = Len(msgs)

MqInv == BaseInv /\ DataInv /\ PostsInv /\ UnusedInv /\ TaskInv /\ CountInv

-----------------------------------------------------------------------------
(* What the invariant says at a glance.                                    *)

LEMMA MqFacts == /\ Queue \in Object /\ Queue # SysBlock /\ Queue \in List
                 /\ SysBlock \in List /\ Capacity \in Nat /\ 1 <= Capacity
                 /\ Capacity < CountSize /\ CountSize = 65536 /\ MaxPosts \in Nat
                 /\ \A n \in TimeOuts : n \in Count \cup {Never}
<1>1. CountSize \in Nat
  BY DEF CountSize
<1>2. Capacity \in Nat /\ 1 <= Capacity /\ Capacity < CountSize /\ MaxPosts \in Nat
  BY <1>1, MqAssumption
<1>3. Queue \in Object /\ Queue # SysBlock /\ Queue \in List /\ SysBlock \in List
  BY MqAssumption, ListNames
<1>4. \A n \in TimeOuts : n \in Count \cup {Never}
  BY MqAssumption
<1>5. CountSize = 65536
  BY DEF CountSize
<1>6. QED
  BY <1>2, <1>3, <1>4, <1>5

LEMMA Words == \A t \in Task : t \notin {"polls", "ranked", "free"}
BY MqAssumption

LEMMA CountFits == /\ 0 \in 0..(CountSize - 1)
                   /\ \A n \in 0..Capacity : n \in 0..(CountSize - 1)
<1>1. CountSize \in Nat /\ CountSize > 0
  BY DEF CountSize
<1>2. 0 \in 0..(CountSize - 1)
  BY <1>1
<1>3. \A n \in 0..Capacity : n \in 0..(CountSize - 1)
  BY <1>1, MqAssumption
<1>4. QED
  BY <1>2, <1>3

LEMMA JobFacts ==
  ASSUME NEW j \in Job, j # NoJob
  PROVE  /\ j.op \in {"send", "receive"} /\ j.at \in {"wait", "list", "load", "store", "wake"}
         /\ j.count \in 0..(CountSize - 1) /\ (j.op = "send" => j.msg \in Message)
BY DEF Job, NoJob

\* A call that goes on is at another place, and the same otherwise.
Continued(j, j1) == j1 \in Job /\ j1 # NoJob /\ j1.op = j.op

LEMMA PlaceOf ==
  ASSUME NEW j \in Job, j # NoJob, NEW p \in {"wait", "list", "load", "store", "wake"}
  PROVE  Continued(j, [j EXCEPT !.at = p]) /\ [j EXCEPT !.at = p].at = p
BY DEF Job, NoJob, Continued

LEMMA CountOf ==
  ASSUME NEW j \in Job, j # NoJob, NEW p \in {"wait", "list", "load", "store", "wake"},
         NEW c \in 0..(CountSize - 1)
  PROVE  /\ Continued(j, [j EXCEPT !.at = p, !.count = c])
         /\ [j EXCEPT !.at = p, !.count = c].at = p
         /\ [j EXCEPT !.at = p, !.count = c].count = c
BY DEF Job, NoJob, Continued

LEMMA BaseParts ==
  ASSUME BaseInv
  PROVE  /\ TypeInv /\ LockInv /\ SafeInv /\ ReadyInv /\ k.lock = 0 /\ ~ k.fault
         /\ k \in KernelState /\ Lists(k) /\ HighStart(k) /\ alive \subseteq Task
         /\ todo \in [Task -> Seq(Step)] /\ TodoInv
BY TypeParts DEF BaseInv, SafetyInv, SafeInv, Safe, LockInv

LEMMA PrioNumber ==
  ASSUME NEW k0 \in KernelState, NEW t \in Task
  PROVE  k0.prio[t] \in Prio /\ k0.prio[t] \in Int
<1>1. k0.prio[t] \in Prio
  BY DEF KernelState
<1>2. \A p \in Prio : p \in Int
  BY KernelAssumption DEF Prio
<1>3. QED
  BY <1>1, <1>2

\* At most one task is in a call that waits or has waited.
LEMMA OneBusy ==
  ASSUME MqInv, NEW t \in Task, NEW u \in Task, Busy(t), Busy(u)
  PROVE  t = u
<1>1. t \in alive /\ u \in alive
  BY DEF MqInv, TaskInv, RankInv
<1>2. CASE discipline = "ranked"
  <2>1. t # u => k.prio[t] < k.prio[u] /\ k.prio[u] < k.prio[t]
    BY <1>1, <1>2, Words DEF MqInv, TaskInv, RankInv
  <2>2. k.prio[t] \in Int /\ k.prio[u] \in Int
    BY BaseParts, PrioNumber DEF MqInv
  <2>3. QED
    BY <2>1, <2>2
<1>3. CASE discipline # "ranked"
  BY <1>3 DEF MqInv, TaskInv, RankInv
<1>4. QED
  BY <1>2, <1>3

\* While a task executes code of its own, or of the rest of its call, any other task
\* that is in such a call waits, or is the listener.
LEMMA OthersWait ==
  ASSUME MqClient, MqInv, NEW t \in Task, Runs(t),
         todo[t] = <<>> \/ Head(todo[t]) = "waitRet"
  PROVE  /\ k.cur = t /\ k.nxt = t /\ running /\ irq = "none" /\ Settled /\ t \in alive
         /\ Ready(k, t) /\ k.state[t] # "BLOCKING" /\ ~ TickLinked(k, t)
         /\ \A o \in Object : t \notin ToSet(k.list[o])
         /\ \A u \in Task \ {t} : Busy(u) => u \in ToSet(k.list[Queue]) \/ discipline = u
         /\ posts = <<>>
<1>1. /\ TypeInv /\ LockInv /\ SafeInv /\ ReadyInv /\ k.lock = 0 /\ k \in KernelState /\ Lists(k)
  BY BaseParts DEF MqInv
<1>2. Works /\ k.cur = t /\ k.nxt = t /\ irq = "none" /\ ~ swPending /\ t # NULL
  BY <1>1, RunsAlone, ListNames
<1>3. Settled
  BY <1>1, <1>2 DEF Settled
<1>4. Ready(k, t)
  BY <1>1, <1>2, <1>3 DEF ReadyInv
<1>5. t \in alive
  BY <1>1, <1>4, PrioNumber, ListNames DEF MqInv, UnusedInv, Ready
<1>6. ASSUME NEW u \in Task \ {t}, Busy(u), u \notin ToSet(k.list[Queue]), discipline # u
      PROVE  FALSE
  <2>1. discipline = "ranked" /\ Ready(k, u) /\ k.prio[u] < k.prio[t]
    BY <1>5, <1>6 DEF MqInv, TaskInv, RankInv
  <2>2. k.prio[u] \in Prio /\ k.prio[u] \in Int /\ k.prio[t] \in Int
    BY <1>1, PrioNumber
  <2>3. k.list[k.prio[u]] # <<>>
    BY <1>1, <2>1, <2>2, ListNames, TasksOfList, EmptySet DEF Ready
  <2>4. k.prio[u] \in k.map /\ k.high <= k.prio[u]
    BY <1>1, <2>2, <2>3 DEF Lists, MapExact
  <2>5. k.prio[t] = k.high
    BY <1>2, <1>3, <2>1 DEF MqInv, BaseInv, ChoiceInv, CurInv, MqClient
  <2>6. QED
    BY <2>1, <2>2, <2>4, <2>5
<1>7. posts = <<>>
  BY <1>2 DEF MqInv, PostsInv
<1>8. QED
  BY <1>1, <1>2, <1>3, <1>4, <1>5, <1>6, <1>7, ReadyNotBlocked, NotWaiting DEF Works

\* With no call left over, only a listener may be between the list and the count.
LEMMA AloneCount ==
  ASSUME MqClient, MqInv, NEW t \in Task, Runs(t), todo[t] = <<>>
  PROVE  ~ Busy(t) /\ \A u \in Task : Halfway(u) => u # t /\ discipline = u
<1>1. ~ Awaits(todo[t])
  BY AwaitNone
<1>2. ~ Busy(t)
  BY <1>1 DEF MqInv, TaskInv, CallInv
<1>3. \A u \in Task : Busy(u) => u # t /\ (job[u].at = "wait" \/ discipline = u)
  BY <1>2, OthersWait DEF MqInv, TaskInv, RankInv
<1>4. QED
  BY <1>2, <1>3 DEF Halfway

-----------------------------------------------------------------------------
(* The steps of the kernel.                                                *)

\* No step of the kernel concerns the queue.
KernelStep ==
  /\ UNCHANGED <<mqVars, discipline>>
  /\ Boot \/ TickHandler \/ MissTick \/ SwEnter \/ (posts = <<>> /\ SwLeave)
     \/ \E t \in Task : Call(t) \/ TaskStep(t)

QueueStep ==
  \/ \E t \in Task : os_mqueue_send(t) \/ os_mqueue_receive(t) \/ os_mqueue_clear(t)
                     \/ Resumes(t)
  \/ IntPost \/ Publish

LEMMA MqSteps == /\ MqNext => KernelStep \/ QueueStep
                 /\ KernelStep => Next
BY DEF MqNext, KernelStep, QueueStep, Next

\* No task is moved.
Unmoved ==
  /\ k'.prio = k.prio /\ k'.lock = k.lock /\ k'.fault = k.fault
  /\ UNCHANGED <<running, alive>>
  /\ \A t \in Task : /\ TickLinked(k', t) <=> TickLinked(k, t)
                     /\ \A l \in List : t \in ToSet(k'.list[l]) <=> t \in ToSet(k.list[l])
                     /\ k'.bstate[t] = "TIMEOUT" <=> k.bstate[t] = "TIMEOUT"

\* One task is moved, which is alive.
MovesOne(u) ==
  /\ u \in alive /\ OnlyTask(k, k', u) /\ k'.prio = k.prio
  /\ UNCHANGED <<running, alive>>

LEMMA UnmovedSame ==
  ASSUME SameTasks(k, k'), k'.lock = k.lock, k'.fault = k.fault, UNCHANGED <<running, alive>>
  PROVE  Unmoved
BY DEF SameTasks, Unmoved

\* What a call starts with does not end a task.
LEMMA NotGone ==
  \A r \in {<<>>, <<"sched">>, <<"sched", "delayRet">>, <<"sched", "waitRet">>} :
    \A i \in DOMAIN r : r[i] # "gone"
<1>1. \A i \in DOMAIN <<"sched">> : <<"sched">>[i] # "gone"
  OBVIOUS
<1>2. \A i \in DOMAIN <<"sched", "delayRet">> : <<"sched", "delayRet">>[i] # "gone"
  OBVIOUS
<1>3. \A i \in DOMAIN <<"sched", "waitRet">> : <<"sched", "waitRet">>[i] # "gone"
  OBVIOUS
<1>4. \A i \in DOMAIN <<>> : <<>>[i] # "gone"
  OBVIOUS
<1>5. QED
  BY <1>1, <1>2, <1>3, <1>4

\* A system call of the kernel moves the task that makes it, which has nothing left to do but
\* to let the scheduler run, and perhaps to return from a delay.
LEMMA CallMovesOne ==
  ASSUME MqClient, MqInv, NEW t \in Task, Call(t)
  PROVE  /\ Runs(t) /\ todo[t] = <<>> /\ MovesOne(t)
         /\ \E w \in {<<"sched">>, <<"sched", "delayRet">>} : todo' = [todo EXCEPT ![t] = w]
<1>1. /\ k \in KernelState /\ Lists(k) /\ HighStart(k) /\ alive \subseteq Task /\ k.lock = 0
      /\ todo \in [Task -> Seq(Step)]
  BY BaseParts DEF MqInv
<1>2. /\ Runs(t) /\ t \in alive \ {Idle} /\ todo[t] = <<>>
      /\ ~ Create(t) /\ ~ Exit(t) /\ ~ os_sched_lock(t) /\ ~ WakeTick(t) /\ ~ os_sched_unlock(t)
      /\ ~ os_task_suspend(t) /\ ~ os_task_resume(t)
  BY <1>1 DEF MqClient, Call, Create, Exit, os_task_delay_ms, os_task_yield, os_task_suspend,
     os_task_resume, WakeTick, os_sched_lock, os_sched_unlock, Invokes
<1>3. /\ k.state[t] # "BLOCKING" /\ ~ TickLinked(k, t)
  BY <1>2, OthersWait
<1>4. CASE os_task_delay_ms(t)
  <2>1. PICK n \in Delays :
          Then(t, os_add_tick_task(k, t, n, NULL), <<"sched", "delayRet">>)
    BY <1>4 DEF os_task_delay_ms
  <2>2. os_add_tick_task(k, t, n, NULL) = os_tick_add_node(k, t, n) /\ n \in Count
    BY <1>3, ClientAssumption, KernelAssumption DEF os_add_tick_task, Count
  <2>3. /\ OnlyTask(k, os_tick_add_node(k, t, n), t)
        /\ os_tick_add_node(k, t, n).prio = k.prio
    BY <1>1, <1>2, <1>3, <2>2, AddNodeLists
  <2>4. UNCHANGED alive
    BY <1>4 DEF os_task_delay_ms
  <2>5. QED
    BY <1>2, <2>1, <2>2, <2>3, <2>4 DEF Then, MovesOne
<1>5. CASE os_task_yield(t)
  <2> DEFINE k1 == [k EXCEPT !.slice[t] = 0]
  <2>1. SameFields(k, k1) /\ k1.fault = k.fault /\ SameSched(k, k1)
    BY <1>1 DEF KernelState, SameSched, SameFields
  <2>2. /\ k' = k1 /\ todo' = [todo EXCEPT ![t] = <<"sched">>] /\ UNCHANGED <<alive, running>>
    BY <1>5 DEF os_task_yield, Then
  <2> HIDE DEF k1
  <2>3. SameTasks(k, k1) /\ k1.state = k.state
    BY <1>1, <2>1, FieldsSame DEF SameFields
  <2>4. OnlyTask(k, k1, t) /\ k1.prio = k.prio
    BY <2>1, <2>3 DEF SameTasks, OnlyTask, Untouched
  <2>5. QED
    BY <1>2, <2>2, <2>4 DEF MovesOne
<1>6. QED
  BY <1>2, <1>4, <1>5 DEF Call

\* What is left of a call, after a step of it: it tells the same as before.
LEMMA TaskStepEffect ==
  ASSUME MqInv, NEW t \in Task, TaskStep(t)
  PROVE  /\ Unmoved
         /\ \E w : /\ todo' = [todo EXCEPT ![t] = w]
                   /\ Shape(w) /\ (Awaits(w) <=> Awaits(todo[t]))
                   /\ \A i \in DOMAIN w : w[i] # "gone"
<1>1. /\ todo[t] # <<>> /\ todo \in [Task -> Seq(Step)] /\ todo[t] \in Seq(Step)
      /\ Shape(todo[t]) /\ \A i \in DOMAIN todo[t] : todo[t][i] # "gone"
      /\ TypeInv /\ LockInv /\ SafeInv /\ k \in KernelState /\ Lists(k) /\ ~ k.fault
  BY BaseParts
  DEF TaskStep, SchedStep, os_ctx_sw, DelayReturn, RunsOff, Continues, MqInv, TaskInv, CallInv
<1>2. /\ Tail(todo[t]) \in Seq(Step) /\ DOMAIN Tail(todo[t]) = 1..(Len(todo[t]) - 1)
      /\ \A i \in 1..(Len(todo[t]) - 1) : Tail(todo[t])[i] = todo[t][i + 1]
      /\ <<>> \o Tail(todo[t]) = Tail(todo[t]) /\ Head(todo[t]) = todo[t][1]
      /\ DOMAIN (<<"ctxSw">> \o Tail(todo[t])) = 1..Len(todo[t])
      /\ (<<"ctxSw">> \o Tail(todo[t]))[1] = "ctxSw"
      /\ \A i \in 2..Len(todo[t]) : (<<"ctxSw">> \o Tail(todo[t]))[i] = todo[t][i]
      /\ Len(todo[t]) \in Nat /\ 1 \in DOMAIN todo[t] /\ DOMAIN todo[t] = 1..Len(todo[t])
  BY <1>1, TailFacts
<1>3. \A i \in DOMAIN Tail(todo[t]) : Tail(todo[t])[i] # "gone"
  BY <1>1, <1>2
<1>4. \A i \in DOMAIN (<<"ctxSw">> \o Tail(todo[t])) :
        (<<"ctxSw">> \o Tail(todo[t]))[i] # "gone"
  <2>1. ASSUME NEW i \in 1..Len(todo[t])
        PROVE  (<<"ctxSw">> \o Tail(todo[t]))[i] # "gone"
    <3>1. CASE i = 1
      BY <1>2, <3>1
    <3>2. CASE i # 1
      <4>1. i \in 2..Len(todo[t])
        BY <1>2, <3>2
      <4>2. QED
        BY <1>1, <1>2, <4>1
    <3>3. QED
      BY <3>1, <3>2
  <2>2. QED
    BY <1>2, <2>1
<1>5. CASE SchedStep(t)
  <2> DEFINE rest == (IF k'.nxt # k'.cur THEN <<"ctxSw">> ELSE <<>>) \o Tail(todo[t])
  <2>1. /\ Chosen(k, k') /\ todo' = [todo EXCEPT ![t] = rest]
        /\ Head(todo[t]) = "sched" /\ UNCHANGED <<running, alive>>
    BY <1>1, <1>5, SchedStepEffect DEF SchedStep, Continues, Then
  <2>2. rest \in {<<"ctxSw">> \o Tail(todo[t]), <<>> \o Tail(todo[t])}
    OBVIOUS
  <2> HIDE DEF rest
  <2>3. Shape(rest) /\ (Awaits(rest) <=> Awaits(todo[t]))
    BY <1>1, <2>1, <2>2, AwaitSched
  <2>4. \A i \in DOMAIN rest : rest[i] # "gone"
    BY <1>2, <1>3, <1>4, <2>2
  <2>5. Unmoved
    BY <2>1, UnmovedSame DEF Chosen
  <2>6. QED
    BY <2>1, <2>3, <2>4, <2>5
<1>6. CASE os_ctx_sw(t)
  <2>1. /\ k' = k /\ todo' = [todo EXCEPT ![t] = Tail(todo[t])] /\ Head(todo[t]) = "ctxSw"
        /\ UNCHANGED <<running, alive>>
    BY <1>6 DEF os_ctx_sw, Continues
  <2>2. Shape(Tail(todo[t])) /\ (Awaits(Tail(todo[t])) <=> Awaits(todo[t]))
    BY <1>1, <2>1, AwaitTail
  <2>3. Unmoved
    BY <2>1 DEF Unmoved
  <2>4. QED
    BY <1>3, <2>1, <2>2, <2>3
<1>7. CASE DelayReturn(t)
  <2> DEFINE b == IF k.bstate[t] = "EARLY_WAKEUP" THEN "NONE" ELSE k.bstate[t]
             k1 == [k EXCEPT !.bstate[t] = b]
  <2>1. /\ k' = k1 /\ todo' = [todo EXCEPT ![t] = Tail(todo[t])] /\ Head(todo[t]) = "delayRet"
        /\ UNCHANGED <<running, alive>>
    BY <1>7 DEF DelayReturn, Then, Continues
  <2>2. Shape(Tail(todo[t])) /\ (Awaits(Tail(todo[t])) <=> Awaits(todo[t]))
    BY <1>1, <2>1, AwaitTail
  <2>3. b = "TIMEOUT" <=> k.bstate[t] = "TIMEOUT"
    OBVIOUS
  <2> HIDE DEF b
  <2>4. /\ k1.list = k.list /\ k1.ticks = k.ticks /\ k1.prio = k.prio
        /\ k1.lock = k.lock /\ k1.fault = k.fault
        /\ \A u \in Task : k1.bstate[u] = "TIMEOUT" <=> k.bstate[u] = "TIMEOUT"
    BY <1>1, <2>3 DEF KernelState
  <2> HIDE DEF k1
  <2>5. Unmoved
    BY <2>1, <2>4 DEF Unmoved, TickLinked
  <2>6. QED
    BY <1>3, <2>1, <2>2, <2>5
<1>8. CASE RunsOff(t)
  BY <1>1, <1>2, <1>8 DEF RunsOff, Continues
<1>9. QED
  BY <1>5, <1>6, <1>7, <1>8 DEF TaskStep

LEMMA HandlerEffect ==
  ASSUME MqInv, TickHandler \/ MissTick \/ SwEnter \/ SwLeave, k' \in KernelState
  PROVE  /\ todo' = todo
         /\ \/ Unmoved
            \/ \E u \in Task : /\ MovesOne(u) /\ TickLinked(k, u) /\ k'.bstate[u] = "TIMEOUT"
                               /\ ~ TickLinked(k', u) /\ Ready(k', u)
<1>1. /\ TypeInv /\ LockInv /\ SafeInv /\ Lists(k) /\ HighStart(k) /\ k \in KernelState
      /\ k.lock = 0
  BY BaseParts DEF MqInv
<1>2. todo' = todo /\ UNCHANGED <<running, alive>>
  BY DEF TickHandler, SysTick, ExpireTask, ExpireNext, ExpireLast, MissTick, SwEnter, SwLeave
<1>3. OnlyCounters(k, k') \/ Rescheduled => Unmoved
  BY <1>2, CountersSame, UnmovedSame DEF Rescheduled, Chosen
<1>4. CASE SysTick
  BY <1>1, <1>2, <1>3, <1>4, SysTickEffect
<1>5. CASE MissTick
  BY <1>1, <1>2, <1>3, <1>5, MissTickEffect
<1>6. CASE SwEnter
  BY <1>2, <1>6 DEF SwEnter, Unmoved
<1>7. CASE SwLeave
  BY <1>1, <1>2, <1>7, SwLeaveEffect, UnmovedSame
<1>8. CASE ExpireTask
  <2>1. k.ticks # <<>> /\ k.ticks[1].tasks # <<>> /\ k' = ExpireFirst(k)
    BY <1>1, <1>8 DEF ExpireTask, ExpiryDue, TypeInv
  <2> DEFINE u == Head(k.ticks[1].tasks)
  <2>2. u \in Task /\ TickLinked(k, u)
    <3>1. k.ticks \in Seq(TickNode)
      BY <1>1 DEF KernelState
    <3>2. 1 \in DOMAIN k.ticks /\ k.ticks[1] \in TickNode
      BY <2>1, <3>1
    <3>3. k.ticks[1].tasks \in Seq(Task)
      BY <3>2 DEF TickNode
    <3>4. u = k.ticks[1].tasks[1] /\ 1 \in DOMAIN k.ticks[1].tasks
      BY <2>1, <3>3
    <3>5. u \in Task /\ u \in ToSet(k.ticks[1].tasks)
      BY <3>3, <3>4 DEF ToSet
    <3> HIDE DEF u
    <3>6. QED
      BY <3>2, <3>5 DEF TickLinked
  <2>3. k' = EndWait(UnlinkTick(k, u), u, "TIMEOUT") /\ "TIMEOUT" \in BlockState
    BY <2>1 DEF ExpireFirst, BlockState
  <2> HIDE DEF u
  <2>4. /\ OnlyTask(k, k', u) /\ k'.prio = k.prio /\ ~ TickLinked(k', u)
        /\ k'.bstate[u] = "TIMEOUT" /\ Ready(k', u)
    BY <1>1, <2>2, <2>3, EndTickLists DEF Ready
  <2>5. u \in alive
    BY <2>2 DEF MqInv, UnusedInv
  <2>6. QED
    BY <1>2, <2>2, <2>4, <2>5 DEF MovesOne
<1>9. CASE ExpireNext \/ ExpireLast
  <2>1. Rescheduled \/ OnlyCounters(k, k')
    <3>1. CASE ExpireNext
      <4>1. k.ticks # <<>> /\ k.ticks[1].tasks = <<>> /\ k' = DropNode(k)
        BY <1>1, <3>1 DEF ExpireNext, ExpiryDue, TypeInv
      <4>2. QED
        BY <1>1, <4>1, DropNodeLists
    <3>2. CASE ExpireLast
      <4>1. irq = "tick" /\ irq' = "none"
        BY <3>2 DEF ExpireLast, ExpiryDue
      <4>2. QED
        BY <1>1, <3>2, <4>1, ExpiryEffect
    <3>3. QED
      BY <1>9, <3>1, <3>2
  <2>2. QED
    BY <1>2, <1>3, <2>1
<1>10. QED
  BY <1>4, <1>5, <1>6, <1>7, <1>8, <1>9 DEF TickHandler

\* A task that is not moved stands to the queue as before.
LEMMA TaskStays ==
  ASSUME MqInv, NEW t \in Task, UNCHANGED <<mqVars, discipline, running, alive>>,
         k'.prio = k.prio, k'.bstate[t] = "TIMEOUT" <=> k.bstate[t] = "TIMEOUT",
         \A l \in List : t \in ToSet(k'.list[l]) <=> t \in ToSet(k.list[l])
  PROVE  RankInv(t)' /\ ProgressInv(t)'
<1>1. RankInv(t) /\ ProgressInv(t) /\ k.prio[t] \in List
  BY BaseParts, PrioNumber, ListNames DEF MqInv, TaskInv
<1>2. /\ job' = job /\ num' = num /\ msgs' = msgs /\ discipline' = discipline
      /\ running' = running /\ alive' = alive
      /\ t \in ToSet(k'.list[Queue]) <=> t \in ToSet(k.list[Queue])
      /\ t \in ToSet(k'.list[SysBlock]) <=> t \in ToSet(k.list[SysBlock])
      /\ t \in ToSet(k'.list[k.prio[t]]) <=> t \in ToSet(k.list[k.prio[t]])
  BY <1>1, MqFacts DEF mqVars
<1>3. RankInv(t)'
  BY <1>1, <1>2 DEF RankInv, Busy, Ready
<1>4. ProgressInv(t)'
  BY <1>1, <1>2 DEF ProgressInv, Busy, Halfway, Possible
<1>5. QED
  BY <1>3, <1>4

LEMMA UnusedMoved ==
  ASSUME MqInv, Unmoved \/ \E u \in Task : MovesOne(u)
  PROVE  UnusedInv'
<1>1. \A t \in Task \ alive : /\ ~ TickLinked(k, t)
                              /\ \A l \in List : t \notin ToSet(k.list[l])
  BY DEF MqInv, UnusedInv
<1>2. alive' = alive
  BY DEF Unmoved, MovesOne
<1>3. ASSUME NEW t \in Task \ alive
      PROVE  ~ TickLinked(k', t) /\ \A l \in List : t \notin ToSet(k'.list[l])
  BY <1>1, <1>3 DEF Unmoved, MovesOne, OnlyTask, Untouched
<1>4. QED
  BY <1>2, <1>3 DEF UnusedInv

LEMMA TasksCall ==
  ASSUME MqClient, MqInv, NEW t \in Task, Call(t), UNCHANGED <<mqVars, discipline>>
  PROVE  TaskInv' /\ UnusedInv' /\ k'.lock = 0 /\ ~ k'.fault
<1>1. /\ Runs(t) /\ todo[t] = <<>> /\ todo \in [Task -> Seq(Step)]
      /\ TypeInv /\ LockInv /\ SafeInv /\ k.lock = 0 /\ ~ k.fault /\ k \in KernelState /\ Lists(k)
      /\ \A u \in Task : CallInv(u) /\ RankInv(u)
  BY BaseParts, CallMovesOne DEF MqInv, TaskInv
<1>2. PICK w \in {<<"sched">>, <<"sched", "delayRet">>} : todo' = [todo EXCEPT ![t] = w]
  BY CallMovesOne
<1>3. MovesOne(t)
  BY CallMovesOne
<1>4. /\ UNCHANGED <<running, alive>> /\ k'.prio = k.prio
      /\ k'.lock = 0 /\ ~ k'.fault
  BY <1>1, <1>3 DEF MovesOne, OnlyTask, SameSched
<1>5. PICK v \in Task : CallMoves(t, v)
  <2>1. Settled => Ready(k, k.cur)
    BY BaseParts DEF MqInv, ReadyInv
  <2>2. QED
    BY <1>1, <2>1, CallWaits DEF MqClient
<1>6. \A x \in Task : CallInv(x)'
  <2>1. /\ Shape(w) /\ ~ Awaits(w) /\ ~ Awaits(todo[t])
        /\ \A i \in DOMAIN w : w[i] # "gone"
    BY <1>1, <1>2, AwaitNone, NotGone
  <2>2. job' = job
    BY DEF mqVars
  <2>3. \A x \in Task : todo'[x] = IF x = t THEN w ELSE todo[x]
    BY <1>1, <1>2
  <2>4. QED
    BY <1>1, <2>1, <2>2, <2>3 DEF CallInv, Busy
<1>7. ASSUME NEW x \in Task \ {t} PROVE RankInv(x)' /\ ProgressInv(x)'
  <2>1. Untouched(k, k', x)
    BY <1>3 DEF MovesOne, OnlyTask
  <2>2. QED
    BY <1>4, <2>1, TaskStays DEF Untouched
<1>8. t \notin ToSet(k'.list[Queue]) /\ ~ Busy(t)
  <2>1. t \notin ToSet(k.list[Queue]) /\ ~ Busy(t)
    BY <1>1, MqFacts, OthersWait, AloneCount
  <2>2. CASE v = t
    BY <1>5, <2>1, <2>2, MqFacts DEF CallMoves
  <2>3. CASE v # t
    BY <1>5, <2>1, <2>3, MqFacts DEF CallMoves, OnlyTask, Untouched
  <2>4. QED
    BY <2>1, <2>2, <2>3
<1>9. RankInv(t)' /\ ProgressInv(t)'
  BY <1>8 DEF RankInv, ProgressInv, Busy, mqVars
<1>10. QED
  BY <1>3, <1>4, <1>6, <1>7, <1>9, UnusedMoved DEF TaskInv

LEMMA TasksTaskStep ==
  ASSUME MqInv, NEW t \in Task, TaskStep(t), UNCHANGED <<mqVars, discipline>>
  PROVE  TaskInv' /\ UnusedInv' /\ k'.lock = 0 /\ ~ k'.fault
<1>1. /\ todo \in [Task -> Seq(Step)] /\ k.lock = 0 /\ ~ k.fault
      /\ \A u \in Task : CallInv(u)
  BY BaseParts DEF MqInv, TaskInv
<1>2. Unmoved
  BY TaskStepEffect
<1>3. PICK w : /\ todo' = [todo EXCEPT ![t] = w]
               /\ Shape(w) /\ (Awaits(w) <=> Awaits(todo[t]))
               /\ \A i \in DOMAIN w : w[i] # "gone"
  BY TaskStepEffect
<1>4. \A x \in Task : CallInv(x)'
  <2>1. job' = job
    BY DEF mqVars
  <2>2. \A x \in Task : todo'[x] = IF x = t THEN w ELSE todo[x]
    BY <1>1, <1>3
  <2>3. QED
    BY <1>1, <1>3, <2>1, <2>2 DEF CallInv, Busy
<1>5. \A x \in Task : RankInv(x)' /\ ProgressInv(x)'
  BY <1>2, TaskStays DEF Unmoved
<1>6. QED
  BY <1>1, <1>2, <1>4, <1>5, UnusedMoved DEF TaskInv, Unmoved

LEMMA TasksHandlers ==
  ASSUME MqInv, TickHandler \/ MissTick \/ SwEnter \/ SwLeave, k' \in KernelState, Lists(k)',
         UNCHANGED <<mqVars, discipline>>
  PROVE  TaskInv' /\ UnusedInv' /\ k'.lock = 0 /\ ~ k'.fault
<1>1. /\ k.lock = 0 /\ ~ k.fault /\ todo' = todo /\ job' = job
      /\ \A u \in Task : CallInv(u)
  BY BaseParts, HandlerEffect DEF MqInv, TaskInv, mqVars
<1>2. \A x \in Task : CallInv(x)'
  BY <1>1 DEF CallInv, Busy
<1>3. CASE Unmoved
  <2>1. \A x \in Task : RankInv(x)' /\ ProgressInv(x)'
    BY <1>3, TaskStays DEF Unmoved
  <2>2. QED
    BY <1>1, <1>2, <1>3, <2>1, UnusedMoved DEF TaskInv, Unmoved
<1>4. ASSUME NEW u \in Task, MovesOne(u), TickLinked(k, u), k'.bstate[u] = "TIMEOUT",
             ~ TickLinked(k', u), Ready(k', u)
      PROVE  TaskInv' /\ UnusedInv' /\ k'.lock = 0 /\ ~ k'.fault
  <2>1. /\ UNCHANGED <<running, alive>> /\ k'.prio = k.prio
        /\ k'.lock = 0 /\ ~ k'.fault /\ \A x \in Task \ {u} : Untouched(k, k', x)
    BY <1>1, <1>4 DEF MovesOne, OnlyTask, SameSched
  <2>2. ASSUME NEW x \in Task \ {u} PROVE RankInv(x)' /\ ProgressInv(x)'
    BY <2>1, <2>2, TaskStays DEF Untouched
  <2>3. u \notin ToSet(k'.list[Queue])
    BY <1>4, MqFacts, ReadyNotBlocked, NotWaiting
  <2>4. k.state[u] = "BLOCKING" /\ (Busy(u) => job[u].at = "wait")
    <3>1. k.state[u] = "BLOCKING" /\ ~ Ready(k, u)
      BY <1>4, BaseParts, ReadyNotBlocked DEF MqInv, Lists, WaitersBlocked
    <3>2. QED
      BY <3>1 DEF MqInv, TaskInv, RankInv
  <2>5. RankInv(u)'
    BY <1>1, <1>4, <2>1, <2>3 DEF MqInv, TaskInv, RankInv, Busy, mqVars
  <2>6. ProgressInv(u)'
    BY <1>1, <1>4, <2>3, <2>4 DEF ProgressInv, Busy, Halfway
  <2>7. QED
    BY <1>2, <1>4, <2>1, <2>2, <2>5, <2>6, UnusedMoved DEF TaskInv
<1>5. QED
  BY <1>3, <1>4, HandlerEffect

LEMMA TasksBoot ==
  ASSUME MqInv, Boot, k' \in KernelState, Lists(k)', UNCHANGED <<mqVars, discipline>>
  PROVE  TaskInv' /\ UnusedInv' /\ k'.lock = 0 /\ ~ k'.fault
<1>1. /\ TypeInv /\ LockInv /\ SafeInv /\ Lists(k) /\ k \in KernelState /\ k.lock = 0 /\ ~ k.fault
      /\ todo' = todo /\ job' = job /\ \A u \in Task : CallInv(u) /\ RankInv(u)
      /\ ~ running /\ UnusedInv
  BY BaseParts DEF MqInv, TaskInv, Boot, BootCreate, os_sys_start, mqVars
<1>2. \A x \in Task : CallInv(x)' /\ ~ Busy(x) /\ ~ Busy(x)' /\ x \notin ToSet(k.list[Queue])
  BY <1>1 DEF CallInv, Busy, RankInv
<1>3. (\A x \in Task : x \notin ToSet(k'.list[Queue])) => TaskInv'
  BY <1>2 DEF TaskInv, RankInv, ProgressInv
<1>4. ASSUME NEW t \in Task, NEW p \in Prio, BootCreate(t, p)
      PROVE  TaskInv' /\ UnusedInv' /\ k'.lock = 0 /\ ~ k'.fault
  <2>1. PICK ka : /\ OnlyTask(k, ka, t) /\ ka.lock = 0 /\ ka.state[t] = "READY"
                  /\ ~ TickLinked(ka, t) /\ Chosen(ka, k')
    BY <1>1, <1>4, BootCreateEffect
  <2>2. t \notin ToSet(k'.list[Queue])
    <3>1. k'.state[t] # "BLOCKING"
      BY <2>1 DEF Chosen
    <3>2. QED
      BY <3>1, MqFacts, NotWaiting
  <2>3. ASSUME NEW x \in Task \ {t}
        PROVE  /\ TickLinked(k', x) <=> TickLinked(k, x)
               /\ \A l \in List : x \in ToSet(k'.list[l]) <=> x \in ToSet(k.list[l])
    BY <2>1, <2>3 DEF OnlyTask, Untouched, Chosen, SameTasks
  <2>4. \A x \in Task : x \notin ToSet(k'.list[Queue])
    BY <1>2, <2>2, <2>3, MqFacts
  <2>5. alive' = alive \cup {t}
    BY <1>4 DEF BootCreate
  <2>6. UnusedInv'
    BY <1>1, <2>3, <2>5 DEF UnusedInv
  <2>7. k'.lock = 0 /\ ~ k'.fault
    BY <1>1, <2>1 DEF Chosen, OnlyTask
  <2>8. QED
    BY <1>3, <2>4, <2>6, <2>7
<1>5. ASSUME os_sys_start PROVE TaskInv' /\ UnusedInv' /\ k'.lock = 0 /\ ~ k'.fault
  <2>1. ~ running /\ Idle \in alive /\ k' = os_rq_get_highest_prio_task(k) /\ alive' = alive
    BY <1>5 DEF os_sys_start
  <2>2. k.map # {}
    BY <1>1, <2>1, QueueThere DEF SafeInv
  <2>3. OnlyChoice(k, k') /\ k'.fault = k.fault
    BY <1>1, <2>1, <2>2, GetHighestLists
  <2>4. k'.list = k.list /\ k'.ticks = k.ticks /\ k'.lock = k.lock
    BY <2>3 DEF OnlyChoice
  <2>5. UnusedInv'
    BY <1>1, <2>1, <2>4 DEF UnusedInv, TickLinked
  <2>6. QED
    BY <1>1, <1>2, <1>3, <2>3, <2>4, <2>5
<1>6. QED
  BY <1>4, <1>5, ClientFacts, ListNames DEF Boot

\* What is posted stays due.
LEMMA PostsStay == ASSUME MqInv, KernelStep PROVE PostsInv'
<1> SUFFICES ASSUME posts # <<>> PROVE swPending' \/ irq' = "sw"
  BY DEF MqInv, PostsInv, MayPost, MayPut, Unguarded, KernelStep, mqVars
<1>1. swPending \/ irq = "sw"
  BY DEF MqInv, PostsInv
<1>2. CASE Boot
  BY <1>1, <1>2 DEF Boot, BootCreate, os_sys_start
<1>3. CASE TickHandler
  BY <1>1, <1>3
  DEF TickHandler, SysTick, ExpireTask, ExpireNext, ExpireLast, TickTaken, ExpiryDue, Pend
<1>4. CASE MissTick \/ SwEnter
  BY <1>1, <1>4 DEF MissTick, SwEnter
<1>5. ASSUME NEW t \in Task, Call(t) PROVE swPending' \/ irq' = "sw"
  BY <1>1, <1>5
  DEF Call, Create, Exit, os_task_delay_ms, os_task_yield, os_task_suspend, os_task_resume,
      WakeTick, os_sched_lock, os_sched_unlock, Then, LeakCritical
<1>6. ASSUME NEW t \in Task, TaskStep(t) PROVE swPending' \/ irq' = "sw"
  BY <1>1, <1>6 DEF TaskStep, SchedStep, os_ctx_sw, DelayReturn, RunsOff, Then
<1>7. QED
  BY <1>2, <1>3, <1>4, <1>5, <1>6 DEF KernelStep

\* A step of the kernel keeps the invariant.
LEMMA KernelKeeps == ASSUME MqClient, MqInv, KernelStep PROVE MqInv'
<1>1. SafetyInv /\ ReadyInv /\ ~ Careless /\ Next /\ UNCHANGED <<mqVars, discipline>>
  BY MqSteps DEF MqInv, BaseInv, MqClient, KernelStep
<1>2. SafetyInv' /\ ReadyInv'
  BY <1>1, SafetyInvStep, ReadyKernel DEF SafetyInv, MqClient
<1>3. (discipline = "ranked" => ChoiceInv)'
  BY <1>1, ChoiceStep DEF MqInv, BaseInv
<1>4. k' \in KernelState /\ Lists(k)'
  BY <1>2 DEF SafetyInv, TypeInv, TypeOK, SafeInv, Safe
<1>5. TaskInv' /\ UnusedInv' /\ k'.lock = 0 /\ ~ k'.fault
  BY <1>1, <1>4, TasksBoot, TasksHandlers, TasksTaskStep, TasksCall DEF KernelStep
<1>6. DataInv'
  BY <1>1 DEF MqInv, DataInv, mqVars
<1>7. CountInv'
  BY <1>1 DEF MqInv, CountInv, Halfway, Busy, mqVars
<1>8. QED
  BY <1>2, <1>3, <1>5, <1>6, <1>7, PostsStay DEF MqInv, BaseInv

-----------------------------------------------------------------------------
(* The steps of the queue: what the kernel sees of them.                   *)

\* A step that begins where task t executes, moves task u or none, and leaves u where
\* it will be found, keeps what the kernel relies on.
LEMMA BaseMoves ==
  ASSUME MqClient, MqInv, NEW t \in Task \ {Idle}, Runs(t),
         todo[t] = <<>> \/ Head(todo[t]) = "waitRet",
         k' \in KernelState, NEW u \in alive \ {Idle}, OnlyTask(k, k', u), Findable(k', u),
         NEW w \in Seq(Step), todo' = [todo EXCEPT ![t] = w],
         \A i \in 2..Len(w) : w[i] \in {"delayRet", "waitRet", "gone"},
         \/ w # <<>> /\ Head(w) = "sched"
         \/ k'.list = k.list /\ k'.prio = k.prio /\ k'.high = k.high,
         UNCHANGED <<running, alive, swEnabled, swPending, irq, discipline>>
  PROVE  BaseInv'
<1>1. /\ TypeInv /\ LockInv /\ SafeInv /\ ReadyInv /\ k.lock = 0 /\ ~ k.fault
      /\ k \in KernelState /\ alive \subseteq Task /\ todo \in [Task -> Seq(Step)]
      /\ discipline = "ranked" => ChoiceInv
  BY BaseParts DEF MqInv, BaseInv
<1>2. k.cur = t /\ k.nxt = t /\ running /\ irq = "none" /\ Settled /\ Ready(k, t)
  BY OthersWait
<1>3. TodoInv'
  BY <1>1, TodoNext
<1>4. SameSched(k, k') /\ k'.fault = k.fault
  BY DEF OnlyTask
<1>5. LockInv'
  BY <1>1, <1>2, <1>3, <1>4, LockStays
<1>6. SafeInv'
  BY <1>1, <1>2, SafeMoved
<1>7. todo' \in [Task -> Seq(Step)]
  BY <1>1
<1>8. TypeInv'
  BY <1>1, <1>2, <1>7 DEF TypeInv, TypeOK
<1>9. ReadyInv' /\ (discipline = "ranked" => ChoiceInv')
  <2>1. k'.cur = t /\ k'.nxt = t /\ k'.lock = 0 /\ todo'[t] = w
    BY <1>1, <1>2, <1>4 DEF SameSched
  <2>2. SwitchInv'
    BY <2>1 DEF SwitchInv
  <2>3. CASE w # <<>> /\ Head(w) = "sched"
    <3>1. ~ Settled'
      BY <2>1, <2>3 DEF Settled
    <3>2. QED
      BY <2>1, <2>2, <3>1 DEF ChoiceInv, CurInv, ReadyInv
  <2>4. CASE k'.list = k.list /\ k'.prio = k.prio /\ k'.high = k.high
    <3>1. ReadyInv'
      BY <1>2, <2>1, <2>4 DEF ReadyInv, Ready
    <3>2. QED
      BY <1>1, <1>2, <2>1, <2>2, <2>4, <3>1 DEF ChoiceInv, CurInv
  <2>5. QED
    BY <2>3, <2>4
<1>10. k'.lock = 0 /\ ~ k'.fault
  BY <1>1, <1>4 DEF SameSched
<1>11. QED
  BY <1>5, <1>6, <1>8, <1>9, <1>10 DEF BaseInv, SafetyInv

LEMMA OwnStep ==
  ASSUME MqClient, MqInv, NEW t \in Task, Runs(t), todo[t] = <<>> \/ Head(todo[t]) = "waitRet"
  PROVE  OnlyTask(k, k, t) /\ Findable(k, t)
<1>1. Lists(k) /\ k.state[t] # "BLOCKING" /\ Ready(k, t)
  BY BaseParts, OthersWait DEF MqInv
<1>2. QED
  BY <1>1 DEF OnlyTask, SameSched, Untouched, Findable, Ready

\* The wakeup that ends a call: who waits for the queue is alone in doing so, and is
\* made ready.
WakesOne(u) ==
  /\ u \in alive /\ Busy(u) /\ job[u].at = "wait" /\ u \in ToSet(k.list[Queue])
  /\ k.state[u] = "BLOCKING" /\ OnlyTask(k, Wake(k), u) /\ Wake(k).prio = k.prio
  /\ Ready(Wake(k), u) /\ Wake(k).state[u] = "READY" /\ ~ TickLinked(Wake(k), u)

LEMMA WakeEffect ==
  ASSUME MqClient, MqInv
  PROVE  /\ Wake(k) \in KernelState /\ Wake(Wake(k)) = Wake(k)
         /\ Wake(k).list[Queue] = <<>>
         /\ \/ Wake(k) = k /\ \A u \in Task : u \notin ToSet(k.list[Queue])
            \/ \E u \in Task \ {Idle} : WakesOne(u)
<1>1. /\ k \in KernelState /\ Lists(k) /\ HighStart(k) /\ alive \subseteq Task
      /\ todo \in [Task -> Seq(Step)] /\ TodoInv
      /\ \A u \in Task : RankInv(u) /\ CallInv(u)
  BY BaseParts DEF MqInv, TaskInv
<1>2. Wake(k) \in KernelState
  BY <1>1, MqFacts, WakeupFirstType DEF Wake
<1>3. CASE k.list[Queue] = <<>>
  <2>1. Wake(k) = k
    BY <1>3 DEF Wake, os_block_wakeup_first_task
  <2>2. ToSet(k.list[Queue]) = {}
    BY <1>1, <1>3, MqFacts, TasksOfList, EmptySet
  <2>3. \A u \in Task : u \notin ToSet(k.list[Queue])
    BY <2>2
  <2>4. QED
    BY <1>2, <1>3, <2>1, <2>3
<1>4. CASE k.list[Queue] # <<>>
  <2> DEFINE u == Head(k.list[Queue])
             k1 == os_block_wakeup_first_task(k, Queue)
  <2>1. /\ u \in Task /\ u \in ToSet(k.list[Queue])
        /\ k1 \in KernelState /\ OnlyTask(k, k1, u)
        /\ k1.state[u] = "READY" /\ Ready(k1, u) /\ ~ TickLinked(k1, u) /\ k1.prio = k.prio
    BY <1>1, <1>4, MqFacts, WakeFirst
  <2>2. Wake(k) = k1
    BY DEF Wake
  <2> HIDE DEF u, k1
  <2>3. Busy(u) /\ job[u].at = "wait" /\ u \in alive
    BY <1>1, <2>1 DEF RankInv
  <2>4. k.state[u] = "BLOCKING"
    BY <1>1, <2>1, MqFacts DEF Lists, WaitersBlocked
  <2>5. u # Idle
    <3>1. Awaits(todo[u])
      BY <1>1, <2>1, <2>3 DEF CallInv
    <3>2. todo[u] # <<>>
      BY <3>1, AwaitNone
    <3>3. QED
      BY <1>1, <3>2 DEF TodoInv
  <2>6. k1.list[Queue] = <<>>
    <3>1. u \notin ToSet(k1.list[Queue])
      BY <2>1, MqFacts, NotWaiting DEF OnlyTask
    <3>2. ASSUME NEW v \in Task \ {u} PROVE v \notin ToSet(k1.list[Queue])
      <4>1. v \notin ToSet(k.list[Queue])
        BY <1>1, <2>1, <2>3, OneBusy DEF RankInv
      <4>2. QED
        BY <2>1, <4>1, MqFacts DEF OnlyTask, Untouched
    <3>3. ToSet(k1.list[Queue]) \subseteq Task
      BY <2>1, MqFacts, TasksOfList
    <3>4. ToSet(k1.list[Queue]) = {}
      BY <3>1, <3>2, <3>3
    <3>5. QED
      BY <2>1, <3>4, MqFacts, TasksOfList, EmptySet
  <2>7. Wake(k1) = k1
    BY <2>6 DEF Wake, os_block_wakeup_first_task
  <2>8. QED
    BY <2>1, <2>2, <2>3, <2>4, <2>5, <2>6, <2>7 DEF WakesOne
<1>5. QED
  BY <1>3, <1>4

\* A step that begins where task t executes, moves task u or none, and changes the
\* place of t in its call or nobody's: what is left to show of it.
LEMMA Moved ==
  ASSUME MqClient, MqInv, NEW t \in Task \ {Idle}, Runs(t),
         todo[t] = <<>> \/ Head(todo[t]) = "waitRet",
         k' \in KernelState, NEW u \in alive \ {Idle}, OnlyTask(k, k', u), Findable(k', u),
         k'.prio = k.prio,
         NEW w \in Seq(Step), todo' = [todo EXCEPT ![t] = w],
         \A i \in 2..Len(w) : w[i] \in {"delayRet", "waitRet", "gone"},
         \/ w # <<>> /\ Head(w) = "sched"
         \/ k'.list = k.list /\ k'.prio = k.prio /\ k'.high = k.high,
         UNCHANGED <<running, alive, swEnabled, swPending, irq, posts, discipline>>,
         msgs' \in Seq(Message), num' \in 0..Capacity,
         NEW j \in Job, job' = [job EXCEPT ![t] = j],
         \A x \in Task \ {t, u} : Busy(x) => RankInv(x)' /\ ProgressInv(x)',
         CallInv(t)', RankInv(t)', ProgressInv(t)', RankInv(u)', ProgressInv(u)',
         CountInv'
  PROVE  MqInv'
<1>1. BaseInv'
  BY BaseMoves
<1>2. /\ alive \subseteq Task /\ todo \in [Task -> Seq(Step)] /\ job \in [Task -> Job]
      /\ \A x \in Task : CallInv(x) /\ RankInv(x)
  BY BaseParts DEF MqInv, TaskInv, DataInv
<1>3. DataInv'
  BY <1>2 DEF MqInv, DataInv
<1>4. UnusedInv'
  <2>1. u \in Task /\ MovesOne(u)
    BY <1>2 DEF MovesOne
  <2>2. QED
    BY <2>1, UnusedMoved
<1>5. ASSUME NEW x \in Task \ {t} PROVE CallInv(x)'
  <2>1. todo'[x] = todo[x] /\ job'[x] = job[x]
    BY <1>2
  <2>2. QED
    BY <1>2, <2>1 DEF CallInv, Busy
<1>6. ASSUME NEW x \in Task \ {t, u} PROVE RankInv(x)' /\ ProgressInv(x)'
  <2>1. CASE ~ Busy(x)
    <3>1. ~ Busy(x)' /\ x \notin ToSet(k.list[Queue])
      BY <1>2, <2>1 DEF Busy, RankInv
    <3>2. x \notin ToSet(k'.list[Queue])
      BY <3>1, MqFacts DEF OnlyTask, Untouched
    <3>3. QED
      BY <3>1, <3>2 DEF RankInv, ProgressInv
  <2>2. QED
    BY <2>1
<1>7. TaskInv'
  BY <1>5, <1>6 DEF TaskInv
<1>8. PostsInv'
  BY OthersWait DEF PostsInv
<1>9. QED
  BY <1>1, <1>3, <1>4, <1>7, <1>8 DEF MqInv

LEMMA SchedWord ==
  /\ <<"sched">> \in Seq(Step) /\ <<"sched">> # <<>> /\ Head(<<"sched">>) = "sched"
  /\ \A i \in 2..Len(<<"sched">>) : <<"sched">>[i] \in {"delayRet", "waitRet", "gone"}
  /\ Shape(<<"sched">>) /\ ~ Awaits(<<"sched">>)
  /\ \A i \in DOMAIN <<"sched">> : <<"sched">>[i] # "gone"
<1>1. <<"sched">> \in Seq(Step) /\ <<"sched">> # <<>> /\ Head(<<"sched">>) = "sched"
  BY DEF Step
<1>2. \A i \in 2..Len(<<"sched">>) : <<"sched">>[i] \in {"delayRet", "waitRet", "gone"}
  OBVIOUS
<1>3. QED
  BY <1>1, <1>2, AwaitNone, NotGone

\* A call that does not wait wakes who may go on, and otherwise leaves the rest to others.
LEMMA AfterWake ==
  ASSUME MqClient, MqInv, NEW t \in Task \ {Idle}, Runs(t), todo[t] = <<>>,
         k' = Wake(k), todo' = [todo EXCEPT ![t] = <<"sched">>],
         UNCHANGED <<running, alive, swEnabled, swPending, irq, job, posts, discipline>>,
         msgs' \in Seq(Message), num' \in 0..Capacity, CountInv',
         \A u \in ToSet(k.list[Queue]) : Possible(u)',
         k' = k => \A u \in Task \ {t} :
                     Busy(u) /\ u \notin ToSet(k.list[Queue]) => ProgressInv(u)'
  PROVE  MqInv'
<1>1. /\ todo \in [Task -> Seq(Step)] /\ job \in [Task -> Job] /\ k \in KernelState
      /\ \A x \in Task : CallInv(x) /\ RankInv(x)
  BY BaseParts DEF MqInv, TaskInv, DataInv
<1>2. ~ Busy(t) /\ t \in alive /\ t \notin ToSet(k.list[Queue])
  BY AloneCount, OthersWait, MqFacts
<1>3. k' \in KernelState
  BY WakeEffect
<1>4. job[t] \in Job /\ job' = [job EXCEPT ![t] = job[t]]
  BY <1>1
<1>5. CallInv(t)'
  <2>1. todo'[t] = <<"sched">> /\ ~ Busy(t)'
    BY <1>1, <1>2 DEF Busy
  <2>2. QED
    BY <2>1, SchedWord DEF CallInv
<1>7. ASSUME Wake(k) = k, \A x \in Task : x \notin ToSet(k.list[Queue])
      PROVE  MqInv'
  <2>1. OnlyTask(k, k', t) /\ Findable(k', t) /\ k'.prio = k.prio
    BY <1>7, OwnStep
  <2>2. ~ Busy(t)' /\ t \notin ToSet(k'.list[Queue])
    BY <1>2, <1>7 DEF Busy
  <2>3. RankInv(t)' /\ ProgressInv(t)'
    BY <2>2 DEF RankInv, ProgressInv
  <2>4. \A x \in Task \ {t, t} : Busy(x) => RankInv(x)' /\ ProgressInv(x)'
    <3>1. ASSUME NEW x \in Task \ {t} PROVE RankInv(x)'
      BY <1>1, <1>7 DEF RankInv, Busy, Ready
    <3>2. QED
      BY <1>7, <3>1
  <2>5. t \in alive \ {Idle}
    BY <1>2
  <2>6. QED
    BY <1>3, <1>4, <1>5, <2>1, <2>3, <2>4, <2>5, SchedWord, Moved
<1>8. ASSUME NEW u \in Task \ {Idle}, WakesOne(u)
      PROVE  MqInv'
  <2>1. /\ u \in alive \ {Idle} /\ Busy(u) /\ job[u].at = "wait"
        /\ u \in ToSet(k.list[Queue])
        /\ OnlyTask(k, k', u) /\ k'.prio = k.prio
        /\ Ready(k', u) /\ k'.state[u] = "READY"
    BY <1>8 DEF WakesOne
  <2>2. Findable(k', u)
    BY <2>1 DEF Findable, Ready
  <2>3. u # t /\ \A x \in Task \ {t, u} : Busy(x) => RankInv(x)' /\ ProgressInv(x)'
    BY <1>2, <2>1, OneBusy
  <2>4. ~ Busy(t)' /\ t \notin ToSet(k'.list[Queue])
    BY <1>2, <2>3, <1>8, <2>1, MqFacts DEF Busy, OnlyTask, Untouched
  <2>5. RankInv(t)' /\ ProgressInv(t)'
    BY <2>4 DEF RankInv, ProgressInv
  <2>6. u \notin ToSet(k'.list[Queue])
    BY <1>3, <2>1, MqFacts, NotWaiting DEF OnlyTask
  <2>7. RankInv(u)'
    BY <1>1, <2>1, <2>6 DEF RankInv, Busy
  <2>8. ProgressInv(u)'
    BY <2>1, <2>6 DEF ProgressInv, Halfway
  <2>9. QED
    BY <1>3, <1>4, <1>5, <2>1, <2>2, <2>3, <2>5, <2>7, <2>8, SchedWord, Moved
<1>9. QED
  BY <1>7, <1>8, WakeEffect

\* Who waits, and for what.
LEMMA Waiters ==
  ASSUME MqInv, NEW u \in ToSet(k.list[Queue])
  PROVE  /\ u \in Task /\ Busy(u) /\ job[u].op \in {"send", "receive"}
         /\ job[u].op = "receive" => num = 0
         /\ job[u].op = "send" => num >= Capacity
         /\ num = Len(msgs)
<1>1. u \in Task
  BY BaseParts, MqFacts, TasksOfList DEF MqInv
<1>2. ~ Possible(u) /\ job[u] \in Job /\ num \in Nat /\ Busy(u) /\ job[u].at = "wait"
  BY <1>1, MqFacts DEF MqInv, TaskInv, ProgressInv, RankInv, DataInv
<1>3. job[u].op \in {"send", "receive"}
  BY <1>2, JobFacts DEF Busy
<1>4. num = Len(msgs)
  <2>1. \A x \in Task : Busy(x) => x = u
    BY <1>1, <1>2, OneBusy
  <2>2. QED
    BY <1>2, <2>1 DEF MqInv, CountInv, Halfway
<1>5. QED
  BY <1>1, <1>2, <1>3, <1>4, MqFacts DEF Possible

LEMMA InvokeFacts ==
  ASSUME MqClient, MqInv, NEW t \in Task, NEW c, Invokes(t, c)
  PROVE  /\ Runs(t) /\ todo[t] = <<>> /\ t \in Task \ {Idle} /\ t \in alive
         /\ msgs \in Seq(Message) /\ num \in 0..Capacity /\ Capacity \in Nat
         /\ ~ Busy(t) /\ num \in Nat
         /\ \A u \in Task : Busy(u) => u \in ToSet(k.list[Queue]) \/ discipline = u
<1>1. Runs(t) /\ todo[t] = <<>> /\ t \in Task \ {Idle} /\ t \in alive
  BY DEF Invokes
<1>2. QED
  BY <1>1, AloneCount, OthersWait, MqFacts DEF MqInv, DataInv

\* Who takes messages finds the count right, and everybody else waiting.
LEMMA TakerFacts ==
  ASSUME MqClient, MqInv, NEW t \in Task, NEW c, Invokes(t, c), MayTake(t)
  PROVE  /\ num = Len(msgs) /\ \A u \in Task : ~ Halfway(u)
         /\ \A u \in Task : Busy(u) => u \in ToSet(k.list[Queue])
<1>1. Runs(t) /\ todo[t] = <<>> /\ ~ Busy(t)
  BY InvokeFacts
<1>2. \A u \in Task : ~ Halfway(u)
  BY <1>1, AloneCount DEF MayTake
<1>3. \A u \in Task : Busy(u) => u \in ToSet(k.list[Queue])
  BY <1>1, InvokeFacts DEF MayTake
<1>4. QED
  BY <1>2, <1>3 DEF MqInv, CountInv

-----------------------------------------------------------------------------
(* What is sent while a listener goes on with its call.                    *)

\* The list has room for what the count has room for.
LEMMA PutRoom ==
  ASSUME MqInv, \A u \in Task : Halfway(u) => discipline = u
  PROVE  Len(msgs) <= num
<1>1. msgs \in Seq(Message) /\ num \in Nat
  BY MqFacts DEF MqInv, DataInv
<1>2. ASSUME NEW u \in Task, Halfway(u) PROVE Len(msgs) <= num
  <2>1. job[u].op = "receive"
    BY <1>2, Words DEF MqInv, TaskInv, RankInv, Halfway
  <2>2. Len(msgs) = num - 1
    BY <1>1, <1>2, <2>1 DEF MqInv, TaskInv, ProgressInv, Halfway
  <2>3. QED
    BY <1>1, <2>2
<1>3. (\A u \in Task : ~ Halfway(u)) => Len(msgs) <= num
  BY <1>1 DEF MqInv, CountInv
<1>4. QED
  BY <1>2, <1>3

\* One message more is one more in the list and in the count.
LEMMA PutCount ==
  ASSUME MqInv, num' = num + 1, NEW m \in Message, msgs' = Append(msgs, m), job' = job
  PROVE  CountInv'
<1>1. msgs \in Seq(Message) /\ num \in Nat
  BY MqFacts DEF MqInv, DataInv
<1>2. QED
  BY <1>1 DEF MqInv, CountInv, Halfway, Busy

\* A listener that does not wait may go on as if nothing had come.
LEMMA PutProgress ==
  ASSUME MqInv, MayPut, NEW t \in Task, discipline = t, t \notin ToSet(k.list[Queue]),
         k' = k, num' = num + 1, NEW m \in Message, msgs' = Append(msgs, m), job' = job
  PROVE  ProgressInv(t)'
<1>1. msgs \in Seq(Message) /\ num \in Nat /\ ProgressInv(t) /\ RankInv(t)
  BY MqFacts DEF MqInv, DataInv, TaskInv
<1>2. Busy(t) => job[t].op = "receive" /\ job[t].at \notin {"list", "store"}
  BY <1>1, Words DEF RankInv, MayPut, Unguarded, Busy
<1>3. Len(msgs') = Len(msgs) + 1
  BY <1>1
<1>4. QED
  BY <1>1, <1>2, <1>3 DEF ProgressInv, Busy, Halfway, Possible

LEMMA WaitStep ==
  ASSUME MqClient, MqInv, NEW t \in Task, NEW c, Invokes(t, c), NEW j \in Job, j # NoJob,
         j.at = "wait", IF j.op = "receive" THEN Empty ELSE Full, WaitFor(t, j),
         UNCHANGED <<alive, posts, discipline>>
  PROVE  MqInv'
<1>1. /\ Runs(t) /\ todo[t] = <<>> /\ t \in Task \ {Idle} /\ t \in alive
      /\ msgs \in Seq(Message) /\ num \in 0..Capacity
  BY InvokeFacts
<1>2. /\ todo \in [Task -> Seq(Step)] /\ job \in [Task -> Job] /\ k \in KernelState /\ Lists(k)
      /\ alive \subseteq Task
      /\ \A x \in Task : CallInv(x) /\ RankInv(x)
  BY BaseParts DEF MqInv, TaskInv, DataInv
<1>3. \/ discipline = "ranked" /\ \A u \in alive \ {t} : k.prio[t] < k.prio[u]
      \/ discipline = t /\ j.op = "receive"
  BY DEF WaitFor, MayWait, MqInv, DataInv, MqClient
<1>4. ASSUME NEW x \in Task \ {t, t} PROVE ~ Busy(x)
  <2>1. CASE discipline = "ranked"
    <3>1. Busy(x) => k.prio[t] < k.prio[x] /\ k.prio[x] < k.prio[t]
      BY <1>1, <1>2, <1>3, <2>1, Words DEF RankInv
    <3>2. k.prio[t] \in Int /\ k.prio[x] \in Int
      BY <1>2, PrioNumber
    <3>3. QED
      BY <3>1, <3>2
  <2>2. CASE discipline = t
    BY <1>2, <2>2, Words DEF RankInv
  <2>3. QED
    BY <1>3, <2>1, <2>2
<1>5. PICK n \in TimeOuts :
        Then(t, os_add_tick_task(k, t, n, Queue), <<"sched", "waitRet">>)
  BY DEF WaitFor
<1>6. /\ k' = os_add_tick_task(k, t, n, Queue)
      /\ todo' = [todo EXCEPT ![t] = <<"sched", "waitRet">>]
      /\ UNCHANGED <<running, swEnabled, swPending, irq>>
      /\ job' = [job EXCEPT ![t] = j] /\ UNCHANGED <<msgs, num>>
  BY <1>5 DEF Then, WaitFor
<1>7. /\ k' \in KernelState /\ OnlyTask(k, k', t) /\ k'.state[t] = "BLOCKING"
      /\ k'.prio = k.prio /\ t \in ToSet(k'.list[Queue])
  <2> DEFINE k1 == os_add_tick_task(k, t, n, Queue)
  <2>1. /\ k.state[t] # "BLOCKING" /\ n \in Count \cup {Never}
        /\ Queue \in Object \ {SysBlock}
    <3>1. k.state[t] # "BLOCKING"
      BY <1>1, OthersWait
    <3>2. n \in Count \cup {Never}
      BY MqFacts
    <3>3. Queue \in Object \ {SysBlock}
      BY MqAssumption
    <3>4. QED
      BY <3>1, <3>2, <3>3
  <2>2. /\ k1 \in KernelState /\ OnlyTask(k, k1, t) /\ k1.state[t] = "BLOCKING"
        /\ k1.prio = k.prio /\ t \in ToSet(k1.list[Queue])
    <3>1. k \in KernelState /\ Lists(k)
      BY <1>2
    <3>2. QED
      BY <2>1, <3>1, TakeWaits
  <2>3. k' = k1
    BY <1>6
  <2> HIDE DEF k1
  <2>4. QED
    BY <2>1, <2>2, <2>3
<1>8. Findable(k', t)
  BY <1>7, MqFacts DEF Findable
<1>9. /\ <<"sched", "waitRet">> \in Seq(Step) /\ <<"sched", "waitRet">> # <<>>
      /\ Head(<<"sched", "waitRet">>) = "sched"
  BY DEF Step
<1>10. \A i \in 2..Len(<<"sched", "waitRet">>) :
         <<"sched", "waitRet">>[i] \in {"delayRet", "waitRet", "gone"}
  OBVIOUS
<1>11. job'[t] = j /\ todo'[t] = <<"sched", "waitRet">> /\ Busy(t)'
  BY <1>2, <1>6 DEF Busy
<1>12. CallInv(t)'
  BY <1>11, AwaitTake, NotGone DEF CallInv
<1>13. RankInv(t)'
  BY <1>1, <1>3, <1>6, <1>7, <1>11, OthersWait DEF RankInv
<1>14. ProgressInv(t)'
  <2>1. ~ Possible(t)'
    BY <1>1, <1>6, <1>11, MqFacts DEF Possible, Empty, Full
  <2>2. QED
    BY <1>7, <1>11, <2>1 DEF ProgressInv, Halfway
<1>15. CountInv'
  <2>1. MayTake(t) => num = Len(msgs)
    BY TakerFacts
  <2>2. MayTake(t)
    BY <1>3, Words DEF MayTake
  <2>3. QED
    BY <1>6, <2>1, <2>2 DEF CountInv
<1>16. t \in alive \ {Idle} /\ \A x \in Task \ {t, t} : Busy(x) => RankInv(x)' /\ ProgressInv(x)'
  BY <1>1, <1>4
<1>17. QED
  BY <1>1, <1>6, <1>7, <1>8, <1>9, <1>10, <1>12, <1>13, <1>14, <1>15, <1>16, Moved

LEMMA SendStep ==
  ASSUME MqClient, MqInv, NEW t \in Task, os_mqueue_send(t)
  PROVE  MqInv'
<1>1. Invokes(t, "mqSend") /\ UNCHANGED <<alive, posts, discipline>>
  BY DEF os_mqueue_send
<1>2. PICK m \in Message :
       \/ /\ ~ Full /\ MayPut
          /\ msgs' = Append(msgs, m) /\ num' = num + 1
          /\ Then(t, Wake(k), <<"sched">>)
          /\ UNCHANGED job
       \/ Full /\ WaitFor(t, [op |-> "send", at |-> "wait", msg |-> m, count |-> 0])
  BY DEF os_mqueue_send
<1>3. /\ Runs(t) /\ todo[t] = <<>> /\ t \in Task \ {Idle} /\ t \in alive
      /\ msgs \in Seq(Message) /\ num \in Nat /\ Capacity \in Nat
  BY <1>1, InvokeFacts
<1>4. CASE /\ ~ Full /\ MayPut /\ msgs' = Append(msgs, m) /\ num' = num + 1
           /\ Then(t, Wake(k), <<"sched">>) /\ UNCHANGED job
  <2>1. msgs' \in Seq(Message) /\ num' \in 0..Capacity /\ CountInv'
    BY <1>3, <1>4, PutCount DEF Full
  <2>2. ASSUME NEW u \in ToSet(k.list[Queue]) PROVE Possible(u)'
    <3>1. job[u].op = "receive"
      BY <1>3, <1>4, <2>2, Waiters DEF Full
    <3>2. QED
      BY <1>3, <1>4, <3>1 DEF Possible
  <2>3. ASSUME k' = k, NEW u \in Task \ {t}, Busy(u), u \notin ToSet(k.list[Queue])
        PROVE  ProgressInv(u)'
    <3>1. discipline = u
      BY <1>1, <2>3, InvokeFacts
    <3>2. QED
      BY <1>4, <2>3, <3>1, PutProgress
  <2>4. QED
    BY <1>1, <1>3, <1>4, <2>1, <2>2, <2>3, AfterWake DEF Then
<1>5. CASE Full /\ WaitFor(t, [op |-> "send", at |-> "wait", msg |-> m, count |-> 0])
  <2> DEFINE j == [op |-> "send", at |-> "wait", msg |-> m, count |-> 0]
  <2>1. j \in Job /\ j # NoJob /\ j.at = "wait" /\ j.op = "send"
    <3>1. j.at = "wait" /\ j.op = "send"
      OBVIOUS
    <3>2. 0 \in 0..(CountSize - 1)
      BY CountFits
    <3>3. j \in [op : {"send"}, at : {"wait", "list", "load", "store", "wake"},
                msg : Message, count : 0..(CountSize - 1)]
      BY <3>2
    <3>4. NoJob.op # "send"
      BY DEF NoJob
    <3> HIDE DEF j
    <3>5. j \in Job
      BY <3>3 DEF Job
    <3>6. QED
      BY <3>1, <3>4, <3>5
  <2>2. Full /\ WaitFor(t, j)
    BY <1>5
  <2> HIDE DEF j
  <2>3. QED
    BY <1>1, <2>1, <2>2, WaitStep
<1>6. QED
  BY <1>2, <1>4, <1>5

LEMMA ReceiveStep ==
  ASSUME MqClient, MqInv, NEW t \in Task, os_mqueue_receive(t)
  PROVE  MqInv'
<1>1. Invokes(t, "mqReceive") /\ MayTake(t) /\ UNCHANGED <<alive, posts, discipline>>
  BY DEF os_mqueue_receive
<1>2. /\ Runs(t) /\ todo[t] = <<>> /\ t \in Task \ {Idle} /\ t \in alive
      /\ num = Len(msgs) /\ msgs \in Seq(Message) /\ num \in Nat /\ Capacity \in Nat
      /\ num \in 0..Capacity /\ \A u \in Task : Busy(u) => u \in ToSet(k.list[Queue])
  BY <1>1, InvokeFacts, TakerFacts
<1>3. CASE /\ ~ Empty /\ TakeFirst(Wake(k)) /\ num' = num - 1
           /\ todo' = [todo EXCEPT ![t] = <<"sched">>]
           /\ UNCHANGED <<running, swEnabled, swPending, irq, job>>
  <2>1. msgs # <<>> /\ num > 0
    BY <1>2, <1>3 DEF Empty
  <2>2. k' = Wake(k) /\ msgs' = Tail(msgs)
    BY <1>3, <2>1 DEF TakeFirst
  <2>3. msgs' \in Seq(Message) /\ num' \in 0..Capacity /\ num' = Len(msgs')
    BY <1>2, <1>3, <2>1, <2>2
  <2>4. CountInv'
    BY <2>3 DEF CountInv
  <2>5. ASSUME NEW u \in ToSet(k.list[Queue]) PROVE Possible(u)'
    <3>1. job[u].op = "send"
      BY <1>2, <2>1, <2>5, Waiters
    <3>2. QED
      BY <1>2, <1>3, <2>3, <3>1 DEF Possible
  <2>6. QED
    BY <1>1, <1>2, <1>3, <2>2, <2>3, <2>4, <2>5, AfterWake
<1>4. CASE Empty /\ WaitFor(t, [op |-> "receive", at |-> "wait", count |-> 0])
  <2> DEFINE j == [op |-> "receive", at |-> "wait", count |-> 0]
  <2>1. j \in Job /\ j # NoJob /\ j.at = "wait" /\ j.op = "receive"
    <3>1. j.at = "wait" /\ j.op = "receive"
      OBVIOUS
    <3>2. 0 \in 0..(CountSize - 1)
      BY CountFits
    <3>3. j \in [op : {"receive"}, at : {"wait", "list", "load", "store", "wake"},
                count : 0..(CountSize - 1)]
      BY <3>2
    <3>4. NoJob.op # "receive"
      BY DEF NoJob
    <3> HIDE DEF j
    <3>5. j \in Job
      BY <3>3 DEF Job
    <3>6. QED
      BY <3>1, <3>4, <3>5
  <2>2. Empty /\ WaitFor(t, j)
    BY <1>4
  <2> HIDE DEF j
  <2>3. QED
    BY <1>1, <2>1, <2>2, WaitStep
<1>5. QED
  BY <1>3, <1>4 DEF os_mqueue_receive

\* The loop of os_mqueue_clear calls the wakeup for every message; all calls but the
\* first find nobody.
LEMMA WokenOnce ==
  ASSUME NEW n \in Nat, n > 0, Wake(Wake(k)) = Wake(k)
  PROVE  LET woken[i \in 0..n] == IF i = 0 THEN k ELSE Wake(woken[i - 1])
         IN woken[n] = Wake(k)
<1> DEFINE Rec(w, i) == IF i = 0 THEN k ELSE Wake(w[i - 1])
           c == CHOOSE w : w = [i \in 0..n |-> Rec(w, i)]
           g == [i \in 0..n |-> IF i = 0 THEN k ELSE Wake(k)]
<1>1. \A i \in 0..n : g[i] = IF i = 0 THEN k ELSE Wake(k)
  OBVIOUS
<1>2. \A i \in 0..n : g[i] = Rec(g, i)
  <2>1. ASSUME NEW i \in 0..n PROVE g[i] = Rec(g, i)
    <3>1. CASE i = 0
      BY <1>1, <3>1
    <3>2. CASE i = 1
      <4>1. g[0] = k /\ i - 1 = 0
        BY <1>1, <3>2
      <4>2. QED
        BY <1>1, <3>2, <4>1
    <3>3. CASE i > 1
      <4>1. i - 1 \in 0..n /\ i - 1 # 0 /\ i # 0
        BY <3>3
      <4>2. g[i - 1] = Wake(k) /\ g[i] = Wake(k)
        BY <1>1, <4>1
      <4> HIDE DEF g
      <4>3. QED
        BY <4>1, <4>2
    <3>4. QED
      BY <3>1, <3>2, <3>3
  <2>2. QED
    BY <2>1
<1>3. g = [i \in 0..n |-> Rec(g, i)]
  BY <1>2
<1>4. c = [i \in 0..n |-> Rec(c, i)]
  <2> HIDE DEF g
  <2>1. QED
    BY <1>3
<1> HIDE DEF c, g
<1> DEFINE Odd == {m \in 0..n : c[m] # g[m]}
<1>5. Odd = {}
  <2> SUFFICES ASSUME Odd # {} PROVE FALSE
    OBVIOUS
  <2>1. PICK m \in Odd : \A y \in Odd : m <= y
    <3>1. Odd \subseteq Nat
      OBVIOUS
    <3> HIDE DEF Odd
    <3>2. QED
      BY <3>1, MinOfNats
  <2>2. m \in 0..n /\ c[m] = Rec(c, m) /\ c[m] # g[m] /\ g[m] = Rec(g, m)
    BY <1>2, <1>4, <2>1
  <2>3. CASE m = 0
    BY <2>2, <2>3
  <2>4. CASE m # 0
    <3>1. m - 1 \in 0..n /\ m - 1 \notin Odd
      BY <2>1, <2>2, <2>4
    <3>2. c[m - 1] = g[m - 1]
      BY <3>1
    <3>3. QED
      BY <2>2, <2>4, <3>2
  <2>5. QED
    BY <2>3, <2>4
<1>6. c[n] = g[n] /\ g[n] = Wake(k)
  BY <1>1, <1>5
<1>7. QED
  BY <1>6 DEF c

LEMMA ClearEffect ==
  ASSUME MqClient, MqInv, NEW t \in Task, os_mqueue_clear(t)
  PROVE  /\ Invokes(t, "mqClear") /\ MayTake(t) /\ num > 0 /\ num = Len(msgs)
         /\ k' = Wake(k) /\ todo' = [todo EXCEPT ![t] = <<"sched">>]
         /\ UNCHANGED <<running, swEnabled, swPending, irq, alive, job, posts, discipline>>
         /\ msgs' = <<>> /\ num' = 0
<1>1. /\ Invokes(t, "mqClear") /\ MayTake(t) /\ ~ Empty /\ num' = 0
      /\ msgs' = SubSeq(msgs, num + 1, Len(msgs))
      /\ UNCHANGED <<alive, job, posts, discipline>>
  BY DEF os_mqueue_clear
<1>2. /\ Runs(t) /\ todo[t] = <<>>
      /\ num = Len(msgs) /\ msgs \in Seq(Message) /\ num \in Nat
  BY <1>1, InvokeFacts, TakerFacts
<1>3. num > 0 /\ num' = 0
  BY <1>1, <1>2 DEF Empty
<1>4. msgs' = <<>>
  BY <1>1, <1>2
<1>5. Wake(Wake(k)) = Wake(k) /\ Wake(k) \in KernelState /\ ~ Wake(k).fault
  <2>1. /\ Wake(Wake(k)) = Wake(k) /\ Wake(k) \in KernelState
        /\ Wake(k) = k \/ \E u \in Task : WakesOne(u)
    BY <1>2, WakeEffect
  <2>2. Wake(k).fault = k.fault
    BY <2>1 DEF WakesOne, OnlyTask
  <2>3. QED
    BY <2>1, <2>2, BaseParts DEF MqInv
<1> DEFINE c == CHOOSE w : w = [i \in 0..num |-> IF i = 0 THEN k ELSE Wake(w[i - 1])]
           k1 == [c[num] EXCEPT !.fault = @ \/ num > Len(msgs)]
<1>6. Then(t, k1, <<"sched">>)
  BY DEF os_mqueue_clear
<1>7. c[num] = Wake(k)
  BY <1>2, <1>3, <1>5, WokenOnce
<1> HIDE DEF c
<1>8. k1 = Wake(k)
  <2>1. ~ (num > Len(msgs))
    BY <1>2
  <2>2. PICK x \in KernelState : x = c[num] /\ ~ x.fault
    BY <1>5, <1>7
  <2>3. [x EXCEPT !.fault = @ \/ num > Len(msgs)] = x
    BY <2>1, <2>2 DEF KernelState
  <2>4. QED
    BY <1>7, <2>2, <2>3
<1> HIDE DEF k1
<1>9. QED
  BY <1>1, <1>2, <1>3, <1>4, <1>6, <1>8 DEF Then

LEMMA ClearStep ==
  ASSUME MqClient, MqInv, NEW t \in Task, os_mqueue_clear(t)
  PROVE  MqInv'
<1>1. /\ Invokes(t, "mqClear") /\ MayTake(t) /\ num > 0 /\ num = Len(msgs)
      /\ k' = Wake(k) /\ todo' = [todo EXCEPT ![t] = <<"sched">>]
      /\ UNCHANGED <<running, swEnabled, swPending, irq, alive, job, posts, discipline>>
      /\ msgs' = <<>> /\ num' = 0
  BY ClearEffect
<1>2. /\ Runs(t) /\ todo[t] = <<>> /\ t \in Task \ {Idle} /\ Capacity \in Nat
      /\ \A u \in Task : Busy(u) => u \in ToSet(k.list[Queue])
  BY <1>1, InvokeFacts, TakerFacts
<1>3. msgs' \in Seq(Message) /\ num' \in 0..Capacity /\ CountInv'
  BY <1>1, <1>2 DEF CountInv
<1>4. ASSUME NEW u \in ToSet(k.list[Queue]) PROVE Possible(u)'
  <2>1. job[u].op = "send"
    BY <1>1, <1>4, Waiters
  <2>2. QED
    BY <1>1, <1>2, <2>1, MqFacts DEF Possible
<1>5. QED
  BY <1>1, <1>2, <1>3, <1>4, AfterWake

-----------------------------------------------------------------------------
(* The rest of a call that waited.                                         *)

LEMMA ResumeFacts ==
  ASSUME MqClient, MqInv, NEW t \in Task, NEW place, GoesOn(t, place)
  PROVE  /\ Runs(t) /\ Head(todo[t]) = "waitRet" /\ t \in Task \ {Idle} /\ t \in alive
         /\ todo[t] = <<"waitRet">> /\ Busy(t) /\ job[t].at = place
         /\ t \notin ToSet(k.list[Queue]) /\ Ready(k, t)
         /\ \A u \in Task \ {t} : ~ Busy(u)
         /\ job[t] \in Job /\ msgs \in Seq(Message) /\ num \in 0..Capacity
         /\ place \notin {"load", "store"} => num = Len(msgs)
<1>1. /\ todo \in [Task -> Seq(Step)] /\ TodoInv /\ job \in [Task -> Job]
      /\ msgs \in Seq(Message) /\ num \in 0..Capacity /\ CallInv(t)
  BY BaseParts DEF MqInv, DataInv, TaskInv
<1>2. /\ Runs(t) /\ todo[t] # <<>> /\ Head(todo[t]) = "waitRet" /\ Busy(t) /\ job[t].at = place
  BY DEF GoesOn, Continues, Busy
<1>3. t # Idle
  BY <1>1, <1>2 DEF TodoInv
<1>4. /\ t \in alive /\ Ready(k, t) /\ t \notin ToSet(k.list[Queue])
  BY <1>2, OthersWait, MqFacts
<1>5. \A u \in Task \ {t} : ~ Busy(u)
  BY <1>2, OneBusy
<1>6. todo[t] = <<"waitRet">>
  <2>1. todo[t] \in Seq(Step) /\ Shape(todo[t])
    BY <1>1 DEF CallInv
  <2>2. 1 \in DOMAIN todo[t] /\ todo[t][1] = "waitRet"
    BY <1>2, <2>1
  <2>3. Len(todo[t]) = 1
    BY <2>1, <2>2 DEF Shape
  <2>4. QED
    BY <2>1, <2>2, <2>3
<1>7. place \notin {"load", "store"} => num = Len(msgs)
  BY <1>2, <1>5 DEF MqInv, CountInv, Halfway
<1>8. QED
  BY <1>1, <1>2, <1>3, <1>4, <1>5, <1>6, <1>7

\* A step of the rest: what is left to show of it.
LEMMA RestStep ==
  ASSUME MqClient, MqInv, NEW t \in Task, NEW place, GoesOn(t, place),
         k' \in KernelState, OnlyTask(k, k', t), k'.list = k.list, k'.prio = k.prio,
         k'.high = k.high, k'.state = k.state, msgs' \in Seq(Message), num' \in 0..Capacity,
         NEW j \in Job, job' = [job EXCEPT ![t] = j], j # NoJob => j.op = job[t].op,
         \/ todo' = todo /\ j # NoJob
         \/ j = NoJob /\ \E w \in {<<>>, <<"sched">>} : todo' = [todo EXCEPT ![t] = w],
         ProgressInv(t)', CountInv'
  PROVE  MqInv'
<1>1. /\ Runs(t) /\ Head(todo[t]) = "waitRet" /\ t \in Task \ {Idle} /\ t \in alive
      /\ todo[t] = <<"waitRet">> /\ Busy(t)
      /\ t \notin ToSet(k.list[Queue]) /\ Ready(k, t)
      /\ \A u \in Task \ {t} : ~ Busy(u)
  BY ResumeFacts
<1>2. /\ todo \in [Task -> Seq(Step)] /\ job \in [Task -> Job] /\ k \in KernelState /\ Lists(k)
      /\ RankInv(t) /\ CallInv(t)
  BY BaseParts DEF MqInv, TaskInv, DataInv
<1>3. Findable(k', t)
  <2>1. k'.state[t] # "BLOCKING" /\ t \in ToSet(k'.list[k'.prio[t]])
    BY <1>1, <1>2, ReadyNotBlocked DEF Ready
  <2>2. QED
    BY <2>1 DEF Findable
<1>4. UNCHANGED <<running, alive, swEnabled, swPending, irq, posts, discipline>>
  BY DEF GoesOn
<1>5. job'[t] = j
  BY <1>2
<1>6. RankInv(t)'
  BY <1>1, <1>2, <1>4, <1>5 DEF RankInv, Ready, Busy
<1>7. PICK w \in {<<"waitRet">>, <<>>, <<"sched">>} :
        /\ todo' = [todo EXCEPT ![t] = w]
        /\ w = <<"waitRet">> => j # NoJob
        /\ w # <<"waitRet">> => j = NoJob
  <2>1. CASE todo' = todo /\ j # NoJob
    <3>1. todo' = [todo EXCEPT ![t] = <<"waitRet">>]
      BY <1>1, <1>2, <2>1
    <3>2. QED
      BY <2>1, <3>1
  <2>2. ASSUME j = NoJob, NEW w \in {<<>>, <<"sched">>}, todo' = [todo EXCEPT ![t] = w]
        PROVE  /\ w \in {<<"waitRet">>, <<>>, <<"sched">>}
               /\ todo' = [todo EXCEPT ![t] = w]
               /\ w = <<"waitRet">> => j # NoJob
               /\ w # <<"waitRet">> => j = NoJob
    <3>1. <<"sched">> # <<"waitRet">> /\ <<>> # <<"waitRet">>
      OBVIOUS
    <3>2. QED
      BY <2>2, <3>1
  <2>3. QED
    BY <2>1, <2>2
<1>8. /\ \A x \in {<<"waitRet">>, <<>>, <<"sched">>} :
           x \in Seq(Step) /\ \A i \in 2..Len(x) : x[i] \in {"delayRet", "waitRet", "gone"}
  <2>1. <<"waitRet">> \in Seq(Step) /\ <<>> \in Seq(Step) /\ <<"sched">> \in Seq(Step)
    BY DEF Step
  <2>2. Len(<<"waitRet">>) = 1 /\ Len(<<>>) = 0 /\ Len(<<"sched">>) = 1
    OBVIOUS
  <2>3. QED
    BY <2>1, <2>2
<1>9. CallInv(t)'
  <2>1. todo'[t] = w
    BY <1>2, <1>7
  <2>2. CASE w = <<"waitRet">>
    BY <1>1, <1>2, <1>5, <1>7, <2>1, <2>2 DEF CallInv, Busy
  <2>3. CASE w \in {<<>>, <<"sched">>} /\ w # <<"waitRet">>
    <3>1. Shape(w) /\ ~ Awaits(w) /\ \A i \in DOMAIN w : w[i] # "gone"
      BY <2>3, AwaitNone, NotGone
    <3>2. j = NoJob
      BY <1>7, <2>3
    <3>3. QED
      BY <1>5, <2>1, <3>1, <3>2 DEF CallInv, Busy
  <2>4. QED
    BY <1>7, <2>2, <2>3
<1>10. t \in alive \ {Idle} /\ \A x \in Task \ {t, t} : Busy(x) => RankInv(x)' /\ ProgressInv(x)'
  BY <1>1
<1>11. w \in Seq(Step) /\ \A i \in 2..Len(w) : w[i] \in {"delayRet", "waitRet", "gone"}
  BY <1>8
<1>12. QED
  BY <1>1, <1>3, <1>4, <1>6, <1>7, <1>9, <1>10, <1>11, Moved

\* How far a task that goes on with its call is.
LEMMA OwnProgress ==
  ASSUME MqClient, MqInv, NEW t \in Task, NEW place, GoesOn(t, place)
  PROVE  /\ (place # "wake" /\ (place = "wait" => k.bstate[t] # "TIMEOUT")) => Possible(t)
         /\ place \in {"load", "store"} =>
              Len(msgs) = num + (IF job[t].op = "send" THEN 1 ELSE -1)
         /\ place = "store" => job[t].count = num
         /\ job[t].op \in {"send", "receive"}
<1>1. Busy(t) /\ job[t].at = place /\ t \notin ToSet(k.list[Queue]) /\ job[t] \in Job
  BY ResumeFacts
<1>2. ProgressInv(t)
  BY DEF MqInv, TaskInv
<1>3. job[t].op \in {"send", "receive"}
  BY <1>1, JobFacts DEF Busy
<1>4. QED
  BY <1>1, <1>2, <1>3 DEF ProgressInv, Halfway

\* A call is over: nothing is left to show but that the count is right.
LEMMA CallEnds ==
  ASSUME NEW t \in Task, job'[t] = NoJob
  PROVE  ProgressInv(t)'
BY DEF ProgressInv, Busy

LEMMA SameKernel ==
  ASSUME MqClient, MqInv, NEW t \in Task, NEW place, GoesOn(t, place), k' = k
  PROVE  /\ k' \in KernelState /\ OnlyTask(k, k', t) /\ k'.list = k.list /\ k'.prio = k.prio
         /\ k'.high = k.high /\ k'.state = k.state
<1>1. Runs(t) /\ Head(todo[t]) = "waitRet"
  BY ResumeFacts
<1>2. QED
  BY <1>1, OwnStep, BaseParts DEF MqInv

LEMMA WaitReturnStep ==
  ASSUME MqClient, MqInv, NEW t \in Task, WaitReturn(t)
  PROVE  MqInv'
<1> DEFINE k1 == [k EXCEPT !.bstate[t] = "NONE"]
<1>1. /\ GoesOn(t, "wait") /\ k' = k1 /\ UNCHANGED <<msgs, num>>
      /\ IF k.bstate[t] = "TIMEOUT"
           THEN job' = [job EXCEPT ![t] = NoJob] /\ todo' = [todo EXCEPT ![t] = Tail(@)]
           ELSE At(t, "list") /\ UNCHANGED todo
  BY DEF WaitReturn
<1>2. /\ k \in KernelState /\ Lists(k) /\ todo \in [Task -> Seq(Step)] /\ job \in [Task -> Job]
  BY BaseParts DEF MqInv, DataInv
<1>3. /\ k1 \in KernelState /\ OnlyTask(k, k1, t)
      /\ k1.high = k.high /\ k1.list = k.list /\ k1.prio = k.prio /\ k1.state = k.state
  <2>1. "NONE" \in BlockState
    BY DEF BlockState
  <2>2. QED
    BY <1>2, <2>1, SetBState
<1> HIDE DEF k1
<1>4. /\ num = Len(msgs) /\ msgs' \in Seq(Message) /\ num' \in 0..Capacity
      /\ todo[t] = <<"waitRet">> /\ t \notin ToSet(k.list[Queue])
  BY <1>1, ResumeFacts
<1>5. CountInv'
  BY <1>1, <1>4 DEF CountInv
<1>6. CASE k.bstate[t] = "TIMEOUT"
  <2>1. job' = [job EXCEPT ![t] = NoJob] /\ todo' = [todo EXCEPT ![t] = Tail(@)]
    BY <1>1, <1>6
  <2>2. Tail(todo[t]) = <<>>
    BY <1>4
  <2>3. todo' = [todo EXCEPT ![t] = <<>>]
    BY <2>1, <2>2
  <2>4. NoJob \in Job /\ job'[t] = NoJob
    BY <1>2, <2>1 DEF Job
  <2>5. QED
    BY <1>1, <1>3, <1>4, <1>5, <2>1, <2>3, <2>4, CallEnds, RestStep
<1>7. CASE k.bstate[t] # "TIMEOUT"
  <2> DEFINE j == [job[t] EXCEPT !.at = "list"]
  <2>1. job' = [job EXCEPT ![t] = j] /\ todo' = todo
    BY <1>1, <1>7 DEF At
  <2>2. job[t] \in Job /\ job[t] # NoJob
    BY <1>1, ResumeFacts DEF Busy
  <2>3. Continued(job[t], j) /\ j.at = "list"
    BY <2>2, PlaceOf
  <2>4. Possible(t)
    BY <1>1, <1>7, OwnProgress
  <2> HIDE DEF j
  <2>5. j \in Job /\ j # NoJob /\ job'[t] = j /\ j.op = job[t].op
    BY <1>2, <2>1, <2>3 DEF Continued
  <2>6. ProgressInv(t)'
    BY <1>1, <1>3, <1>4, <2>3, <2>4, <2>5 DEF ProgressInv, Halfway, Possible
  <2>7. QED
    BY <1>1, <1>3, <1>4, <1>5, <2>1, <2>5, <2>6, RestStep
<1>8. QED
  BY <1>6, <1>7

LEMMA AccessListStep ==
  ASSUME MqClient, MqInv, NEW t \in Task, AccessList(t)
  PROVE  MqInv'
<1> DEFINE j == [job[t] EXCEPT !.at = "load"]
<1>1. /\ GoesOn(t, "list") /\ job' = [job EXCEPT ![t] = j] /\ UNCHANGED <<todo, num>>
  BY DEF AccessList, At
<1>2. /\ num = Len(msgs) /\ msgs \in Seq(Message) /\ num \in 0..Capacity /\ Capacity \in Nat
      /\ t \notin ToSet(k.list[Queue]) /\ Possible(t) /\ job[t].op \in {"send", "receive"}
      /\ job[t] \in Job /\ Busy(t)
  BY <1>1, ResumeFacts, OwnProgress, MqFacts
<1>3. Continued(job[t], j) /\ j.at = "load"
  BY <1>2, PlaceOf DEF Busy
<1> HIDE DEF j
<1>4. /\ j \in Job /\ j # NoJob /\ job'[t] = j /\ j.at = "load" /\ j.op = job[t].op /\ Busy(t)'
  BY <1>1, <1>3 DEF Continued, Busy, MqInv, DataInv
<1>5. /\ k' = k /\ msgs' \in Seq(Message)
      /\ Len(msgs') = num + (IF job[t].op = "send" THEN 1 ELSE -1)
  <2>1. CASE job[t].op = "send"
    <3>1. k' = k /\ msgs' = Append(msgs, job[t].msg) /\ job[t].msg \in Message
      BY <1>2, <2>1, JobFacts DEF AccessList, Busy
    <3>2. QED
      BY <1>2, <2>1, <3>1
  <2>2. CASE job[t].op = "receive"
    <3>1. msgs # <<>>
      BY <1>2, <2>2 DEF Possible
    <3>2. k' = k /\ msgs' = Tail(msgs)
      BY <2>2, <3>1 DEF AccessList, TakeFirst
    <3>3. QED
      BY <1>2, <2>2, <3>1, <3>2
  <2>3. QED
    BY <1>2, <2>1, <2>2
<1>6. ProgressInv(t)'
  BY <1>1, <1>2, <1>4, <1>5 DEF ProgressInv, Halfway, Possible
<1>7. CountInv'
  BY <1>4 DEF CountInv, Halfway
<1>8. QED
  BY <1>1, <1>2, <1>4, <1>5, <1>6, <1>7, SameKernel, RestStep

LEMMA LoadCountStep ==
  ASSUME MqClient, MqInv, NEW t \in Task, LoadCount(t)
  PROVE  MqInv'
<1> DEFINE j == [job[t] EXCEPT !.at = "store", !.count = num]
<1>1. /\ GoesOn(t, "load") /\ job' = [job EXCEPT ![t] = j] /\ UNCHANGED <<k, todo, msgs, num>>
  BY DEF LoadCount
<1>2. /\ msgs \in Seq(Message) /\ num \in 0..Capacity /\ job[t] \in Job /\ job[t] # NoJob
      /\ t \notin ToSet(k.list[Queue]) /\ Possible(t)
      /\ Len(msgs) = num + (IF job[t].op = "send" THEN 1 ELSE -1)
  <2>1. /\ msgs \in Seq(Message) /\ num \in 0..Capacity /\ job[t] \in Job /\ job[t] # NoJob
        /\ t \notin ToSet(k.list[Queue])
    BY <1>1, ResumeFacts DEF Busy
  <2>2. Possible(t) /\ Len(msgs) = num + (IF job[t].op = "send" THEN 1 ELSE -1)
    BY <1>1, OwnProgress
  <2>3. QED
    BY <2>1, <2>2
<1>3. /\ j \in Job /\ j # NoJob /\ job'[t] = j /\ j.at = "store" /\ j.op = job[t].op
      /\ Busy(t)' /\ j.count = num
  <2>1. num \in 0..(CountSize - 1)
    BY <1>2, CountFits
  <2>2. Continued(job[t], j) /\ j.at = "store" /\ j.count = num
    <3>1. job[t] \in Job /\ job[t] # NoJob
      BY <1>2
    <3>2. QED
      BY Zenon, <2>1, <3>1, CountOf
  <2> HIDE DEF j
  <2>3. QED
    BY <1>1, <2>2 DEF Continued, Busy, MqInv, DataInv
<1> HIDE DEF j
<1>4. ProgressInv(t)'
  BY <1>1, <1>2, <1>3 DEF ProgressInv, Halfway, Possible
<1>5. CountInv'
  BY <1>3 DEF CountInv, Halfway
<1>6. QED
  BY <1>1, <1>2, <1>3, <1>4, <1>5, SameKernel, RestStep

LEMMA StoreCountStep ==
  ASSUME MqClient, MqInv, NEW t \in Task, StoreCount(t)
  PROVE  MqInv'
<1> DEFINE j == [job[t] EXCEPT !.at = "wake"]
<1>1. /\ GoesOn(t, "store") /\ job' = [job EXCEPT ![t] = j] /\ UNCHANGED <<k, todo, msgs>>
      /\ num' = (job[t].count + IF job[t].op = "send" THEN 1 ELSE -1) % CountSize
  BY DEF StoreCount, At
<1>2. /\ msgs \in Seq(Message) /\ num \in 0..Capacity
      /\ Capacity \in Nat /\ Capacity < 65536 /\ CountSize = 65536
      /\ t \notin ToSet(k.list[Queue]) /\ Possible(t) /\ job[t].op \in {"send", "receive"}
      /\ Len(msgs) = num + (IF job[t].op = "send" THEN 1 ELSE -1) /\ job[t].count = num
  BY <1>1, ResumeFacts, OwnProgress, MqFacts
<1>3. job[t] \in Job /\ job[t] # NoJob
  BY <1>1, ResumeFacts DEF Busy
<1>4. /\ j \in Job /\ j # NoJob /\ job'[t] = j /\ j.at = "wake" /\ j.op = job[t].op
  <2>1. Continued(job[t], j) /\ j.at = "wake"
    BY <1>3, PlaceOf
  <2> HIDE DEF j
  <2>2. QED
    BY <1>1, <2>1 DEF Continued, MqInv, DataInv
<1> HIDE DEF j
<1>5. num' = Len(msgs') /\ num' \in 0..Capacity
  <2>1. CASE job[t].op = "send"
    <3>1. num < Capacity
      BY <1>2, <2>1 DEF Possible
    <3>2. num' = (num + 1) % 65536
      BY <1>1, <1>2, <2>1
    <3>3. QED
      BY <1>1, <1>2, <2>1, <3>1, <3>2
  <2>2. CASE job[t].op = "receive"
    <3>1. num > 0
      BY <1>2, <2>2 DEF Possible
    <3>2. num' = (num - 1) % 65536
      BY <1>1, <1>2, <2>2
    <3>3. QED
      BY <1>1, <1>2, <2>2, <3>1, <3>2
  <2>3. QED
    BY <1>2, <2>1, <2>2
<1>6. ProgressInv(t)'
  BY <1>1, <1>2, <1>4 DEF ProgressInv, Halfway
<1>7. CountInv'
  BY <1>5 DEF CountInv
<1>8. msgs' \in Seq(Message) /\ todo' = todo
  BY <1>1, <1>2
<1>9. /\ k' \in KernelState /\ OnlyTask(k, k', t) /\ k'.list = k.list /\ k'.prio = k.prio
      /\ k'.high = k.high /\ k'.state = k.state
  BY <1>1, SameKernel
<1>10. QED
  BY <1>1, <1>4, <1>5, <1>6, <1>7, <1>8, <1>9, RestStep

LEMMA WakeNextStep ==
  ASSUME MqClient, MqInv, NEW t \in Task, WakeNext(t)
  PROVE  MqInv'
<1>1. /\ GoesOn(t, "wake") /\ k' = Wake(k) /\ job' = [job EXCEPT ![t] = NoJob]
      /\ todo' = [todo EXCEPT ![t] = <<"sched">>] /\ UNCHANGED <<msgs, num>>
  BY DEF WakeNext
<1>2. /\ Runs(t) /\ Head(todo[t]) = "waitRet" /\ \A u \in Task \ {t} : ~ Busy(u)
      /\ msgs \in Seq(Message) /\ num \in 0..Capacity /\ num = Len(msgs)
  BY <1>1, ResumeFacts
<1>3. k' = k
  <2>1. \A u \in Task : u \notin ToSet(k.list[Queue])
    BY <1>1, <1>2, ResumeFacts DEF MqInv, TaskInv, RankInv
  <2>2. QED
    BY <1>1, <2>1, WakeEffect DEF WakesOne
<1>4. NoJob \in Job /\ job'[t] = NoJob
  BY <1>1 DEF MqInv, DataInv, Job
<1>5. ProgressInv(t)'
  BY <1>4, CallEnds
<1>6. CountInv'
  BY <1>1, <1>2 DEF CountInv
<1>7. QED
  BY <1>1, <1>2, <1>3, <1>4, <1>5, <1>6, SameKernel, RestStep

-----------------------------------------------------------------------------
(* Interrupts.                                                             *)

\* A step that leaves kernel and queue alone, but for what is posted.
LEMMA QueueOnly ==
  ASSUME MqClient, MqInv, k' = k,
         UNCHANGED <<running, todo, alive, swEnabled, irq, job, discipline, msgs, num>>,
         swPending => swPending', swPending' \in BOOLEAN, DataInv', PostsInv'
  PROVE  MqInv'
<1>1. /\ TypeInv /\ LockInv /\ SafeInv /\ ReadyInv /\ k.lock = 0 /\ ~ k.fault
      /\ k \in KernelState /\ TodoInv /\ UnusedInv /\ CountInv
      /\ discipline = "ranked" => ChoiceInv
      /\ \A t \in Task : CallInv(t) /\ RankInv(t) /\ ProgressInv(t)
  BY BaseParts DEF MqInv, BaseInv, TaskInv
<1>2. TypeInv'
  BY <1>1 DEF TypeInv, TypeOK
<1>3. LockInv'
  <2>1. TodoInv' /\ SameSched(k, k') /\ k'.fault = k.fault
    BY <1>1 DEF TodoInv, SameSched
  <2>2. QED
    BY <1>1, <2>1, LockStays
<1>4. SafeInv'
  BY <1>1 DEF SafeInv, Safe
<1>5. ReadyInv' /\ (discipline = "ranked" => ChoiceInv')
  <2>1. SwitchInv => SwitchInv'
    BY DEF SwitchInv, Works
  <2>2. Settled' => Settled
    BY DEF Settled, Works
  <2>3. CurInv => CurInv'
    BY <2>2 DEF CurInv
  <2>4. ReadyInv'
    BY <1>1, <2>2 DEF ReadyInv, Ready, Works
  <2>5. QED
    BY <1>1, <2>1, <2>3, <2>4 DEF ChoiceInv
<1>6. BaseInv'
  BY <1>1, <1>2, <1>3, <1>4, <1>5 DEF BaseInv, SafetyInv
<1>7. UnusedInv' /\ CountInv'
  BY <1>1 DEF UnusedInv, TickLinked, CountInv, Halfway, Busy
<1>8. ASSUME NEW t \in Task PROVE CallInv(t)' /\ RankInv(t)' /\ ProgressInv(t)'
  <2>1. CallInv(t)' /\ RankInv(t)'
    BY <1>1 DEF CallInv, RankInv, Busy, Ready
  <2>2. ProgressInv(t)'
    BY <1>1 DEF ProgressInv, Busy, Halfway, Possible
  <2>3. QED
    BY <2>1, <2>2
<1>9. QED
  BY <1>6, <1>7, <1>8 DEF MqInv, TaskInv

LEMMA IntPostStep ==
  ASSUME MqClient, MqInv, IntPost
  PROVE  MqInv'
<1>1. DataInv /\ MayPost /\ MaxPosts \in Nat
  BY MqFacts DEF IntPost, MqInv
<1>2. /\ k' = k /\ UNCHANGED <<running, todo, alive, swEnabled, irq, msgs, num, job, discipline>>
      /\ swPending' = TRUE /\ Len(posts) < MaxPosts
      /\ \E m \in Message : posts' = Append(posts, m)
  BY DEF IntPost
<1>3. posts' \in Seq(Message) /\ Len(posts') <= MaxPosts
  BY <1>1, <1>2 DEF DataInv
<1>4. DataInv'
  BY <1>1, <1>2, <1>3 DEF DataInv
<1>5. PostsInv'
  BY <1>1, <1>2 DEF PostsInv, MayPost, MayPut, Unguarded
<1>6. QED
  BY <1>2, <1>4, <1>5, QueueOnly

\* What is published is dropped, or is one message more, for which a listener that
\* waits is woken.
LEMMA PublishEffect ==
  ASSUME MqClient, MqInv, Publish
  PROVE  /\ UNCHANGED <<running, todo, alive, swEnabled, swPending, irq, job, discipline>>
         /\ irq = "sw" /\ running /\ MayPut /\ discipline # "ranked"
         /\ posts' \in Seq(Message) /\ Len(posts') <= MaxPosts
         /\ num \in 0..Capacity /\ msgs \in Seq(Message)
         /\ \/ UNCHANGED <<k, msgs, num>>
            \/ /\ num < Capacity /\ num' = num + 1 /\ k' = Wake(k)
               /\ \E m \in Message : msgs' = Append(msgs, m)
<1>1. /\ DataInv /\ posts # <<>> /\ posts' = Tail(posts) /\ irq = "sw" /\ MaxPosts \in Nat
      /\ MayPut /\ discipline # "ranked"
      /\ UNCHANGED <<running, todo, alive, swEnabled, swPending, irq, job, discipline>>
  BY MqFacts DEF Publish, MqInv, PostsInv, MayPost
<1>2. running
  BY <1>1, BaseParts DEF MqInv, LockInv, BootInv
<1>3. /\ Head(posts) \in Message /\ num \in 0..Capacity /\ msgs \in Seq(Message)
      /\ posts' \in Seq(Message) /\ Len(posts') <= MaxPosts
  BY <1>1 DEF DataInv
<1>4. CASE Refuses
  BY <1>1, <1>2, <1>3, <1>4 DEF Publish
<1>5. CASE ~ Refuses
  <2>1. num < Capacity
    BY <1>3, <1>5, MqFacts DEF Refuses, Full
  <2>2. k' = Wake(k) /\ num' = num + 1 /\ msgs' = Append(msgs, Head(posts))
    BY <1>5 DEF Publish
  <2>3. QED
    BY <1>1, <1>2, <1>3, <2>1, <2>2
<1>6. QED
  BY <1>4, <1>5

\* The software interrupt makes one task ready, or none.
LEMMA SoftMoves ==
  ASSUME MqInv, irq = "sw", running, discipline # "ranked", k' \in KernelState,
         UNCHANGED <<running, todo, alive, swEnabled, swPending, irq, discipline>>,
         NEW u \in Task \ {Idle}, OnlyTask(k, k', u), k.state[u] = "BLOCKING", Ready(k', u),
         k'.state[u] = "READY"
  PROVE  BaseInv'
<1>1. /\ TypeInv /\ LockInv /\ SafeInv /\ ReadyInv /\ k.lock = 0 /\ ~ k.fault
      /\ k \in KernelState /\ alive \subseteq Task /\ TodoInv /\ Lists(k)
  BY BaseParts DEF MqInv
<1>2. SameSched(k, k') /\ k'.fault = k.fault
  BY DEF OnlyTask
<1>3. LockInv'
  <2>1. TodoInv'
    BY <1>1 DEF TodoInv
  <2>2. QED
    BY <1>1, <1>2, <2>1, LockStays
<1>4. SafeInv'
  <2>1. Findable(k', u)
    BY DEF Findable, Ready
  <2>2. QED
    BY <1>1, <2>1, SafeMoved
<1>5. TypeInv'
  BY <1>1 DEF TypeInv, TypeOK
<1>6. ReadyInv'
  <2>1. ~ Settled'
    BY DEF Settled
  <2>2. ASSUME k.nxt \in Task, Ready(k, k.nxt) PROVE Ready(k', k.nxt)
    <3>1. k.nxt # u
      BY <1>1, <2>2, ReadyNotBlocked
    <3>2. QED
      BY <1>1, <2>2, <3>1, ReadyOther
  <2>3. QED
    BY <1>1, <1>2, <2>1, <2>2 DEF ReadyInv, SameSched, Works
<1>7. QED
  BY <1>1, <1>2, <1>3, <1>4, <1>5, <1>6 DEF BaseInv, SafetyInv, SameSched

LEMMA PublishStep ==
  ASSUME MqClient, MqInv, Publish
  PROVE  MqInv'
<1>1. /\ UNCHANGED <<running, todo, alive, swEnabled, swPending, irq, job, discipline>>
      /\ irq = "sw" /\ running /\ MayPut /\ discipline # "ranked"
      /\ posts' \in Seq(Message) /\ Len(posts') <= MaxPosts
      /\ num \in 0..Capacity /\ msgs \in Seq(Message)
  BY PublishEffect
<1>2. PostsInv'
  BY <1>1 DEF PostsInv, MayPost, MayPut, Unguarded
<1>3. /\ k \in KernelState /\ DataInv /\ swPending \in BOOLEAN /\ job \in [Task -> Job]
      /\ \A t \in Task : CallInv(t) /\ RankInv(t)
  BY BaseParts DEF MqInv, TaskInv, DataInv, TypeInv, TypeOK
<1>4. CASE UNCHANGED <<k, msgs, num>>
  BY <1>1, <1>2, <1>3, <1>4, QueueOnly DEF DataInv
<1>5. ASSUME num < Capacity, num' = num + 1, k' = Wake(k),
             NEW m \in Message, msgs' = Append(msgs, m)
      PROVE  MqInv'
  <2>1. DataInv' /\ CountInv'
    <3>1. num' \in 0..Capacity /\ msgs' \in Seq(Message)
      BY <1>1, <1>5, MqFacts
    <3>2. QED
      BY <1>1, <1>3, <1>5, <3>1, PutCount DEF DataInv
  <2>2. k' \in KernelState
    BY <1>5, WakeEffect
  <2>3. \A t \in Task : CallInv(t)'
    BY <1>1, <1>3 DEF CallInv, Busy
  <2>4. CASE Wake(k) = k /\ \A u \in Task : u \notin ToSet(k.list[Queue])
    <3>1. k' = k
      BY <1>5, <2>4
    <3>2. BaseInv' /\ UnusedInv'
      <4>1. BaseInv /\ UnusedInv
        BY DEF MqInv
      <4>2. UnusedInv'
        BY <1>1, <3>1, <4>1 DEF UnusedInv, TickLinked
      <4>3. SafetyInv'
        BY <1>1, <3>1, <4>1
        DEF BaseInv, SafetyInv, TypeInv, TypeOK, LockInv, BootInv, TodoInv, HolderInv, IdleInv,
            OwnInv, Works, SwitchComing, CtxDue, SafeInv, Safe
      <4>4. ReadyInv'
        BY <1>1, <3>1, <4>1 DEF BaseInv, ReadyInv, Ready, Settled, Works
      <4>5. QED
        BY <1>1, <3>1, <4>1, <4>2, <4>3, <4>4 DEF BaseInv
    <3>3. ASSUME NEW t \in Task PROVE RankInv(t)' /\ ProgressInv(t)'
      <4>1. RankInv(t)'
        BY <1>1, <1>3, <3>1 DEF RankInv, Busy, Ready
      <4>2. ~ Busy(t) => ProgressInv(t)'
        BY <1>1 DEF ProgressInv, Busy
      <4>3. ASSUME Busy(t) PROVE ProgressInv(t)'
        <5>1. discipline = t
          BY <1>1, <1>3, <4>3 DEF RankInv
        <5>2. QED
          BY <1>1, <1>5, <2>4, <3>1, <5>1, PutProgress
      <4>4. QED
        BY <4>1, <4>2, <4>3
    <3>4. QED
      BY <1>2, <2>1, <2>3, <3>2, <3>3 DEF MqInv, TaskInv
  <2>5. ASSUME NEW u \in Task \ {Idle}, WakesOne(u) PROVE MqInv'
    <3>1. /\ u \in alive /\ Busy(u) /\ job[u].at = "wait" /\ u \in ToSet(k.list[Queue])
          /\ k.state[u] = "BLOCKING" /\ OnlyTask(k, k', u) /\ k'.prio = k.prio
          /\ Ready(k', u) /\ k'.state[u] = "READY"
      BY <1>5, <2>5 DEF WakesOne
    <3>2. BaseInv'
      BY <1>1, <2>2, <3>1, SoftMoves
    <3>3. UnusedInv'
      <4>1. MovesOne(u)
        BY <1>1, <3>1 DEF MovesOne
      <4>2. QED
        BY <4>1, UnusedMoved
    <3>4. u \notin ToSet(k'.list[Queue])
      BY <2>2, <3>1, MqFacts, NotWaiting DEF OnlyTask
    <3>5. RankInv(u)' /\ ProgressInv(u)'
      <4>1. RankInv(u)'
        BY <1>1, <1>3, <3>1, <3>4 DEF RankInv, Busy
      <4>2. job[u].op = "receive"
        BY <1>1, <1>3, <3>1 DEF RankInv
      <4>3. Possible(u)'
        BY <1>1, <1>5, <4>2 DEF Possible
      <4>4. ProgressInv(u)'
        BY <1>1, <3>1, <3>4, <4>3 DEF ProgressInv, Halfway
      <4>5. QED
        BY <4>1, <4>4
    <3>6. ASSUME NEW t \in Task \ {u} PROVE RankInv(t)' /\ ProgressInv(t)'
      <4>1. ~ Busy(t)' /\ t \notin ToSet(k.list[Queue])
        BY <1>1, <1>3, <3>1, OneBusy DEF Busy, RankInv
      <4>2. t \notin ToSet(k'.list[Queue])
        BY <3>1, <4>1, MqFacts DEF OnlyTask, Untouched
      <4>3. QED
        BY <4>1, <4>2 DEF RankInv, ProgressInv
    <3>7. QED
      BY <1>2, <2>1, <2>3, <3>2, <3>3, <3>5, <3>6 DEF MqInv, TaskInv
  <2>6. QED
    BY <2>4, <2>5, WakeEffect
<1>6. QED
  BY <1>4, <1>5, PublishEffect

-----------------------------------------------------------------------------
(* The invariant, and what it shows of the queue.                          *)

LEMMA MqInvInit == MqInit => MqInv
<1> SUFFICES ASSUME MqInit PROVE MqInv
  OBVIOUS
<1>1. /\ Init /\ msgs = <<>> /\ num = 0 /\ job = [t \in Task |-> NoJob] /\ posts = <<>>
      /\ discipline \in Disciplines /\ k = KernelReset /\ todo = [t \in Task |-> <<>>]
  BY DEF MqInit, os_mqueue_init, Init
<1>2. /\ k.lock = 0 /\ ~ k.fault /\ k.ticks = <<>> /\ \A l \in List : k.list[l] = <<>>
  BY <1>1 DEF KernelReset
<1>3. BaseInv
  <2>1. ReadyInv
    <3>1. ~ running
      BY <1>1 DEF Init
    <3>2. ~ Works /\ ~ Settled
      BY <3>1 DEF Works, Settled
    <3>3. QED
      BY <1>2, <3>1, <3>2 DEF ReadyInv
  <2>2. QED
    BY <1>1, <1>2, <2>1, SafetyInvInit, ChoiceInit DEF BaseInv
<1>4. DataInv
  <2>1. NoJob \in Job
    BY DEF Job
  <2>2. msgs \in Seq(Message) /\ posts \in Seq(Message) /\ Len(posts) = 0
    BY <1>1
  <2>3. QED
    BY <1>1, <2>1, <2>2, MqFacts DEF DataInv
<1>5. \A l \in List : ToSet(k.list[l]) = {}
  BY <1>2 DEF ToSet
<1>6. UnusedInv
  BY <1>2, <1>5 DEF UnusedInv, TickLinked
<1>7. ASSUME NEW t \in Task PROVE CallInv(t) /\ RankInv(t) /\ ProgressInv(t)
  <2>1. ~ Busy(t) /\ todo[t] = <<>> /\ t \notin ToSet(k.list[Queue])
    BY <1>1, <1>5, MqFacts DEF Busy
  <2>2. CallInv(t)
    BY <2>1, AwaitNone, NotGone DEF CallInv
  <2>3. QED
    BY <2>1, <2>2 DEF RankInv, ProgressInv
<1>8. CountInv
  BY <1>1 DEF CountInv
<1>9. PostsInv
  BY <1>1 DEF PostsInv
<1>10. QED
  BY <1>3, <1>4, <1>6, <1>7, <1>8, <1>9 DEF MqInv, TaskInv

LEMMA MqInvStep == MqClient /\ MqInv /\ [MqNext]_allVars => MqInv'
<1> SUFFICES ASSUME MqClient, MqInv, [MqNext]_allVars PROVE MqInv'
  OBVIOUS
<1>1. CASE UNCHANGED allVars
  <2>1. /\ k' = k /\ UNCHANGED <<running, todo, alive, swEnabled, swPending, irq>>
        /\ UNCHANGED <<msgs, num, job, posts, discipline>>
    BY <1>1 DEF allVars, vars, mqVars
  <2>2. DataInv' /\ PostsInv' /\ swPending \in BOOLEAN
    BY <2>1, BaseParts
    DEF MqInv, DataInv, PostsInv, MayPost, MayPut, Unguarded, TypeInv, TypeOK
  <2>3. QED
    BY <2>1, <2>2, QueueOnly
<1>2. CASE KernelStep
  BY <1>2, KernelKeeps
<1>3. CASE QueueStep
  <2>1. ASSUME NEW t \in Task, Resumes(t) PROVE MqInv'
    BY <2>1, WaitReturnStep, AccessListStep, LoadCountStep, StoreCountStep, WakeNextStep
    DEF Resumes
  <2>2. QED
    BY <1>3, <2>1, SendStep, ReceiveStep, ClearStep, IntPostStep, PublishStep DEF QueueStep
<1>4. QED
  BY <1>1, <1>2, <1>3, MqSteps

LEMMA MqInvHolds == ASSUME MqClient PROVE MqSpec => []MqInv
<1>1. MqInit => MqInv
  BY MqInvInit
<1>2. MqInv /\ [MqNext]_allVars => MqInv'
  BY MqInvStep
<1>3. QED
  BY <1>1, <1>2, PTL DEF MqSpec

\* The variables keep their types; among them, the count stays between zero and the
\* capacity.
THEOREM QueueTypes == ASSUME MqClient PROVE MqSpec => []MqTypeOK
<1>1. MqInv => MqTypeOK
  BY BaseParts DEF MqInv, DataInv, MqTypeOK, TypeInv
<1>2. QED
  BY <1>1, MqInvHolds, PTL

\* No task is left waiting for a message while the list has one, or for space while it
\* has some: each of send, receive, clear and the published send wakes who waits for it,
\* and what a listener does after its wait, outside of a critical section and with sends
\* and interrupts in between, leaves the count by which all of them decide right.
THEOREM WakeupsArrive == ASSUME MqClient PROVE MqSpec => []NoLostWakeup
<1>1. MqInv => NoLostWakeup
  <2> SUFFICES ASSUME MqInv PROVE NoLostWakeup
    OBVIOUS
  <2>1. ASSUME NEW t \in ToSet(k.list[Queue])
        PROVE  IF job[t].op = "receive" THEN msgs = <<>> ELSE Len(msgs) = Capacity
    <3>1. /\ msgs \in Seq(Message) /\ num \in 0..Capacity /\ Capacity \in Nat
      BY MqFacts DEF MqInv, DataInv
    <3>2. QED
      BY <2>1, <3>1, Waiters
  <2>2. QED
    BY <2>1 DEF NoLostWakeup
<1>2. QED
  BY <1>1, MqInvHolds, PTL

\* A receive never takes the head of an empty list for a message, and no task of the
\* queue is linked into a list twice: the message for which a listener was woken is
\* still there when it goes on, as only the listener takes any.
THEOREM QueueMemoryIsSound == ASSUME MqClient PROVE MqSpec => []NoFault
<1>1. MqInv => NoFault
  BY DEF MqInv, BaseInv, NoFault
<1>2. QED
  BY <1>1, MqInvHolds, PTL

\* Each step puts one message behind the others while there is space, takes the first
\* one, removes all, or leaves the list as it is.
LEMMA MqStepIsAbstract ==
  MqClient /\ MqInv /\ [MqNext]_allVars => [Bounded!Put \/ Bounded!Get \/ Bounded!Clear]_msgs
<1> SUFFICES ASSUME MqClient, MqInv, [MqNext]_allVars
             PROVE  [Bounded!Put \/ Bounded!Get \/ Bounded!Clear]_msgs
  OBVIOUS
<1>1. ASSUME msgs \in Seq(Message), Len(msgs) < Capacity,
             \E m \in Message : msgs' = Append(msgs, m)
      PROVE  Bounded!Put
  BY <1>1 DEF Bounded!Put
<1>2. ASSUME msgs # <<>>, msgs' = Tail(msgs) PROVE Bounded!Get
  BY <1>2 DEF Bounded!Get
<1>3. CASE UNCHANGED allVars
  BY <1>3 DEF allVars, mqVars
<1>4. CASE KernelStep
  BY <1>4 DEF KernelStep, mqVars
<1>5. ASSUME NEW t \in Task, os_mqueue_send(t) PROVE msgs' = msgs \/ Bounded!Put
  <2>1. Invokes(t, "mqSend")
    BY <1>5 DEF os_mqueue_send
  <2>2. Len(msgs) <= num /\ msgs \in Seq(Message) /\ num \in Nat /\ Capacity \in Nat
    BY <2>1, InvokeFacts, AloneCount, PutRoom
  <2>3. \/ msgs' = msgs
        \/ ~ Full /\ \E m \in Message : msgs' = Append(msgs, m)
    BY <1>5 DEF os_mqueue_send, WaitFor
  <2>4. ~ Full => Len(msgs) < Capacity
    BY <2>2 DEF Full
  <2>5. QED
    BY <1>1, <2>2, <2>3, <2>4
<1>6. ASSUME NEW t \in Task, os_mqueue_receive(t) PROVE msgs' = msgs \/ Bounded!Get
  <2>1. msgs' = msgs \/ (msgs # <<>> /\ msgs' = Tail(msgs))
    BY <1>6 DEF os_mqueue_receive, WaitFor, TakeFirst
  <2>2. QED
    BY <1>2, <2>1
<1>7. ASSUME NEW t \in Task, os_mqueue_clear(t) PROVE Bounded!Clear
  BY <1>7, ClearEffect DEF Bounded!Clear
<1>8. ASSUME NEW t \in Task, Resumes(t) PROVE msgs' = msgs \/ Bounded!Put \/ Bounded!Get
  <2>1. CASE AccessList(t)
    <3>1. GoesOn(t, "list")
      BY <2>1 DEF AccessList
    <3>2. /\ num = Len(msgs) /\ msgs \in Seq(Message) /\ Possible(t) /\ Busy(t)
          /\ job[t] \in Job /\ job[t].op \in {"send", "receive"}
      BY <3>1, ResumeFacts, OwnProgress
    <3>3. CASE job[t].op = "send"
      <4>1. msgs' = Append(msgs, job[t].msg) /\ job[t].msg \in Message
        BY <2>1, <3>2, <3>3, JobFacts DEF AccessList, Busy
      <4>2. Len(msgs) < Capacity
        BY <3>2, <3>3 DEF Possible
      <4>3. QED
        BY <1>1, <3>2, <4>1, <4>2
    <3>4. CASE job[t].op = "receive"
      <4>1. msgs' = msgs \/ (msgs # <<>> /\ msgs' = Tail(msgs))
        BY <2>1, <3>4 DEF AccessList, TakeFirst
      <4>2. QED
        BY <1>2, <4>1
    <3>5. QED
      BY <3>2, <3>3, <3>4
  <2>2. CASE WaitReturn(t) \/ LoadCount(t) \/ StoreCount(t) \/ WakeNext(t)
    BY <2>2 DEF WaitReturn, LoadCount, StoreCount, WakeNext
  <2>3. QED
    BY <1>8, <2>1, <2>2 DEF Resumes
<1>9. CASE IntPost
  BY <1>9 DEF IntPost
<1>10. CASE Publish
  <2>1. \A u \in Task : Halfway(u) => discipline = u
    BY <1>10, PublishEffect DEF MqInv, TaskInv, RankInv, Halfway
  <2>2. /\ Len(msgs) <= num /\ msgs \in Seq(Message) /\ num \in Nat /\ Capacity \in Nat
    BY <2>1, PutRoom, MqFacts DEF MqInv, DataInv
  <2>3. num < Capacity => Len(msgs) < Capacity
    BY <2>2
  <2>4. QED
    BY <1>1, <1>10, <2>2, <2>3, PublishEffect
<1>11. QED
  BY <1>3, <1>4, <1>5, <1>6, <1>7, <1>8, <1>9, <1>10, MqSteps DEF QueueStep

\* The list is a bounded queue: no message is lost, seen twice or put in before one that
\* was sent earlier, there are never more than the capacity, and a published call that
\* finds it full leaves it alone.  Sends and publications that come while a listener has
\* taken its message and not yet lowered the count find one place less than there is.
THEOREM ImplementsBoundedQueue == ASSUME MqClient PROVE MqSpec => IsBoundedQueue
<1>1. MqInit => Bounded!Init
  BY DEF MqInit, os_mqueue_init, Bounded!Init
<1>2. MqInv /\ [MqNext]_allVars => [Bounded!Put \/ Bounded!Get \/ Bounded!Clear]_msgs
  BY MqStepIsAbstract
<1>3. QED
  BY <1>1, <1>2, MqInvHolds, PTL DEF MqSpec, IsBoundedQueue, Bounded!Spec
=============================================================================
