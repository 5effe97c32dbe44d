-------------------------------- MODULE Kernel --------------------------------
(***************************************************************************)
(* Tasks, the SysTick handler and the software-interrupt handler working   *)
(* on the kernel's data.  One step of a task is one critical section: while*)
(* it lasts the software interrupt is masked, and the two kernel handlers, *)
(* of one priority, do not preempt each other.  What a system call still   *)
(* has to do after its first critical section is the sequence todo[t].     *)
(***************************************************************************)
EXTENDS KernelOps

CONSTANTS UserTask,   \* the tasks the application may create
          UserPrio,   \* the priorities it gives them
          Calls,      \* the system calls it makes
          Delays,     \* the arguments of os_task_delay_ms, 0 apart
          Careless,   \* it suspends, resumes, destroys without looking
          MaxNest,    \* bound: it nests the scheduler lock this deep
          NestLimit,  \* 200 in the code
          MaxMissed   \* bound on the ticks missed in a row

VARIABLES k,          \* the record of KernelOps
          running,    \* _os_sched_flag
          todo,       \* what is left of each task's system call
          alive,      \* tasks created and not ended
          swEnabled,  \* the software interrupt is enabled in the NVIC
          swPending,  \* it is pending
          irq         \* the kernel handler that is part way through its work
vars == <<k, running, todo, alive, swEnabled, swPending, irq>>

ASSUME ClientAssumption ==
  /\ UserTask \subseteq Task \ {Idle} /\ UserPrio \subseteq Prio
  /\ Delays \subseteq Count \ {0} /\ Careless \in BOOLEAN
  /\ MaxNest \in Nat /\ NestLimit \in Nat /\ MaxMissed \in Count

\* "waitRet" is for the calls that wait on an object, in other modules.
Step == {"sched", "ctxSw", "delayRet", "waitRet", "gone"}

TypeOK ==
  /\ k \in KernelState
  /\ running \in BOOLEAN
  /\ todo \in [Task -> Seq(Step)]
  /\ alive \subseteq Task
  /\ swEnabled \in BOOLEAN /\ swPending \in BOOLEAN
  /\ irq \in {"none", "tick", "sw"}

Init ==
  /\ k = KernelReset
  /\ running = FALSE
  /\ todo = [t \in Task |-> <<>>]
  /\ alive = {}
  /\ swEnabled = FALSE /\ swPending = FALSE /\ irq = "none"

-----------------------------------------------------------------------------
(* Booting: main creates tasks, then calls os_sys_start.                   *)

\* __os_sched with no current task, and the interrupt it pends.
BootCreate(t, p) ==
  /\ ~ running /\ t \notin alive
  /\ LET k1 == os_sched(os_task_create(k, t, p), "thread")
     IN k' = k1 /\ swPending' = (swPending \/ Switches(k1))
  /\ alive' = alive \cup {t}
  /\ UNCHANGED <<running, todo, swEnabled, irq>>

os_sys_start ==
  /\ ~ running /\ Idle \in alive
  /\ k' = os_rq_get_highest_prio_task(k)
  /\ running' = TRUE /\ swEnabled' = TRUE /\ swPending' = TRUE
  /\ UNCHANGED <<todo, alive, irq>>

Boot == \/ \E t \in UserTask, p \in UserPrio : BootCreate(t, p)
        \/ BootCreate(Idle, MaxPrio)
        \/ os_sys_start

-----------------------------------------------------------------------------
(* Tasks.                                                                  *)

\* Task t executes: it is current and no kernel handler is running or due.
Runs(t) == /\ running /\ k.cur = t /\ ~ k.fault /\ irq = "none"
           /\ ~ (swEnabled /\ swPending)

\* Task t makes the system call c.
Invokes(t, c) == Runs(t) /\ t \in alive \ {Idle} /\ c \in Calls /\ todo[t] = <<>>

\* The call has used up its critical section; the steps in rest remain.
Then(t, k1, rest) ==
  /\ k' = k1 /\ todo' = [todo EXCEPT ![t] = rest]
  /\ UNCHANGED <<running, swEnabled, swPending, irq>>

Create(t) ==
  /\ Invokes(t, "create")
  /\ \E u \in UserTask \ alive, p \in UserPrio :
       /\ k.state[u] = "NONE"
       /\ alive' = alive \cup {u}
       /\ Then(t, os_task_create(k, u, p), <<"sched">>)

\* The task function returns into __os_task_exit_handle.
Exit(t) ==
  /\ Invokes(t, "exit")
  /\ alive' = alive \ {t}
  /\ Then(t, os_rq_del_task(k, t), <<"sched", "gone">>)

os_task_delay_ms(t) ==
  /\ Invokes(t, "delay")
  /\ \E n \in Delays : Then(t, os_add_tick_task(k, t, n, NULL), <<"sched", "delayRet">>)
  /\ UNCHANGED alive

os_task_yield(t) ==
  /\ Invokes(t, "yield")
  /\ Then(t, [k EXCEPT !.slice[t] = 0], <<"sched">>)
  /\ UNCHANGED alive

\* Suspending a blocked task, and resuming one that is not blocked, returns
\* from inside the critical section: the software interrupt stays masked.
LeakCritical ==
  swEnabled' = FALSE /\ UNCHANGED <<k, running, todo, alive, swPending, irq>>

\* Which tasks a client that looks would name in the two calls.
Suspendable == {u \in alive \ {Idle} : Careless \/ k.state[u] # "BLOCKING"}
Resumable == {u \in alive \ {Idle} : Careless \/ u \in ToSet(k.list[SysBlock])}

os_task_suspend(t) ==
  /\ Invokes(t, "suspend")
  /\ \E u \in Suspendable :
       IF k.state[u] = "BLOCKING" THEN LeakCritical
       ELSE Then(t, os_add_block_task(k, u, SysBlock), <<"sched">>) /\ UNCHANGED alive

os_task_resume(t) ==
  /\ Invokes(t, "resume")
  /\ \E u \in Resumable :
       IF k.state[u] # "BLOCKING" THEN LeakCritical
       ELSE Then(t, os_rq_add_task(UnlinkSlot(k, u), u), <<"sched">>) /\ UNCHANGED alive

\* os_wakeup_tick_task, of a task that waits; for another it does nothing.
\* It does not end with a call of __os_sched.
WakeTick(t) ==
  /\ Invokes(t, "wake")
  /\ \E u \in alive : TickLinked(k, u) /\ Then(t, os_wakeup_tick_task(k, u), <<>>)
  /\ UNCHANGED alive

os_sched_lock(t) ==
  /\ Invokes(t, "lock")
  /\ k.lock <= NestLimit /\ k.lock < MaxNest
  /\ Then(t, [k EXCEPT !.lock = @ + 1, !.locker = IF k.lock = 0 THEN t ELSE @], <<>>)
  /\ UNCHANGED alive

\* Mutant: the nesting is not looked at before it is decremented.
UnlockUnguarded(t) ==
  /\ Invokes(t, "unlock")
  /\ Then(t, [k EXCEPT !.lock = @ - 1], <<"sched">>)
  /\ UNCHANGED alive

os_sched_unlock(t) ==
  /\ Invokes(t, "unlock")
  /\ k.lock > 0
  /\ Then(t, [k EXCEPT !.lock = @ - 1, !.locker = IF k.lock = 1 THEN NULL ELSE @],
          <<"sched">>)
  /\ UNCHANGED alive

Call(t) == \/ Create(t) \/ Exit(t) \/ os_task_delay_ms(t) \/ os_task_yield(t)
           \/ os_task_suspend(t) \/ os_task_resume(t) \/ WakeTick(t)
           \/ os_sched_lock(t) \/ os_sched_unlock(t)

\* The next step of a call.
Continues(t, step) == Runs(t) /\ todo[t] # <<>> /\ Head(todo[t]) = step

\* __os_sched up to its last line, os_ctx_sw.
SchedStep(t) ==
  /\ Continues(t, "sched")
  /\ LET k1 == os_sched(k, "thread")
     IN Then(t, k1, (IF Switches(k1) THEN <<"ctxSw">> ELSE <<>>) \o Tail(todo[t]))
  /\ UNCHANGED alive

os_ctx_sw(t) ==
  /\ Continues(t, "ctxSw")
  /\ swPending' = TRUE /\ todo' = [todo EXCEPT ![t] = Tail(@)]
  /\ UNCHANGED <<k, running, alive, swEnabled, irq>>

\* The end of os_task_delay_ms; a state TIMEOUT is left as it is.
DelayReturn(t) ==
  /\ Continues(t, "delayRet")
  /\ Then(t, [k EXCEPT !.bstate[t] = IF @ = "EARLY_WAKEUP" THEN "NONE" ELSE @],
          Tail(todo[t]))
  /\ UNCHANGED alive

\* __os_task_exit_handle has nothing to return to.
RunsOff(t) ==
  /\ Continues(t, "gone")
  /\ Then(t, [k EXCEPT !.fault = TRUE], <<>>)
  /\ UNCHANGED alive

TaskStep(t) == SchedStep(t) \/ os_ctx_sw(t) \/ DelayReturn(t) \/ RunsOff(t)

-----------------------------------------------------------------------------
(* The two kernel handlers.                                                *)

\* Mutant: the handler changes os_task_ready and does not pend the switch.
PendNever(k1, called) == swPending' = swPending

\* Whether the handler that left k1 by way of __os_sched pends the switch.
Pend(k1, called) == swPending' = (swPending \/ (called /\ Switches(k1)))

TickTaken == running /\ k.cur # NULL /\ ~ k.fault /\ irq = "none" /\ swEnabled
ExpiryDue == irq = "tick" /\ ~ k.fault
SwitchDue == swEnabled /\ swPending /\ ~ k.fault /\ irq = "none"

\* os_systick_handler: the slice of the current task, then the first tick node.
SysTick ==
  /\ TickTaken
  /\ LET k1 == os_sched_timeslice_poll(k)
         k2 == CountTick(k1)
     IN /\ k' = k2
        /\ irq' = IF ~ k2.fault /\ FirstIsDue(k2) THEN "tick" ELSE "none"
        /\ Pend(k1, SliceUsedUp(k))
  /\ UNCHANGED <<running, todo, alive, swEnabled>>

\* The task leaves the expired node and is made ready.
ExpireTask ==
  /\ ExpiryDue /\ k.ticks[1].tasks # <<>>
  /\ k' = ExpireFirst(k)
  /\ UNCHANGED <<running, todo, alive, swEnabled, swPending, irq>>

\* The node is freed; the poll goes on with the next if that is due as well.
ExpireNext ==
  /\ ExpiryDue /\ k.ticks[1].tasks = <<>>
  /\ FirstIsDue(DropNode(k))
  /\ k' = DropNode(k)
  /\ UNCHANGED <<running, todo, alive, swEnabled, swPending, irq>>

\* Mutant: the poll does not call the scheduler for the tasks it made ready.
AfterExpiryUnscheduled(k0) == [DropNode(k0) EXCEPT !.tickMissed = 0]

\* The end of os_task_tick_poll.
AfterExpiry(k0) == os_sched([DropNode(k0) EXCEPT !.tickMissed = 0], "thread")

ExpireLast ==
  /\ ExpiryDue /\ k.ticks[1].tasks = <<>>
  /\ ~ FirstIsDue(DropNode(k))
  /\ k' = AfterExpiry(k) /\ Pend(AfterExpiry(k), TRUE)
  /\ irq' = "none"
  /\ UNCHANGED <<running, todo, alive, swEnabled>>

\* SysTick finds the software interrupt masked: within a critical section of
\* the current task, or because of one that was never left.
MissTick ==
  /\ running /\ ~ k.fault /\ irq = "none"
  /\ swEnabled => \E t \in UserTask : Runs(t)
  /\ k.tickMissed < MaxMissed /\ k.sliceMissed < MaxMissed
  /\ k' = [k EXCEPT !.tickMissed = @ + 1, !.sliceMissed = @ + 1]
  /\ UNCHANGED <<running, todo, alive, swEnabled, swPending, irq>>

\* The tail of SW_Handler: schedule, unless a switch is already due.
SwitchTask(k0) ==
  LET k1 == IF k0.cur = NULL THEN [k0 EXCEPT !.cur = k0.nxt] ELSE k0
      k2 == IF k1.cur = k1.nxt THEN os_sched(k1, "sw") ELSE k1
  IN IF k2.fault THEN k2 ELSE [k2 EXCEPT !.cur = k2.nxt]

\* SW_Handler up to the calls that interrupts posted, which module Semaphore
\* adds, and from there to its end.
SwEnter ==
  /\ SwitchDue
  /\ swPending' = FALSE /\ irq' = "sw"
  /\ UNCHANGED <<k, running, todo, alive, swEnabled>>

SwLeave ==
  /\ irq = "sw" /\ ~ k.fault
  /\ k' = SwitchTask(k)
  /\ irq' = "none"
  /\ UNCHANGED <<running, todo, alive, swEnabled, swPending>>

TickHandler == SysTick \/ ExpireTask \/ ExpireNext \/ ExpireLast

Next == \/ Boot
        \/ \E t \in Task : Call(t) \/ TaskStep(t)
        \/ TickHandler \/ MissTick
        \/ SwEnter \/ SwLeave

\* A tick is taken and leaves some variable changed.
TickChanges ==
  LET k1 == os_sched_timeslice_poll(k)
  IN TickTaken /\ \/ CountTick(k1) # k
                  \/ ~ swPending /\ SliceUsedUp(k) /\ Switches(k1)

StepDue(t) == Runs(t) /\ todo[t] # <<>>

\* The tick interrupt keeps coming outside of critical sections, a pending
\* handler is taken, and the processor goes on executing a system call.  What
\* the application calls, and when, is its own affair.  All but the first are
\* weak fairness with the action's ENABLED condition written out.
Fairness ==
  /\ WF_vars(Boot)
  /\ []<>~ TickChanges \/ []<><<SysTick>>_vars
  /\ []<>~ ExpiryDue   \/ []<><<ExpireTask \/ ExpireNext \/ ExpireLast>>_vars
  /\ []<>~ SwitchDue   \/ []<><<SwEnter>>_vars
  /\ []<>(irq # "sw" \/ k.fault) \/ []<><<SwLeave>>_vars
  /\ \A t \in UserTask : []<>~ StepDue(t) \/ []<><<TaskStep(t)>>_vars

Spec == Init /\ [][Next]_vars
FairSpec == Spec /\ Fairness

-----------------------------------------------------------------------------
(* What the scheduler owes the application.                                *)

Linked(t) == TickLinked(k, t) \/ \E o \in Object : t \in ToSet(k.list[o])

\* A live task is either in the ready queue of its priority or, blocked, where
\* a wakeup or the clock will find it: os_rq_del_task, os_add_block_task and
\* the tick list never drop a task between two lists.
NoTaskLost ==
  \A t \in alive : IF k.state[t] = "BLOCKING" THEN Linked(t)
                   ELSE t \in ToSet(k.list[k.prio[t]])

\* The bitmap and _highest_priority, which are updated by hand in three
\* functions, agree with the queues they summarise.
ReadyMapAccurate ==
  /\ k.map = {p \in Prio : k.list[p] # <<>>}
  /\ k.map # {} => k.high \in k.map /\ \A p \in k.map : k.high <= p

\* The round-robin position of the highest priority is a node of its queue,
\* although tasks leave that queue from several places.
RoundRobinPosition ==
  k.tsPrio = k.high => k.tsNode = k.high \/ k.tsNode \in ToSet(k.list[k.high])

\* No sequence of calls links a node twice, makes the scheduler take a list
\* head or NULL for a task, or lets a task run past its end.
NoFault == ~ k.fault

\* While a task executes code of its own, no task of a higher priority is
\* ready, unless the scheduler is locked.
HighestPriorityRuns ==
  \A t \in Task : Runs(t) /\ todo[t] = <<>> /\ k.lock = 0 => k.prio[t] = k.high

\* While the scheduler is locked nobody but the task that locked it executes,
\* except the idle task while that task delays itself: the slice, expired waits
\* and pending switches from before the lock leave it alone.
LockExcludes == k.lock > 0 => k.cur \in {k.locker, Idle}

\* A switch leads to a task at the highest ready priority: os_task_ready does
\* not go stale between __os_sched and the software interrupt.
SwitchToReady ==
  [][k'.cur # k.cur /\ k'.lock = 0
       => k'.cur # NULL /\ k'.cur \in ToSet(k'.list[k'.high])]_vars

\* Every delay ends, however often tasks come and go and ticks are missed.
DelayEnds ==
  \A t \in Task : (k.bstate[t] = "TICKING") ~> (k.bstate[t] # "TICKING")

\* A ready task at the highest ready priority gets the processor: the slice
\* rotation leaves nobody out, unless the scheduler is locked for good.
RoundRobin ==
  \A t \in Task : (t \in ToSet(k.list[k.high]) /\ k.lock = 0)
                    ~> (k.cur = t \/ t \notin ToSet(k.list[k.high]) \/ k.lock > 0)
=============================================================================
