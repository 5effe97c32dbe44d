------------------------------ MODULE KernelOps ------------------------------
(***************************************************************************)
(* The kernel's shared data as one record, and every function of           *)
(* os_sched.c, os_core.c, os_block.c and os_tick.c that changes it as an   *)
(* operator from the record before the call to the record after it.  The   *)
(* modules that describe who calls what, and when, are built on these.     *)
(*                                                                         *)
(*   list      the _slot_nd lists: one ready queue per priority            *)
(*             (_os_rq._queue) and the list of every blocking object.  A   *)
(*             list's name also stands for its head node.                  *)
(*   map, high the bitmap of occupied priorities (module Bitmap has its    *)
(*             bits) and _os_rq._highest_priority                          *)
(*   tsPrio, tsNode   _os_sched_timeslice_pos, the round-robin position    *)
(*   prio, state, bstate, slice   the fields of each control block         *)
(*   ticks     _os_tick_list_head: delta-coded nodes, each with its tasks  *)
(*   sliceMissed, tickMissed   the two counters named _in_crirical_poll_num*)
(*   lock, lockTcb   the nesting of the scheduler lock and the two static  *)
(*             variables named _lock_tcb, of the two copies of the         *)
(*             scheduling function                                         *)
(*   locker    history: the task that locked the scheduler, which the code *)
(*             does not record                                             *)
(*   cur, nxt  os_task_current and os_task_ready                           *)
(*   fault     the memory is corrupt: a node was linked while it was in a  *)
(*             list, or a list head or NULL was used as a control block.   *)
(*             Nothing is modelled after that.                             *)
(***************************************************************************)
EXTENDS Integers, SequencesExt

CONSTANTS Task,      \* the task control blocks, the idle task's among them
          Idle,      \* _idle_tcb
          MaxPrio,   \* OS_TASK_MAX_PRIORITY, the priority of the idle task
          Object,    \* the blocking objects: _owned_sys_block and others
          SysBlock,  \* _owned_sys_block
          Timeslice, \* OS_TIMESLICE_STD
          Wrap,      \* unsigned counters are modulo Wrap (2^32 in the code)
          NULL, Never   \* NULL and OS_NEVER_TIME_OUT

Prio == 0..MaxPrio
List == Prio \cup Object

ASSUME KernelAssumption ==
  /\ Idle \in Task /\ SysBlock \in Object
  /\ MaxPrio \in Nat /\ Timeslice \in Nat /\ Wrap \in Nat \ {0}
  /\ Timeslice < Wrap - 1   \* Wrap - 1 is OS_SCHED_TIMESLICE_NULL: no slices
  /\ Task \cap List = {} /\ Prio \cap Object = {}
  /\ NULL \notin Task \cup List /\ Never \notin Nat

TaskState  == {"NONE", "NEW", "READY", "RUNNING", "BLOCKING"}
BlockState == {"NONE", "TICKING", "TIMEOUT", "EARLY_WAKEUP"}
Count      == 0..(Wrap - 1)
TickNode   == [cnt : Count, tasks : Seq(Task)]

KernelState ==
  [list : [List -> Seq(Task)], map : SUBSET Prio, high : Prio,
   tsPrio : 0..(MaxPrio + 1), tsNode : Task \cup List \cup {NULL},
   prio : [Task -> Prio], state : [Task -> TaskState],
   bstate : [Task -> BlockState], slice : [Task -> Count],
   ticks : Seq(TickNode), sliceMissed : Count, tickMissed : Count,
   lock : Nat, locker : Task \cup {NULL},
   lockTcb : [{"thread", "sw"} -> Task \cup {NULL}],
   cur : Task \cup {NULL}, nxt : Task \cup {NULL}, fault : BOOLEAN]

\* The memory at reset, after os_sys_ready_queue_init, os_sched_timeslice_init
\* and os_sys_owned_block_init.
KernelReset ==
  [list |-> [l \in List |-> <<>>], map |-> {}, high |-> MaxPrio,
   tsPrio |-> MaxPrio + 1, tsNode |-> NULL,
   prio |-> [t \in Task |-> MaxPrio], state |-> [t \in Task |-> "NONE"],
   bstate |-> [t \in Task |-> "NONE"], slice |-> [t \in Task |-> 0],
   ticks |-> <<>>, sliceMissed |-> 0, tickMissed |-> 0,
   lock |-> 0, locker |-> NULL, lockTcb |-> [c \in {"thread", "sw"} |-> NULL],
   cur |-> NULL, nxt |-> NULL, fault |-> FALSE]

-----------------------------------------------------------------------------
(* os_list.h, on the _slot_nd and _bt_nd nodes of tasks.                   *)

Without(s, t) ==
  IF t \in ToSet(s) THEN RemoveAt(s, CHOOSE i \in DOMAIN s : s[i] = t) ELSE s

SlotLinked(k, t) == \E l \in List : t \in ToSet(k.list[l])
TickLinked(k, t) == \E i \in DOMAIN k.ticks : t \in ToSet(k.ticks[i].tasks)

\* list_del_init(&_task->_slot_nd), and of _bt_nd: whatever list it is in.
UnlinkSlot(k, t) ==
  [k EXCEPT !.list = [l \in List |-> Without(@[l], t)]]
WithoutIn(ticks, t) ==
  [i \in DOMAIN ticks |-> [ticks[i] EXCEPT !.tasks = Without(@, t)]]
UnlinkTick(k, t) == [k EXCEPT !.ticks = WithoutIn(@, t)]

\* node->next, of a task's _slot_nd or of a list's head.
NextNode(k, n) ==
  IF n \in List
    THEN IF k.list[n] = <<>> THEN n ELSE Head(k.list[n])
  ELSE IF n \in Task /\ SlotLinked(k, n)
    THEN LET l == CHOOSE x \in List : n \in ToSet(k.list[x])
             i == CHOOSE j \in DOMAIN k.list[l] : k.list[l][j] = n
         IN IF i < Len(k.list[l]) THEN k.list[l][i + 1] ELSE l
  ELSE n

-----------------------------------------------------------------------------
(* os_sched.c                                                              *)

\* Mutant: the bitmap is scanned from the wrong end.
HighestReadyPriorityLast(m) == IF m = {} THEN 0 ELSE Max(m)

\* __get_highest_ready_priority: the lowest number in the bitmap, 0 for none.
HighestReadyPriority(m) == IF m = {} THEN 0 ELSE Min(m)

\* A woken task goes to the head of its queue when it beats the current one.
os_rq_add_task(k, t) ==
  LET p == k.prio[t]
      q == k.list[p]
      first == k.cur = NULL \/ p < k.prio[k.cur]
  IN IF k.state[t] = "READY" THEN k
     ELSE [k EXCEPT !.map     = IF q = <<>> THEN @ \cup {p} ELSE @,
                    !.high    = IF q = <<>> /\ p < @ THEN p ELSE @,
                    !.list[p] = IF first THEN <<t>> \o q ELSE Append(q, t),
                    !.state[t] = "READY",
                    !.fault   = @ \/ SlotLinked(k, t)]

\* Mutant: the position stays on a task that leaves the queue.
LeaveSliceStays(k, t) == k

\* __os_sched_timeslice_task_rq_del: the round-robin position moves on.
LeaveSlice(k, t) ==
  IF k.prio[t] = k.tsPrio /\ t = k.tsNode THEN [k EXCEPT !.tsNode = NextNode(k, t)]
  ELSE k

os_rq_del_task(k, t) ==
  LET p  == k.prio[t]
      k1 == UnlinkSlot(LeaveSlice(k, t), t)
      m  == k.map \ {p}
  IN IF k1.list[p] # <<>> THEN k1
     ELSE [k1 EXCEPT !.map  = m,
                     !.high = IF @ = p THEN HighestReadyPriority(m) ELSE @]

\* Mutants: the head of a queue is taken for a task; a used-up slice gives no way.
SkipHeadNever(k, n) == n
RotatesNever(k, n) == FALSE

\* A position on the head of the highest queue means its first task, and a
\* task whose slice is used up gives way if it is not alone.
SkipHead(k, n) == IF n = k.high THEN NextNode(k, n) ELSE n
Rotates(k, n)  == Len(k.list[k.high]) > 1 /\ k.slice[n] = 0

\* os_rq_get_highest_prio_task, its result assigned to os_task_ready.
os_rq_get_highest_prio_task(k) ==
  LET h  == k.high
      n1 == SkipHead(k, IF k.tsPrio = h THEN k.tsNode ELSE NextNode(k, h))
      n2 == IF Rotates(k, n1) THEN SkipHead(k, NextNode(k, n1)) ELSE n1
  IN IF n1 \notin Task THEN [k EXCEPT !.fault = TRUE]
     ELSE IF n2 \notin Task THEN [k EXCEPT !.fault = TRUE]
     ELSE [k EXCEPT !.tsPrio = h, !.tsNode = n2, !.nxt = n2,
                    !.slice[n1] = IF Rotates(k, n1) THEN Timeslice ELSE @]

\* Mutant: the scheduler lock is not looked at.
ChooseReadyUnlocked(k, by) == os_rq_get_highest_prio_task(k)

\* How __os_sched and __os_sched_called_by_sw choose os_task_ready.  Each has a
\* static _lock_tcb of its own, named by "by".
ChooseReady(k, by) ==
  LET holder == IF k.cur # Idle THEN k.cur ELSE k.lockTcb[by]
  IN IF k.lock = 0 THEN os_rq_get_highest_prio_task(k)
     ELSE IF holder = NULL THEN [k EXCEPT !.fault = TRUE]
     ELSE [k EXCEPT !.lockTcb[by] = holder,
                    !.nxt = IF k.bstate[holder] = "TICKING" THEN Idle ELSE holder]

os_sched(k, by) ==
  LET k1 == ChooseReady(k, by)
  IN IF k1.fault \/ k1.nxt = k1.cur THEN k1
     ELSE [k1 EXCEPT !.state = [t \in Task |->
             IF t = k1.nxt THEN "RUNNING"
             ELSE IF t = k1.cur /\ @[t] = "RUNNING" THEN "READY" ELSE @[t]]]

\* Both return 0, so that a context switch follows, when this holds.
Switches(k) == ~ k.fault /\ k.nxt # k.cur

\* os_sched_timeslice_poll outside a critical section, up to its __os_sched.
UseSlice(k) ==
  LET s == k.slice[k.cur]
      left == IF k.sliceMissed >= s THEN 0 ELSE s - k.sliceMissed - 1
  IN [k EXCEPT !.slice[k.cur] = IF left > Timeslice THEN 0 ELSE left,
               !.sliceMissed = 0]

SliceUsedUp(k) == UseSlice(k).slice[k.cur] = 0

os_sched_timeslice_poll(k) ==
  IF SliceUsedUp(k) THEN os_sched(UseSlice(k), "thread") ELSE UseSlice(k)

-----------------------------------------------------------------------------
(* os_block.c                                                              *)

\* Where both list-add functions put a task of priority p into s: behind the
\* first task of a lower priority, and at the front when there is none.
BlockPosition(k, s, p) ==
  LET lower == {i \in DOMAIN s : k.prio[s[i]] > p}
  IN IF lower = {} THEN 1 ELSE Min(lower) + 1

BlockInsert(k, s, t) == InsertAt(s, BlockPosition(k, s, k.prio[t]), t)

os_add_block_task(k, t, obj) ==
  LET k1 == os_rq_del_task(k, t)
  IN [k1 EXCEPT !.list[obj] = BlockInsert(k, @, t),
                !.state[t]  = "BLOCKING",
                !.fault     = @ \/ SlotLinked(k1, t)]

os_block_wakeup_task(k, t) ==
  os_rq_add_task(IF k.state[t] = "BLOCKING" THEN UnlinkSlot(k, t) ELSE k, t)

\* os_block_wakeup_first_task with the callback every caller passes, which
\* unlinks the task from the tick list.
os_block_wakeup_first_task(k, obj) ==
  IF k.list[obj] = <<>> THEN k
  ELSE LET t == Head(k.list[obj]) IN UnlinkTick(os_block_wakeup_task(k, t), t)

\* os_block_wakeup_all_task, which has no callback.
os_block_wakeup_all_task(k, obj) ==
  LET q == k.list[obj]
      woken[i \in 0..Len(q)] ==
        IF i = 0 THEN k ELSE os_block_wakeup_task(woken[i - 1], q[i])
  IN woken[Len(q)]

-----------------------------------------------------------------------------
(* os_tick.c                                                               *)

\* The ticks from now to the expiry of node i, for i \in 0..Len(ticks).
Expiry(ticks) ==
  LET e[i \in 0..Len(ticks)] ==
        IF i = 0 THEN 0 ELSE (e[i - 1] + ticks[i].cnt) % Wrap
  IN e

\* The node a wait of n ticks joins, or the place before which it gets a node.
TickPosition(ticks, n) ==
  LET due == {i \in DOMAIN ticks : Expiry(ticks)[i] >= n}
  IN IF due = {} THEN Len(ticks) + 1 ELSE Min(due)

\* Task t joins node i; task t gets a node of its own before node i, which then
\* has fewer ticks to wait after it.
TickJoin(k, i, t) == [k.ticks EXCEPT ![i].tasks = BlockInsert(k, @, t)]
TickSplit(k, i, t, n) ==
  LET delta == (n - Expiry(k.ticks)[i - 1]) % Wrap
      later == [j \in DOMAIN k.ticks |->
                  IF j = i THEN [k.ticks[j] EXCEPT !.cnt = (@ - delta) % Wrap]
                  ELSE k.ticks[j]]
  IN InsertAt(later, i, [cnt |-> delta, tasks |-> <<t>>])

os_tick_add_node(k, t, n) ==
  LET i  == TickPosition(k.ticks, n)
      k1 == os_rq_del_task([k EXCEPT !.bstate[t] = "TICKING"], t)
  IN [k1 EXCEPT !.state[t] = "BLOCKING", !.fault = @ \/ TickLinked(k, t),
                !.ticks = IF i <= Len(k.ticks) /\ Expiry(k.ticks)[i] = n
                            THEN TickJoin(k, i, t) ELSE TickSplit(k, i, t, n)]

os_add_tick_task(k, t, n, obj) ==
  LET k1 == IF n = Never THEN k ELSE os_tick_add_node(k, t, n)
  IN IF k.state[t] = "BLOCKING" THEN k
     ELSE IF obj = NULL THEN k1
     ELSE os_add_block_task(k1, t, obj)

\* Mutant: the task whose wait has ended is not made ready.
EndWaitOnly(k, t, why) == UnlinkSlot([k EXCEPT !.bstate[t] = why], t)

\* The two callbacks: a wait that ended by time, and one that was cut short.
EndWait(k, t, why) ==
  os_rq_add_task(UnlinkSlot([k EXCEPT !.bstate[t] = why], t), t)

\* The body of os_wakeup_tick_task for a task that is on the tick list.
os_wakeup_tick_task(k, t) == EndWait(UnlinkTick(k, t), t, "EARLY_WAKEUP")

\* os_task_tick_poll takes the ticks it missed from a node with c ticks left.
TakeMissed(k, c) ==
  IF k.tickMissed > c THEN [k EXCEPT !.ticks[1].cnt = 0]
  ELSE [k EXCEPT !.ticks[1].cnt = c - k.tickMissed, !.tickMissed = 0]

\* Mutant: the tick that is being handled is not counted.
CountTickMissedOnly(k) ==
  IF k.ticks = <<>> THEN k ELSE TakeMissed(k, k.ticks[1].cnt)

\* The part of os_task_tick_poll before the first expired task.
CountTick(k) ==
  IF k.ticks = <<>> THEN k ELSE TakeMissed(k, (k.ticks[1].cnt - 1) % Wrap)

\* One round of the loop in __os_tick_del_all_task.
ExpireFirst(k) ==
  LET t == Head(k.ticks[1].tasks) IN EndWait(UnlinkTick(k, t), t, "TIMEOUT")

\* Mutant: with the expired node, the nodes behind it are given up as well.
DropNodeAll(k) == [k EXCEPT !.ticks = <<>>]

\* __os_tick_del_node, and the start of the poll's next round if there is one.
DropNode(k) ==
  LET k1 == [k EXCEPT !.ticks = Tail(@)]
  IN IF k1.ticks = <<>> THEN k1 ELSE TakeMissed(k1, k1.ticks[1].cnt)

FirstIsDue(k) == k.ticks # <<>> /\ k.ticks[1].cnt = 0

-----------------------------------------------------------------------------
(* os_core.c                                                               *)

\* os_task_create's part in the critical section, for a control block that is
\* in static storage and has not been used before.
os_task_create(k, t, p) ==
  os_rq_add_task([k EXCEPT !.prio[t] = p, !.state[t] = "NEW", !.slice[t] = 0], t)
=============================================================================
