# EPoseRTOS in TLA+

Specifications of EPoseRTOS, a small real-time operating system for single-core
microcontrollers: models of its kernel that TLC checks, and proofs about them that
TLAPS checks. The reference is the C and assembly code, in the CH32V307 (RISC-V)
configuration. Line numbers are those of the files beside this directory's parent.

## The system

| component | state | operations | interacts with |
|---|---|---|---|
| scheduler, `os_sched.c` | ready queues, priority bitmap, `_highest_priority`, round-robin position, lock nesting, `os_task_current`, `os_task_ready`, two `_lock_tcb` | add/remove a task, choose the next, yield, slice poll, lock/unlock, `__os_sched`, `__os_sched_called_by_sw` | called by everything; pends the software interrupt |
| tasks, `os_core.c` | control blocks, id table | create, end, `ps` | scheduler |
| blocking objects, `os_block.c` | one list per object, `_owned_sys_block` | block, wake the first or all, suspend, resume | scheduler, tick list |
| tick list, `os_tick.c` | delta-coded list of nodes, each with its tasks; missed ticks | wait n ticks, poll, cut a wait short | scheduler, heap (a node is allocated) |
| system, `os_sys.c` | running flag, irq nesting | init, start, SysTick handler | all |
| interrupt posting, `os_int_post.c`, `os_atomic.h` | ring of posted calls, two positions | post (any ISR), empty (software interrupt) | semaphore, message queue |
| port and board, `libcpu/riscv/ch32v307`, `board/ch32v307` | NVIC enable and pending bits, stacks | mask, unmask, pend, clear, `SW_Handler` | scheduler, posting |
| semaphore, `os_semaphore.c` | value, waiting tasks | take, release, posted release | blocking, tick list, scheduler |
| mutex, `os_mutex.c` | owner, its priority, nesting, waiting tasks | try, lock, unlock, destroy | blocking, tick list, scheduler, task priorities |
| message queue, `os_mqueue.c` | messages, count, waiting tasks | send, receive, posted send, clear | blocking, heap |
| heap, `os_malloc.c` | blocks of two heaps and of those an application provides, a mutex | allocate, free, with and without the mutex; usage | tick list, message queue, shell |
| device layer, `os_device.c` | registered devices under a mutex; flags, reference counts under none | register, unregister, find, init, open, close, read, write, indicate | UART driver, shell |
| soft timer, `os_soft_timer.c` | state, mode, period and time of expiry of each timer | start, stop, update (poll), read the time | SysTick's count and counter |
| shell and printk, `os_service.c` | line buffer, key combination, queue of lines, history and the place in it | key handling (interrupt), run a line (task), formatted output | device, queue posts, heap |

A *critical section* (`__OS_OWNED_ENTER_CRITICAL`) masks the software interrupt
only. SysTick and the software interrupt have the same priority and do not
preempt each other; SysTick looks whether the software interrupt is masked and, if
it is, only counts a missed tick. Device interrupts preempt everything and must
restrict themselves to `os_int_post`. A context switch is a pended software
interrupt, so `__os_sched` chooses `os_task_ready` some steps before the switch
takes place.

What makes the system hard to get right is therefore: every system call consists of several
critical sections with interrupts in between; a choice made in one handler is
used in another; one task is linked into two lists at a time (an object's and the
tick list's) and leaves both from four different places; time is counted in
differences, and missed ticks are made up for. The services above the kernel add their own:
a queue's call that waited goes on outside the critical section; a device's flags
belong to no lock; the time of a soft timer is read in two parts; an interrupt
routine and a task share the shell's history. `PROJECT.json` lists these hazards
line by line, with the properties that cover them.

## Modules

| module | content |
|---|---|
| `KernelOps` | the kernel's shared data as a record `k`, and each function of `os_sched.c`, `os_block.c`, `os_tick.c`, `os_core.c` as an operator on it |
| `Kernel` | tasks, SysTick and `SW_Handler` as actions on `k`; the properties of scheduling |
| `CountingSemaphore` | what a semaphore promises |
| `Semaphore` | `os_semaphore.c` on `Kernel`, with posting interrupts; implements `CountingSemaphore` |
| `Mutex` | `os_mutex.c` on `Kernel`, with what each task believes it holds as a history variable |
| `FifoPost` | what posting promises |
| `IntPost` | the ring of `os_int_post.c`, nested interrupts, the loop of the handler; implements `FifoPost` |
| `BoundedQueue` | what a message queue promises |
| `MessageQueue` | `os_mqueue.c` on `Kernel`, with posting interrupts; implements `BoundedQueue` |
| `Allocator` | what a heap promises |
| `Heap` | `os_malloc.c` used by tasks of different priorities, with the mutex of `os_mutex.c`, or by one task at a time without; implements `Allocator` |
| `Device` | `os_device.c` with drivers that may fail |
| `SoftTimer` | `os_soft_timer.c` and the clock it reads |
| `Shell` | input routine, publication, terminal task and history of `os_service.c` |
| `MCKernel`, `MCSemaphore`, `MCMutex`, `MCMessageQueue`, `MCHeap`, `MCDevice`, `MCShell` | sets of model values and symmetry for TLC |
| `KernelProofs` | lemmas on the operators of `KernelOps`: types, what each does to lists, bitmap and round-robin position; theorems on `Kernel`: types, the scheduler lock, lists, switches, choice, memory; lemmas on the calls that wait |
| `SemaphoreProofs`, `MutexProofs`, `MessageQueueProofs`, `IntPostProofs`, `HeapProofs`, `DeviceProofs` | theorems on the modules they are named after |
| `ServiceProofs` | theorems on the two services, `SoftTimer` and `Shell` |

### State and steps

`k.list` holds all lists of `_slot_nd` nodes (the ready queues under their
priority, the objects under their name), `k.ticks` the tick list. A list is a
sequence of tasks; its name doubles as its head node, because the round-robin
position may point to a head. `k.map` is the set of priorities the bitmap holds.
`k.fault` becomes TRUE when the code would corrupt memory: a node is linked that is in
a list already, or a list head or NULL is used as a control block. Nothing is modelled
after that. One field is history: `k.locker` is the task that locked the scheduler, which
the code does not record and `LockExcludes` is about.

One step of a task is one critical section. `todo[t]` is the rest of the call that
task `t` is in: `"sched"` is `__os_sched` up to its last line, `"ctxSw"` the
pending of the interrupt, `"delayRet"`, `"waitRet"` what a call does when it gets
the processor back, `"gone"` the end of the exit handler. A task executes a step
only when it is current, no kernel handler runs, and none is due (`Runs`):
interrupts are precise. The kernel's handlers are divided as well: `SysTick` (slice
and first node), `ExpireTask` for each task of the node, `ExpireNext`,
`ExpireLast`; `SwEnter`, one `Publish` per posted call, `SwLeave`. `MissTick` is a
SysTick inside a critical section. Posting interrupts (`IntPost` in `Semaphore` and
`MessageQueue`) come between any two steps.

`MessageQueue`: `msgs` is the list, `num` is `_num_msgs`, and `job[t]` the call of a
task that waits or has waited. A call that need not wait is one critical section.
What a call does after its wait is not in one: `WaitReturn`, `AccessList`,
`LoadCount`, `StoreCount` and `WakeNext` are steps of their own, so that another task
or a published post may come between the load and the store of `_num_msgs--`.

`Heap`: `list` is the list of blocks by address, `header` their headers. `mutex` is the owner
and `lock[c]` where task `c` is in `os_mutex_lock`: `os_mutex_unlock` clears the owner and
wakes a waiter, which takes the mutex in `LockReturn` whoever has it by then. So the
mutex alone lets two tasks in, and a call is divided at every store that another task,
or `memory_used` (the shell's `free`, which takes no mutex), can see: `Find` (the walk), `Take`,
`Shrink`, `Link`, `Return`; `Free`, `JoinBack` and `JoinForward` for each neighbour,
`ReturnNull` for the end. `Runs` is the scheduler: a task makes a step only when none of a
higher priority is ready. A heap with `guarded` FALSE is used through the functions that take
no mutex, `os_malloc`, `os_kmalloc`, `os_malloc_usr` and the like.

`Device`: `flag`, `openFlag` and `refCount` are the fields of a device, `driver` what its
driver has been told, `opens` (history) what each task has opened and not closed. The
calls of a driver are steps that may fail; so are the writes to the flags between them,
for nothing protects them.

`SoftTimer`: `now` is the true time. `ReadCounter` reads the counter of the current tick;
the number of ticks is read when the reading is used, a step later, and
`soft_timer_get_time` is the set of the times that the float may then give. `waited` (history)
is how long a timer has waited since its arming began.

`Shell`: `input` is the line being edited, `cache` the static copy whose address is
posted, `posts` the number of posts not yet published, `queue` the message queue,
`line` the line the task runs, `history` the list and `tail` the pointer by which
the arrow keys walk it: an index, 0 for the list's head, `Freed` for a node that is no
more. Each action of `Key` is one character for the interrupt routine; `Publish` copies `cache`
into the queue; the task's actions are `Receive`, `Exec`, `DropFirst`, `AddLast`. Strings are
sequences of characters, with the ends that splitting puts into them and takes
out again.

### Abstractions

- The time slice of every priority is `OS_TIMESLICE_STD`; nothing in the code calls
  `os_sched_timeslice_set`.
- `os_kmalloc` of a tick node, a message or a line succeeds (the code asserts it).
- Control blocks are static and used once.
- Unsigned counters are modulo `Wrap`, 8 in the runs and arbitrary in the proofs.
- At boot, the interrupt that `os_task_create` pends is taken after
  `os_board_start_interrupt` has returned.
- `IntPost` takes a call for its number: type, object and message are one.
  Handler steps are single accesses to what the interrupts share; the status test
  before the loop and the loop's own test are one.
- Calls that fail without changing anything (unlocking another's mutex, a NULL
  argument) are not steps.
- `os_sem_try_take` and `os_mutex_try_lock` are the first part of the call that
  waits; the critical sections nest, so that call's first section is one step.
- `__mutex_owner_change` writes the former owner's priority through a NULL pointer
  when there is no owner. On this board address 0 is flash; the write is taken
  to have no effect.
- The stores within one list operation of a queue's call that waited are one step. The rules
  for applications (below) keep everybody who would change the list out of it.
- The mutex of `Device` is a variable that holds its owner: by `Serial` only one task at a time
  is in a call that locks it, so who takes it after a wait does not matter.
- The lists of waiting tasks of the mutex of `Heap` are a set, any of which may be woken first. The
  priority that the mutex raises is left out: it moves no task to another ready queue
  (`os_mutex.c:28`), and `Runs` is about ready queues.
- The count of a semaphore stays below `MaxValue`. Its wrap-around at 2^16, where 65536 releases
  without a take lose all tokens, is not reached.
- A time of `SoftTimer`, milliseconds and microseconds in the code, is one number modulo
  `Wrap`. `soft_timer_get_time` converts, multiplies and adds in a `float`, with a mantissa of 24
  bits: four roundings, each by at most a part in 2^24. The model lets its result be any
  number within `Error(t)`, a part in `Precision` of the time `t`, on either side, and less by one for
  the cut to whole microseconds. With `Precision` 2^22 this bound is a microsecond after four
  seconds and a tick of a millisecond after 70 minutes.
- Nobody calls the functions of `SoftTimer` from the callback of a timer.
- The driver of a device, the UART and the user at the terminal are external: the driver
  succeeds or fails, the user types the lines he likes.

### How applications behave

Some services are only correct for applications that keep to some rule the code does
not state. A constant says whether the application keeps to it. The runs have the
rule. Without it TLC finds the properties violated, or, for the shell's history, a
behaviour that follows a link to a freed line, after which nothing is modelled; the list
of disagreements below says how.

- `Careless` of `Kernel`: an application that is not careless suspends only a task that does not
  wait, resumes only one that is suspended, and destroys a mutex only while no task waits for it
  with a limit.
- `Disciplines` of `MessageQueue`: with `"polls"` nobody waits for the queue; with
  `"ranked"` only the task of the highest priority of all does and interrupts do not post; a
  task, the *listener*, receives all messages and waits for them, while all others, of
  whatever priority, and interrupts send without waiting. `"free"` has no rule and is in no run.
  The shell is a listener: its task waits for lines without limit and an interrupt routine posts them.
  Sends and posts come at any moment, also after the listener was woken and
  between its steps outside the critical section, but for two windows (`Unguarded`): from the end of its
  wait to the end of `list_del`, and between the load and the store of `_num_msgs--`. The code has
  nothing to keep them away, a few instructions each; what is posted there is lost from the count.
- `Serial` of `Device`: tasks do not register, unregister, open or close at the same
  time, unregister only what is closed and use only what they have opened.
- `Priority` of `Heap` (`PriorityAssumption`): tasks that lock the heap's mutex have different
  priorities and neither delay nor suspend themselves before they unlock it. Then a task
  that locks the mutex again before a woken one has run is more urgent than that one, and has
  unlocked it by the time it runs. With two tasks of one priority, as in `mutex_owners`, both walk the
  heap, and TLC finds `IsAllocator` violated: they are given the same block. A heap without the mutex
  is used by one task at a time, as the comments at the functions ask ("Non-thread-safe").
- `Patient` of `Shell`: the user enters a line only when the last one has been published
  and the queue has room. He presses arrows also while lines are on their way, but not between a
  command's run and its place in the history (`BetweenCommands`), and, unless the arrow recalls a line,
  only when the line is empty.

## Runs

| run | checks | bounds |
|---|---|---|
| `kernel_time` | `NoTaskLost`, `ReadyMapAccurate`, `HighestPriorityRuns`, `SwitchToReady` | 3 tasks and idle, 2 priorities, delays of 1 and 2 |
| `kernel_live` | `RoundRobinPosition`, `NoFault`, `DelayEnds`, `RoundRobin` | 2 tasks that delay, yield, suspend, resume, cut waits short and end |
| `sched_lock` | `TypeOK`, `LockExcludes` | 2 tasks, locked 2 deep, that suspend and resume anything and end under the lock |
| `sem` | `NoIdleToken`, `IsCountingSemaphore`, `PostsPublished`, `LimitedWaitEnds`, `NeverTimesOut` | 2 tasks, 2 priorities, 1 posted release at a time, 1 token, tasks of one priority rotated at every tick |
| `mutex` | `OwnerHolds`, `NoWaiterForgotten`, `PriorityRestored` | 3 tasks, at most 2 of each of 2 priorities, created at any time, locked 2 deep, waits of 1 tick and without limit, yields, destroyed at any time but while a task waits with a limit |
| `int_post` | `TypeOK`, `NoneForgotten`, `PublishesInOrder`, `AllPublished` | ring of 4, 3 interrupt levels, 10 calls |
| `mqueue` | `MqTypeOK`, `NoLostWakeup`, `NoFault`, `IsBoundedQueue` | 2 tasks, 2 priorities, 2 messages, room for 2, 1 posted message at a time, waits of 1 tick and without limit; polled, ranked, either task the listener |
| `heap` | `BlocksTile`, `UsageCovers`, `IsAllocator` | 3 tasks of different priorities, 12 bytes or, of 15 that an application provided, 14, headers and alignment of 2, requests of 1, 3 and 2 times 2 bytes |
| `device` | `RefCountsOpens`, `UsableWhileOpen`, `DriverOpenWhenUsed`, `NamesUnique` | 2 tasks, the UART and another device, 2 names, 2 opens per task |
| `soft_timer` | `OneShotOnce`, `FiresNotEarly`, `TimersFire` | 1 timer, ticks of 2, periods of 1 and 5, times modulo 43, 86 until the number of ticks wraps around, an error of a part in 24 of the time, polled within 5 |
| `shell` | `RunsWhatWasEntered`, `HistoryKept`, `ArrowsFindLines` | 6 lines, at most 6 characters and 2 words, a history of 2, a queue of 1 |
| `mutex_owners` | `MutualExclusion`, violated | 2 tasks of one priority |

`kernel_live` has a client that looks before it suspends or resumes, `mutex` one that looks
before it destroys (`Careless = FALSE`); that of `sched_lock` does not. `CHECK_DEADLOCK FALSE` stands
where the system really may stop: in `sched_lock`, where a task that ran off its end
ends the model, and in the run of `IntPost`, where the bound on posted calls does.

Two tasks suffice for the races of two actors; the third task of
`kernel_time` lets a queue have a middle. Delays of 1 and 2 give tick lists with
nodes to join, to split and to append. Two priorities over the idle task's give a
queue that empties while a lower one does not. A ring of 4 wraps around twice with
10 calls. In `mutex` a task of high priority must appear after one of low priority has locked
the mutex, hence `"create"` among the calls: without it the tasks start in the order of their
priorities and nothing is ever raised. The constraint `MCBounds` leaves out three tasks of one priority,
which only take turns. The application destroys the mutex only while no task waits for it with a
limit (`Destroyable`), for otherwise `NoWaiterForgotten` does not hold (see below). A queue of 2 can be neither full nor empty, and has an
order. In `heap` three tasks
let one wait, one be woken and one lock the mutex in between. The requests leave remainders that are divided, remainders of exactly a header that are not,
and holes with a free block on either side. The periods of `soft_timer` lie below and above
a tick, the clock takes every value and wraps around, and the float's error reaches more than a tick before
the number of ticks begins anew; timers share nothing, so one is enough. The lines of `shell` are commands, one with a blank before it, one
with an argument, one that is no command and one with as many words as `ArgMax`, which the
code refuses; a history of 2 overflows, and the command that clears it is among them.

`MessageQueue!IsBoundedQueue`, `Heap!IsAllocator`, `Semaphore!IsCountingSemaphore` and
`IntPost!PublishesInOrder` are refinements: the abstract specification is
instantiated with a mapping and checked as a property. `Allocator` turns a request down
only when no gap is large enough, which is how it is said that freed blocks are joined
with all their free neighbours. The type invariants of `Semaphore`, `Mutex`, `Heap`,
`Device`, `SoftTimer` and `Shell` are stated in the modules and hold in these instances; the
runs check what says more.

### Disagreements between the code and its texts

`mutex_owners` is the one with a run: a woken task takes the mutex without looking
whether somebody else locked it first (`os_mutex.c:160`).

The following were seen with TLC in instances that are not kept as runs. Those after the first, up to
the take with `OS_SEM_NO_WAIT`, contradict a text of the repository and are findings in `PROJECT.json`.

- A task that waited with a limit for a mutex that was destroyed stays on the tick list; when
  the time is up it is marked as timed out though it waits for nothing, and its next wait without
  limit ends at once with the mutex nobody's and others waiting for it (`os_mutex.c:231`):
  `NoWaiterForgotten` with `Careless = TRUE` and three priorities in `MCMutex.cfg`.
- Waiting tasks are not lined up by priority: the insertion is one node off (`os_block.c:35`).
- A wait without limit "times out" after an earlier delay left TIMEOUT behind, and the
  token is lost (`os_tick.c:223`): `NeverTimesOut` with `"delay"` among the calls of `MCSem.cfg`.
- Two early returns leave the software interrupt masked for good (`os_block.c:183`, `196`).
- A full ring of posted calls is taken for an empty one (`os_int_post.c:53`): `MaxOutstanding`
  equal to `Capacity` in `MCIntPost.cfg`.
- A take of a semaphore with `OS_SEM_NO_WAIT` waits for 2^32 ticks (`os_tick.c:164`).
- A queue whose listener is interrupted by a post between the load and the store of `_num_msgs--`, or
  with two tasks that wait: the count loses the `++` of the published post (`os_mqueue.c:174`), after which a
  receiver waits although a message is there; of two waiting tasks one takes a message from an empty
  list: `Disciplines = {"free"}`.
- Two tasks of one priority allocate: one unlocks the heap's mutex and locks it again before the woken one
  runs, and both are given the same block (`os_mutex.c:160`): `IsAllocator` without `PriorityAssumption`.
- Two tasks that register one name at once both find it free (`os_device.c:77`); an open that
  overlaps the last close ends with an open device whose driver is closed (`os_device.c:163`); a
  driver whose close failed is not told again: `Serial = FALSE`.
- A device that was registered as "xz" and unregistered is registered again as "y", and there are two of the name
  "yz": `os_kobject_init` writes a name over the one before without its end (`os_device.c:34`), so the
  name that was looked for is not the name the device has: `NamesUnique` with three devices and `Names` of
  different lengths, one call at a time.
- A second carriage return before the first is published replaces the line
  (`os_service.c:654`); an arrow that empties the line leaves its characters behind for the
  next one; the arrow keys follow a link to a node that was freed a moment ago
  (`os_service.c:554`): `Patient = FALSE`.

Read off the code while modelling, and part of the model where it reaches that far: the scheduler lock
nests 201 deep where a comment says 200 (`os_sched.c:208`); the software interrupt's
copy of the scheduler has a `_lock_tcb` of its own that nobody may have set
(`os_sched.c:356`); a raised priority is written without moving the task to another
ready queue (`os_mutex.c:28`); a raise is compared with the priority before any raise
(`os_mutex.c:138`); a destroyed mutex leaves its waiters on the tick list
(`os_mutex.c:231`). The eighth word of a line is refused though there is room for eight
(`os_service.c:488`); a line has no limit of its length (`668`); a line that was not a command is never freed
(`583`).
Unregistering leaves a device marked as initialised; its reference count wraps at 256. A soft timer that an interrupt
stops during a poll may be set running again; a period above 2^31 microseconds fires at once; the
float loses microseconds after some seconds and ticks after hours, so that timers fire early
by more than a tick (`os_soft_timer.c:118`; `FiresNotEarly` has the bound). The kernel's usage is subtracted from the size of
the other heap (`os_malloc.c:338`); sizes near 2^32 wrap around (`98`). The hazards in
`PROJECT.json` say which property covers what.

### Fairness

`FairSpec` assumes that SysTick keeps coming outside critical sections, that a
kernel handler that is entered goes on, that a pending software interrupt that
stays enabled is taken, and that the processor goes on executing a call. The
hardware does this; what the application calls, and when, is left open. Weak
fairness is written `[]<>~E \/ []<><<A>>_vars` with `E` the enabling
condition, which TLC evaluates much faster than ENABLED. `SemFairness` has
interrupts that may preempt at any time; they latch pending bits and eventually leave time, so
SysTick, the software interrupt and the current task are strongly fair there.
`SoftTimer!FairSpec` assumes that time passes and calls go on, and that the
application polls again and again, which is what the timers ask of it: `CallUpdate` is
strongly fair, since other calls may come first. `Slack` bounds how late a poll
may be; a timer overdue by half the range of the clock would look early.

## Proofs

TLAPS proves, for every value of the constants that satisfies the assumptions:

- `KernelProofs!TypeCorrect`: `Spec => []TypeOK`. `TypeInv` adds to `TypeOK` that
  the first tick node exists while a poll is part way through, which `ExpireTask`
  needs. It rests on one typing lemma per operator of `KernelOps`.
- `KernelProofs!LockIsExclusive` (`LockExcludes`), whatever the application calls. The lock is kept
  by two copies of the scheduler that know the holder each for itself. The inductive invariant
  `LockInv` says what the interrupt finds: the holder or the idle task is current and chosen
  (`HolderInv`), and the copy that will schedule next knows the holder, or finds one that does not
  delay itself (`IdleInv`, `OwnInv`). `BootInv` and `TodoInv` are about the start and about the
  rest of a call.
- Also in `KernelProofs`, of an application that suspends and resumes only what it may (`~ Careless`;
  the runs of `Careless` applications corrupt a list). `TasksAreFound` (`NoTaskLost`), `MapIsAccurate`
  (`ReadyMapAccurate`) and `PositionIsValid` (`RoundRobinPosition`) come from `SafeInv`: no list has a task
  twice, a ready queue has only tasks of its priority that are not blocked, who is in an object's list is
  blocked, idle is never blocked and in the lowest queue once the system runs, the bitmap is exact, the round-robin
  position is a node of its queue (`Lists`, `HighStart`), and every live task can be found (`Findable`);
  under the lock the holder is the one exception (`HolderWaits`). `SwitchesGoToReady` (`SwitchToReady`, an
  action property) and `HighestRuns` (`HighestPriorityRuns`) come from `ChoiceInv`: whoever a
  switch is on its way to is ready and of the highest priority (`SwitchInv`), and so is the current task
  when no switch is (`CurInv`). `HighestRuns` is about applications without `os_wakeup_tick_task`,
  which makes a task ready and does not schedule. `MemoryIsSound` (`NoFault`) adds `GoneInv`: a
  task that has ended is in no list, and a switch away from it comes before it runs off its end. It does not hold
  of an application that ends a task with the scheduler locked, hence not both `"lock"` and `"exit"`.
- `SemaphoreProofs!TokensAreUsed` (`NoIdleToken`), whatever the application does.
  `SemaphoreCounts` (`IsCountingSemaphore`) shows that every step maps to one of `CountingSemaphore` or
  to a stutter: of the kernel's steps only those move a status that end a task's wait by time or let it
  give up (`OneTask`: `Kept`, `Aside`, `GivesUp`), a take that waits maps to `Begins`, a release and
  a published release to `Frees` or, with a waiting task, `Woken`. It needs to know where a
  task is that waits (`SemInv`): `WaitInv` says that who is in the semaphore's list is in a
  take, has not timed out, and is on the tick list if its wait has a limit; `ReadyInv`
  that the task that executes and the one that is going to are ready.
  `WaitsForToken` (`NeverTimesOut`) uses the same invariant. Both are about an application that keeps
  `SemClient`: nobody suspends or resumes carelessly or calls `os_wakeup_tick_task`, which cut a
  wait short; nobody locks the scheduler, since a task that waits under the lock and is woken by an
  interrupt stays marked as ticking and is never chosen again; and who waits without limit does
  not delay himself, because a delay leaves TIMEOUT behind. The instance of the run `sem` is one.
- `MessageQueueProofs!WakeupsArrive` (`NoLostWakeup`), `QueueMemoryIsSound` (`NoFault`) and
  `ImplementsBoundedQueue` (`IsBoundedQueue`), and `QueueTypes` (`MqTypeOK`) for the types, of an
  application that keeps `MqClient`: it polls the queue, lets the task of the highest priority wait and
  posts nothing, or has a listener (`MayWait`, `MayTake`, `MayPut` and `MayPost` without `"free"`);
  it suspends and resumes only what it may, no task comes or goes, nobody cuts a wait short or
  locks the scheduler. The instance of the run is one.
  The invariant `MqInv` adds to that of the kernel: which task is in a call that waits follows from what is
  left of its call (`CallInv`), and who that is from the discipline (`RankInv`). It waits only for what is
  not possible, and what it was woken for is still possible when it gets there (`ProgressInv`); while it is between
  list and count these differ by one (`CountInv`). The two disciplines need different reasons. The
  ranked task has the highest priority and, unless it is in the queue's list, is ready, so that by `ChoiceInv` nobody else
  executes until it is done (`OthersWait`). Beside a listener others do: what they put in keeps
  what it was woken for (`PutProgress`), finds the count one too high, at the worst, and so puts in one
  message less than there is room for (`PutRoom`), and moves list and count alike (`PutCount`); nobody else
  takes any (`TakerFacts`); what is posted is published before any task goes on (`PostsInv`). A published
  post may wake a task of a higher priority than the one that is chosen, so `ChoiceInv` holds of the
  ranked discipline only, and `ReadyInv`, that who executes is ready, takes its place. `KernelKeeps` is the proof that a tick, a switch or a call of the kernel does
  not disturb this, `Moved` the part that the steps of the queue have in common. Of the calls of the wakeup in
  the loop of `os_mqueue_clear` the second and later ones find nobody (`WokenOnce`).
- `MutexProofs!OwnersHaveLocked` (`OwnerHolds`) and `PrioritiesReturn` (`PriorityRestored`),
  whatever the application calls, and also after a raised priority has corrupted a
  list. `MutexInv` relates the owner, its nesting and what it believes it holds (`OwnerInv`),
  and the priorities (`PrioInv`): all but the owner's are as given, and the owner's is to be had from
  `_owner_prio`. For that, no kernel function may change a priority, and nobody may create a
  task whose control block is in use (`Keeps...`, one lemma per function).
- `MutexProofs!NobodyForgotten` (`NoWaiterForgotten`) and `RaiseIsHarmless` (`NoFault`), of an application
  that keeps `MutexClient`. That a wake-up finds a waiter and puts it where it will run needs sound lists, and the kernel's own
  `SafeInv` fails as soon as a priority is raised, for the owner is then in a queue that is not the one of its
  priority (`os_mutex.c:28`). What holds is that the *shadow* is sound: `Shadow(k, given)` is the
  memory with every task at the priority it was given, and the owner is in the queue of that one. `ListsInv`
  says `Safe` of the shadow. The functions of the kernel that such an application reaches do the same to the
  memory and to its shadow (`Alike`, `Mirror`, one lemma per function): they move a task to or from
  the queue of its own priority, and a task that begins or ends a wait is not the owner, the only one whose
  priority differs; the choice of the next task and the round-robin position go by the queues alone. Only
  the end of the queue that a woken task is put at depends on the priority of the current task, which may be the owner,
  and either end is sound (`Placed`, `MadeReady`, `Woken`). `WaitersInv` says who
  waits: who is in the mutex's list is in a call that waits for it, is not the owner and has not timed
  out; nobody is blocked for another reason, and nobody else has timed out. The two and `MutexInv` are inductive together with
  `NoWaiterForgotten` (`WaitInv`); TLC has checked them on the instance of the run. The hypotheses are what
  the argument needs. A delay, a suspension or the end of the raised owner takes it out of a
  queue it is not in, and the lists are corrupted; a resumption without a suspension has no use;
  a task that waits with the scheduler locked is never chosen again; and a mutex destroyed
  while somebody waits with a limit is described above.
- `DeviceProofs!TypeCorrect`; `CountsAreRight` (`RefCountsOpens`), `OpenMeansUsable`
  (`UsableWhileOpen`) and `DriverIsOpen` (`DriverOpenWhenUsed`), of an application with `Serial`. An open and a close change the flags, the count and the driver in steps without
  the mutex. `CountInv` says where each has got to: nobody else is in such a call (`SerialInv`), what the
  call knows of its device (`PhaseInv`), and what count, flags and driver are for the opens that stand
  (`OpenInv`). `FewOpens` is assumed: the count is of 8 bits. Both hold of the instance of the run.
  `NamesStayUnique` (`NamesUnique`) is a small result: `Serial` keeps other registrations out between the look for
  the name and the end of the registration, and `SameLength` the names that get mixed up as described
  above, so that it says only that a name is added if it was free (`RegisterInv`).
- `HeapProofs!TasksExcluded`: no two tasks are past `os_mutex_lock` at a time. The mutex does not see to that,
  and the invariant `LockInv` says what does: the owner is whoever is past the lock, and a task that is so
  while another has been woken has a higher priority than that one. It is ready until it unlocks, so the
  woken task does not run before (`Runs`). With equal priorities the last part fails. For a heap without
  the mutex, `Begins` lets a call begin only when nobody else is in one.
- `HeapProofs!TilesTheHeap` (`BlocksTile`) and `ImplementsAllocator` (`IsAllocator`), and `TypeCorrect` for the types. In
  `HeapInv`, the blocks of the list are in order of address (`OrderInv`) and lie side by side (`TileInv`,
  where a block that was shrunk is followed by its rest until that is linked); a used block belongs
  to one task or is about to (`HeldInv`); no two neighbours are free but for the block that is being freed
  (`GapInv`); and `Phases` says what the task past the lock knows of the block it works on. By
  `TasksExcluded` there is only one, so each step is shown to keep the invariant as that task sees it. For the
  refinement, a step that returns memory is `Grant`, one that gives up `Refuse`, a `Free` is `Release`, the
  others stutter. That a refusal is right rests on `GapInv`: a gap between the blocks of tasks that has room
  lies within a single free block, so the walk would have found it (`RoomIsFound`).
  `HeapAssumption` says that the sign for "asks for nothing" is not a size.
- `HeapProofs!UsageIsCovered` (`UsageCovers`) follows from `HeapInv`. The sums are folds, and a fold over a set is
  a recursive function on its subsets. The library's theorems on induction take an operator, which the
  installed provers cannot instantiate, so that there is such a function (`SumExists`), that only one is
  (`SumUnique`), and that the sum grows by what is added (`SumMore`) are shown by looking at a
  smallest set for which it would fail. With them `UsageInside` walks along the list: after `i` blocks the
  count is at least what tasks have of these blocks and at most the bytes that were passed.
- `IntPostProofs!RingInvariant`: the invariant `RingInv`. It says which positions lie
  between the pull and the post position (the calls `published + 1 .. posted`, one
  each, modulo the capacity), that those not yet filled belong to nested
  routines, and that a filled one with the handler idle implies a pending
  interrupt or a routine that is about to pend it. It needs
  `MaxOutstanding < Capacity`; with as many calls as entries it fails.
- `TypeCorrect`, `PostsRemembered` (`NoneForgotten`) and `ImplementsFifo`
  (`PublishesInOrder`) follow from it.
- `ServiceProofs!TypeCorrect` and `OneShotFiresOnce` (`OneShotOnce`). The inductive
  invariant `OneShotInv` adds that a timer in one-shot mode that runs has not fired yet;
  the types rest on one lemma per kind of time that is stored.
- `ServiceProofs!NoTimerEarly` (`FiresNotEarly`, an action property). `EarlyInv` says of each timer that runs
  that what it has waited and what is left until it is due, `Left`, which is a distance on the
  clock and survives its wrap-around, make up its period but for the part of a tick by which the
  reading of the time was ahead and the float's error then, and of a call under way what it knows of the time it has
  read. The error is bounded by that of the latest time there has been since the arming (`Worst`).
- `ServiceProofs!ShellTypes`, `HistoryIsKept` (`HistoryKept`), `ArrowsAreSound` (`ArrowsFindLines`)
  and `RunsTheEntered` (`RunsWhatWasEntered`), of a `Patient` user. In `ShellInv` every line, from the
  buffer to the history, is `Clean`: its size is below that of the buffer, and behind its size the buffer is
  cleared. The lines entered are the one that runs, those in the queue and the one posted, in this order
  (`OrderInv`). The commands kept are the lines of the history once the line that is
  being added is in its place (`KeptInv`), and the pointer of the arrow keys may be to a node that is gone only until
  then (`TailInv`). So an arrow key finds the command beside the one it showed last, whatever has come and gone
  meanwhile; an arrow in the middle of that, which `Patient` excludes, may follow the pointer to the freed node. For a clean line, cutting it into words and putting the blanks back changes nothing
  (`RestoredIsSame`), and the strings that the cutting leaves are the words of the text on the screen
  (`RunsTheText`): each of them ends where its word does (`StringIsWord`, `OneEnd`), and both are taken in the order
  of their places (`InOrder`, which has a member of every rank: `InOrderFacts`). A user who is not
  patient gets lines with the remains of others, and pointers to freed nodes.

Assumptions are `KernelAssumption`, `ClientAssumption`, `SemAssumption`,
`MutexAssumption`, `PostAssumption`, `MqAssumption`, `HeapAssumption`, `DeviceAssumption`,
`TimerAssumption` and `ShellAssumption`, which TLC evaluates in the runs.
Two corrections came from proofs. `SysTick` of the model pended a switch only if the slice
was still used up after `__os_sched`, which may reload it (`os_sched.c:300`); `CurInv` failed
there. And looking for the inductive invariant of `NoWaiterForgotten` led to the behaviour after the
destruction of a mutex described above.

Every invariant and every other safety property of the passing runs is a theorem. Model-checked only are the
liveness properties under fairness (`DelayEnds`, `RoundRobin`, `PostsPublished`, `LimitedWaitEnds`, `AllPublished`,
`TimersFire`), which are out of the prover's reach. The prover cannot expand the library's sort either, for
which `Shell` has the operator `InOrder` instead.

## Not modelled

- `printk` and the conversion of numbers (text output; no state others read), the
  echo of the shell, the input handlers that single commands install, the
  commands themselves but for the one that clears the history.
- The id table of `os_core.c`: only the listing of tasks reads it. Stack set-up and frames.
- The bits of the priority bitmap: `KernelOps` has the set they stand for.
- `os_sched_timeslice_set`, `sys_tick_get_us`: nothing in the code calls them.
- `os_diable_sched` and `os_enable_sched`, which `os_printk` calls around the formatting of its text: a critical
  section, which the model has, and a call of `__os_sched` at its end.
- Two callers at once in a heap without the mutex, which corrupt it: the kernel's heap is used by tasks and
  handlers like that (`os_malloc.c:100`). Soft-timer calls from a callback, and the wrap-around of a
  semaphore's count.
- UART set-up and transmission, registers, the HPM6750 and ARM ports (the same interface
  on other hardware), string and floating-point helpers (no state).

## Plan

What is still to do: `Bitmap` (`os_sched.c:69`, the priority search with its lookup table), a pure
algorithm checked against its definition on small inputs.
