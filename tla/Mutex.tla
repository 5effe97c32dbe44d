---------------------------------- MODULE Mutex ----------------------------------
(***************************************************************************)
(* os_mutex.c on the kernel.  What a task believes it holds is a history   *)
(* variable: the number of calls of os_mutex_lock that returned SUCCESS    *)
(* without a call of os_mutex_unlock that did.  Nobody holds a mutex that  *)
(* has just been destroyed.                                                *)
(***************************************************************************)
EXTENDS Kernel

CONSTANTS Mutex,        \* the mutex's blocking object
          Recursive,    \* it is of type OS_MUTEX_RECURSIVE
          MaxRecursive, \* OS_MUTEX_MAX_RECURSIVE
          LockTimeOuts, \* the limits of os_mutex_lock
          MaxHold       \* bound: calls of lock without a call of unlock

VARIABLES owner,     \* _mutex_owner
          ownerPrio, \* _owner_prio
          nesting,   \* _lock_nesting
          holds,     \* history: how often each task has locked the mutex
          given      \* history: the priority os_task_create gave each task
mutexVars == <<owner, ownerPrio, nesting, holds, given>>
allVars == <<vars, mutexVars>>

ASSUME MutexAssumption ==
  /\ Mutex \in Object \ {SysBlock} /\ Recursive \in BOOLEAN
  /\ MaxRecursive \in Nat \ {0} /\ MaxHold \in Nat
  /\ LockTimeOuts \subseteq Count \cup {Never}

MutexTypeOK ==
  /\ TypeOK
  /\ owner \in Task \cup {NULL} /\ ownerPrio \in Prio
  /\ nesting \in 0..MaxRecursive
  /\ holds \in [Task -> Nat] /\ given \in [Task -> Prio]

os_mutex_init == owner = NULL /\ ownerPrio = MaxPrio /\ nesting = 0

MutexInit ==
  /\ Init /\ os_mutex_init
  /\ holds = [t \in Task |-> 0] /\ given = [t \in Task |-> MaxPrio]

-----------------------------------------------------------------------------
Waits == k.list[Mutex] # <<>>

\* Mutant: the raised priority stays with the former owner.
RestoredNever(k0) == k0

\* The priority of the owner is what it was before the mutex raised it.  With no
\* owner the code writes through NULL, to flash, which changes nothing.
Restored(k0) == IF owner = NULL THEN k0 ELSE [k0 EXCEPT !.prio[owner] = ownerPrio]

\* __mutex_owner_change.  Changes k as well.
OwnerChange(k0, t) ==
  /\ k' = Restored(k0)
  /\ owner' = t /\ ownerPrio' = k'.prio[t] /\ nesting' = 1

Locked(t) == holds' = [holds EXCEPT ![t] = @ + 1]

\* os_mutex_lock, of which os_mutex_try_lock is the first part; both are one
\* critical section.
LockFree(t) ==
  /\ owner = NULL
  /\ OwnerChange(k, t) /\ Locked(t)
  /\ UNCHANGED <<running, todo, swEnabled, swPending, irq>>

LockAgain(t) ==
  /\ owner = t
  /\ IF ~ Recursive THEN Locked(t) /\ UNCHANGED nesting
     ELSE IF nesting < MaxRecursive THEN Locked(t) /\ nesting' = nesting + 1
     ELSE UNCHANGED <<holds, nesting>>
  /\ UNCHANGED <<k, running, todo, swEnabled, swPending, irq, owner, ownerPrio>>

\* __mutex_owner_prio_up: no more than the field is written.
RaiseOwner(k0, t) ==
  IF ownerPrio > k0.prio[t] THEN [k0 EXCEPT !.prio[owner] = k0.prio[t]] ELSE k0

LockTaken(t) ==
  /\ owner \notin {NULL, t}
  /\ \E n \in LockTimeOuts :
       Then(t, os_add_tick_task(RaiseOwner(k, t), t, n, Mutex), <<"sched", "waitRet">>)
  /\ UNCHANGED <<owner, ownerPrio, nesting, holds>>

os_mutex_lock(t) ==
  /\ Invokes(t, "mutexLock") /\ holds[t] < MaxHold
  /\ LockFree(t) \/ LockAgain(t) \/ LockTaken(t)
  /\ UNCHANGED <<alive, given>>

\* The loop that waits for the switch; then the task takes the mutex, unless its
\* time is up.
LockReturn(t) ==
  /\ Continues(t, "waitRet") /\ k.state[t] # "BLOCKING"
  /\ LET k1 == [k EXCEPT !.bstate[t] = "NONE"]
     IN IF k.bstate[t] = "TIMEOUT"
          THEN k' = k1 /\ UNCHANGED <<owner, ownerPrio, nesting, holds>>
          ELSE OwnerChange(k1, t) /\ Locked(t)
  /\ todo' = [todo EXCEPT ![t] = Tail(@)]
  /\ UNCHANGED <<running, alive, swEnabled, swPending, irq, given>>

\* Mutant: the mutex is let go and no waiting task is woken.
ReleaseSilent(t) ==
  /\ owner' = NULL /\ UNCHANGED <<ownerPrio, nesting>>
  /\ Then(t, Restored(k), <<>>)

\* The end of os_mutex_unlock, when the owner lets go of the mutex.
ReleaseOwner(t) ==
  /\ owner' = NULL /\ UNCHANGED ownerPrio
  /\ nesting' = IF Recursive THEN nesting - 1 ELSE nesting
  /\ IF Waits THEN Then(t, os_block_wakeup_first_task(Restored(k), Mutex), <<"sched">>)
              ELSE Then(t, Restored(k), <<>>)

\* Mutant: the outermost unlock counts as a nested one.
StillNestedOffByOne == Recursive /\ nesting > 0

StillNested == Recursive /\ nesting > 1

os_mutex_unlock(t) ==
  /\ Invokes(t, "mutexUnlock")
  /\ owner = t
  /\ IF StillNested
       THEN nesting' = nesting - 1 /\ UNCHANGED <<vars, owner, ownerPrio>>
       ELSE ReleaseOwner(t)
  /\ holds' = [holds EXCEPT ![t] = @ - 1]
  /\ UNCHANGED <<alive, given>>

\* When a client that looks would destroy it: nobody waits with a limit.
Destroyable == Careless \/ \A u \in ToSet(k.list[Mutex]) : ~ TickLinked(k, u)

\* The tasks that wait are woken and stay on the tick list.
os_mutex_destory(t) ==
  /\ Invokes(t, "destroy") /\ Destroyable
  /\ owner' = NULL
  /\ Then(t, [os_block_wakeup_all_task(Restored(k), Mutex) EXCEPT !.list[Mutex] = <<>>],
          <<"sched">>)
  /\ holds' = [u \in Task |-> 0]
  /\ UNCHANGED <<alive, ownerPrio, nesting, given>>

KernelStep ==
  /\ Next
  /\ given' = [t \in Task |-> IF t \in alive' \ alive THEN k'.prio[t] ELSE given[t]]
  /\ UNCHANGED <<owner, ownerPrio, nesting, holds>>

MutexNext ==
  \/ KernelStep
  \/ \E t \in Task : \/ os_mutex_lock(t) \/ LockReturn(t)
                     \/ os_mutex_unlock(t) \/ os_mutex_destory(t)

MutexSpec == MutexInit /\ [][MutexNext]_allVars

-----------------------------------------------------------------------------
(* What the mutex owes its users.                                          *)

\* A task that was woken and has yet to take the mutex.
OnItsWay(t) == /\ \E i \in DOMAIN todo[t] : todo[t][i] = "waitRet"
               /\ k.state[t] # "BLOCKING" /\ k.bstate[t] # "TIMEOUT"

\* No task waits for a mutex that nobody has or is about to take: unlocking,
\* relocking before the woken task runs, and timeouts lose no wake-up.
NoWaiterForgotten == Waits => owner # NULL \/ \E t \in Task : OnItsWay(t)

\* The owner is a task that has locked the mutex and may unlock it.
OwnerHolds == owner # NULL => holds[owner] > 0

\* A priority that the mutex raised is the given one again when the task is not
\* the owner any longer, by whatever way it ceased to be.
PriorityRestored ==
  \A t \in alive : t # owner => k.prio[t] = given[t]

\* Two tasks never hold the mutex at a time.
MutualExclusion == \A t, u \in Task : holds[t] > 0 /\ holds[u] > 0 => t = u
=============================================================================
