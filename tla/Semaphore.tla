------------------------------- MODULE Semaphore -------------------------------
(***************************************************************************)
(* os_semaphore.c on the kernel, with interrupts of any priority that post *)
(* releases for the software interrupt to publish.  The posted calls are   *)
(* all alike here, so they are counted; module IntPost has the ring that   *)
(* keeps them and their order.                                             *)
(***************************************************************************)
EXTENDS Kernel

CONSTANTS Sem,       \* the semaphore's blocking object
          InitValue, \* the argument of os_sem_init
          TimeOuts,  \* the limits of os_sem_take
          MaxValue,  \* bound on the tokens outside of tasks
          MaxPosts   \* bound on the calls waiting to be published

VARIABLES value,     \* sem->_value
          posts      \* calls posted and not yet published
semVars == <<value, posts>>
allVars == <<vars, semVars>>

ASSUME SemAssumption ==
  /\ Sem \in Object \ {SysBlock}
  /\ InitValue \in Nat /\ MaxValue \in Nat /\ MaxPosts \in Nat
  /\ TimeOuts \subseteq Count \cup {Never}

SemTypeOK == TypeOK /\ value \in 0..MaxValue /\ posts \in 0..MaxPosts

os_sem_init == value = InitValue /\ posts = 0

SemInit == Init /\ os_sem_init

-----------------------------------------------------------------------------
os_sem_try_take == value > 0

os_sem_take(t) ==
  /\ Invokes(t, "take")
  /\ \/ os_sem_try_take /\ value' = value - 1 /\ UNCHANGED vars
     \/ /\ ~ os_sem_try_take /\ UNCHANGED <<value, alive>>
        /\ \E n \in TimeOuts :
             Then(t, os_add_tick_task(k, t, n, Sem), <<"sched", "waitRet">>)
  /\ UNCHANGED posts

\* Mutant: a timeout stays in the control block.
ForgetNot(k0, t) == k0

\* The block state is cleared when a wait has ended.
Forget(k0, t) == [k0 EXCEPT !.bstate[t] = "NONE"]

\* The loop that waits for the switch, and the result: FAIL for TIMEOUT.
TakeReturn(t) ==
  /\ Continues(t, "waitRet")
  /\ k.state[t] # "BLOCKING"
  /\ Then(t, Forget(k, t), Tail(todo[t]))
  /\ UNCHANGED <<alive, semVars>>

\* Mutants: a waiting task is woken and the token is kept as well; a token is
\* kept while a task waits.
ReleaseTwice(k0, v) == <<os_block_wakeup_first_task(k0, Sem), v + 1>>
ReleaseKeeps(k0, v) == <<k0, v + 1>>

\* The effect both release functions have on the kernel and the value.
Release(k0, v) ==
  IF k0.list[Sem] = <<>> THEN <<k0, v + 1>>
  ELSE <<os_block_wakeup_first_task(k0, Sem), v>>

os_sem_release(t) ==
  /\ Invokes(t, "release") /\ value + posts < MaxValue
  /\ LET r == Release(k, value) IN Then(t, r[1], <<"sched">>) /\ value' = r[2]
  /\ UNCHANGED <<alive, posts>>

\* Mutant: the call is written to the ring and the interrupt is not pended.
IntPostSilent ==
  /\ running /\ "post" \in Calls /\ ~ k.fault
  /\ posts < MaxPosts /\ value + posts < MaxValue
  /\ posts' = posts + 1
  /\ UNCHANGED <<vars, value>>

\* os_int_post in an interrupt service routine: at any moment, in kernel
\* handlers and critical sections as well.
IntPost ==
  /\ running /\ "post" \in Calls /\ ~ k.fault
  /\ posts < MaxPosts /\ value + posts < MaxValue
  /\ posts' = posts + 1 /\ swPending' = TRUE
  /\ UNCHANGED <<k, running, todo, alive, swEnabled, irq, value>>

\* One round of the loop in __os_int_post_handle_called_by_sw.
Publish ==
  /\ irq = "sw" /\ posts > 0 /\ ~ k.fault
  /\ LET r == Release(k, value) IN k' = r[1] /\ value' = r[2]
  /\ posts' = posts - 1
  /\ UNCHANGED <<running, todo, alive, swEnabled, swPending, irq>>

SemNext ==
  \/ (Boot \/ TickHandler \/ MissTick \/ SwEnter) /\ UNCHANGED semVars
  \/ posts = 0 /\ SwLeave /\ UNCHANGED semVars
  \/ \E t \in Task : (Call(t) \/ TaskStep(t)) /\ UNCHANGED semVars
  \/ \E t \in Task : os_sem_take(t) \/ TakeReturn(t) \/ os_sem_release(t)
  \/ IntPost \/ Publish

SemSpec == SemInit /\ [][SemNext]_allVars

\* Interrupts that post may come at any rate, but they leave time: a pending
\* SysTick or software interrupt and the current task get their turn again and
\* again.  The disjunctions are weak and strong fairness with ENABLED written out.
TakeSpins(t) == Head(todo[t]) = "waitRet" /\ k.state[t] = "BLOCKING"

SemFairness ==
  /\ WF_vars(Boot)
  /\ <>[]~ TickChanges \/ []<><<SysTick>>_vars
  /\ []<>~ ExpiryDue   \/ []<><<ExpireTask \/ ExpireNext \/ ExpireLast>>_vars
  /\ <>[]~ SwitchDue   \/ []<><<SwEnter>>_vars
  /\ []<>(irq # "sw" \/ k.fault) \/ []<><<SwLeave \/ Publish>>_vars
  /\ \A t \in UserTask : \/ <>[]~ (StepDue(t) /\ ~ TakeSpins(t))
                         \/ []<><<TaskStep(t) \/ TakeReturn(t)>>_vars

SemFairSpec == SemSpec /\ SemFairness

-----------------------------------------------------------------------------
(* What the semaphore owes its users.                                      *)

\* Where a task is in its call, read off the kernel's data.
Status(t) ==
  IF t \in ToSet(k.list[Sem])
    THEN IF TickLinked(k, t) THEN "waitsAWhile" ELSE "waitsForever"
  ELSE IF \E i \in DOMAIN todo[t] : todo[t][i] = "waitRet"
    THEN IF k.bstate[t] = "TIMEOUT" THEN "gaveUp" ELSE "granted"
  ELSE "out"

\* The semaphore is a counting semaphore: no token is lost or made up by a
\* release, a timeout and a posted release that meet in any order.
Counting == INSTANCE CountingSemaphore
              WITH avail <- value, status <- [t \in Task |-> Status(t)]
IsCountingSemaphore == Counting!Spec

\* A token is never kept while a task waits for one.
NoIdleToken == value > 0 => k.list[Sem] = <<>>

\* Every posted call is published in the software interrupt.
PostsPublished == (posts > 0) ~> (posts = 0)

\* A wait with a limit ends.
LimitedWaitEnds ==
  \A t \in Task : (Status(t) = "waitsAWhile") ~> (Status(t) # "waitsAWhile")

\* A wait without a limit, OS_NEVER_TIME_OUT, ends with a token: what earlier waits
\* for the semaphore left in the task's control block is not taken for a timeout.
\* (What a delay leaves there is, os_tick.c:223.)
NeverTimesOut ==
  [][\A t \in Task : Status(t) = "waitsForever" => Status(t)' # "gaveUp"]_allVars
=============================================================================
