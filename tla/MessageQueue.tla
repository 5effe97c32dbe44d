------------------------------ MODULE MessageQueue ------------------------------
(***************************************************************************)
(* os_mqueue.c on the kernel, with interrupts that post messages.  A call  *)
(* that does not have to wait is one critical section.  A call that waited *)
(* left its critical section before the wait and does the rest without     *)
(* one: its access to the list, the load and the store of the count, and   *)
(* the wake-up are steps of their own, and others come in between as far   *)
(* as the application lets them.  The stores of one list operation are one *)
(* step; a rule that lets others in while a call is at "list" would have   *)
(* to take them apart.                                                     *)
(***************************************************************************)
EXTENDS Kernel

CONSTANTS Queue,       \* the queue's blocking object, _suspend
          Capacity,    \* _capacity
          Message,     \* what is sent
          TimeOuts,    \* the limits of send and receive, apart from NO_WAIT
          MaxPosts,    \* bound on the calls waiting to be published
          Disciplines  \* the ways of using the queue: a word, or the listener

VARIABLES msgs,        \* _msg_queue
          num,         \* _num_msgs
          job,         \* the call of each task that waits or has waited
          posts,       \* calls posted and not yet published
          discipline   \* how this application uses the queue
mqVars == <<msgs, num, job, posts>>
allVars == <<vars, mqVars, discipline>>

CountSize == 65536     \* _num_msgs is an unsigned short

ASSUME MqAssumption ==
  /\ Queue \in Object \ {SysBlock}
  /\ Capacity \in 1..(CountSize - 1) /\ MaxPosts \in Nat
  /\ TimeOuts \subseteq Count \cup {Never}
  /\ {"polls", "ranked", "free"} \cap Task = {}
  /\ Disciplines \subseteq {"polls", "ranked", "free"} \cup UserTask

NoJob == [op |-> "none"]
Job == [op : {"send"}, at : {"wait", "list", "load", "store", "wake"},
        msg : Message, count : 0..(CountSize - 1)]
       \cup [op : {"receive"}, at : {"wait", "list", "load", "store", "wake"},
             count : 0..(CountSize - 1)]
       \cup {NoJob}

MqTypeOK ==
  /\ TypeOK
  /\ msgs \in Seq(Message) /\ num \in 0..Capacity
  /\ job \in [Task -> Job]
  /\ posts \in Seq(Message) /\ Len(posts) <= MaxPosts
  /\ discipline \in Disciplines

os_mqueue_init == msgs = <<>> /\ num = 0

MqInit ==
  /\ Init /\ os_mqueue_init
  /\ job = [t \in Task |-> NoJob] /\ posts = <<>>
  /\ discipline \in Disciplines

\* How the queue is used: nobody waits for it; or only one task does, which has a
\* higher priority than all others, and interrupts do not post; or one task, the
\* listener, takes all the messages, and waits for them, and everybody else only
\* sends without waiting; or there is no such rule.
MayWait(t, op) ==
  \/ discipline = "free"
  \/ discipline = "ranked" /\ \A u \in alive \ {t} : k.prio[t] < k.prio[u]
  \/ discipline = t /\ op = "receive"
MayTake(t) == discipline \in Task => discipline = t

\* What is sent to a listener does not come between the end of its wait and the end of
\* list_del, or between the load and the store of its count.
Unguarded(t) == job[t] # NoJob /\ job[t].at \in {"list", "store"}
MayPut == discipline \in Task => ~ Unguarded(discipline)
MayPost == discipline # "ranked" /\ MayPut

-----------------------------------------------------------------------------
\* Mutant: the limits are off by one.
FullOffByOne == num > Capacity
EmptyNever == FALSE

Full == num >= Capacity
Empty == num = 0

\* Mutant: nobody is told of the change.
WakeNobody(k0) == k0

\* With both callbacks, which unlink the task from the tick list.
Wake(k0) == os_block_wakeup_first_task(k0, Queue)

\* The start of a wait.
WaitFor(t, j) ==
  /\ MayWait(t, j.op)
  /\ \E n \in TimeOuts :
       Then(t, os_add_tick_task(k, t, n, Queue), <<"sched", "waitRet">>)
  /\ job' = [job EXCEPT ![t] = j]
  /\ UNCHANGED <<msgs, num>>

\* With NO_WAIT, a send to a full queue and a receive from an empty one change
\* nothing.
os_mqueue_send(t) ==
  /\ Invokes(t, "mqSend")
  /\ \E m \in Message :
       \/ /\ ~ Full /\ MayPut
          /\ msgs' = Append(msgs, m) /\ num' = num + 1
          /\ Then(t, Wake(k), <<"sched">>)
          /\ UNCHANGED job
       \/ Full /\ WaitFor(t, [op |-> "send", at |-> "wait", msg |-> m, count |-> 0])
  /\ UNCHANGED <<alive, posts, discipline>>

\* The first message leaves the list; with none, the list's head is taken for one.
TakeFirst(k1) ==
  IF msgs = <<>> THEN k' = [k1 EXCEPT !.fault = TRUE] /\ UNCHANGED msgs
  ELSE k' = k1 /\ msgs' = Tail(msgs)

os_mqueue_receive(t) ==
  /\ Invokes(t, "mqReceive") /\ MayTake(t)
  /\ \/ /\ ~ Empty
        /\ TakeFirst(Wake(k)) /\ num' = num - 1
        /\ todo' = [todo EXCEPT ![t] = <<"sched">>]
        /\ UNCHANGED <<running, swEnabled, swPending, irq, job>>
     \/ Empty /\ WaitFor(t, [op |-> "receive", at |-> "wait", count |-> 0])
  /\ UNCHANGED <<alive, posts, discipline>>

\* One waiting task is woken for every message.
os_mqueue_clear(t) ==
  /\ Invokes(t, "mqClear") /\ MayTake(t) /\ ~ Empty
  /\ LET woken[i \in 0..num] == IF i = 0 THEN k ELSE Wake(woken[i - 1])
     IN Then(t, [woken[num] EXCEPT !.fault = @ \/ num > Len(msgs)], <<"sched">>)
  /\ msgs' = SubSeq(msgs, num + 1, Len(msgs)) /\ num' = 0
  /\ UNCHANGED <<alive, job, posts, discipline>>

-----------------------------------------------------------------------------
(* The rest of a call that waited.                                         *)

\* The task goes on with a call that is at the given place.
GoesOn(t, place) ==
  /\ Continues(t, "waitRet") /\ k.state[t] # "BLOCKING"
  /\ job[t] # NoJob /\ job[t].at = place
  /\ UNCHANGED <<running, alive, swEnabled, swPending, irq, posts, discipline>>

At(t, place) == job' = [job EXCEPT ![t].at = place]

\* The loop that waits for the switch, and the result.  Nobody looks whether the
\* queue has space, or a message, now.
WaitReturn(t) ==
  /\ GoesOn(t, "wait")
  /\ k' = [k EXCEPT !.bstate[t] = "NONE"]
  /\ IF k.bstate[t] = "TIMEOUT"
       THEN job' = [job EXCEPT ![t] = NoJob] /\ todo' = [todo EXCEPT ![t] = Tail(@)]
       ELSE At(t, "list") /\ UNCHANGED todo
  /\ UNCHANGED <<msgs, num>>

AccessList(t) ==
  /\ GoesOn(t, "list") /\ At(t, "load")
  /\ IF job[t].op = "send" THEN msgs' = Append(msgs, job[t].msg) /\ UNCHANGED k
                           ELSE TakeFirst(k)
  /\ UNCHANGED <<todo, num>>

LoadCount(t) ==
  /\ GoesOn(t, "load")
  /\ job' = [job EXCEPT ![t].at = "store", ![t].count = num]
  /\ UNCHANGED <<k, todo, msgs, num>>

StoreCount(t) ==
  /\ GoesOn(t, "store") /\ At(t, "wake")
  /\ num' = (job[t].count + IF job[t].op = "send" THEN 1 ELSE -1) % CountSize
  /\ UNCHANGED <<k, todo, msgs>>

WakeNext(t) ==
  /\ GoesOn(t, "wake")
  /\ k' = Wake(k)
  /\ job' = [job EXCEPT ![t] = NoJob]
  /\ todo' = [todo EXCEPT ![t] = <<"sched">>]
  /\ UNCHANGED <<msgs, num>>

Resumes(t) == WaitReturn(t) \/ AccessList(t) \/ LoadCount(t) \/ StoreCount(t) \/ WakeNext(t)

-----------------------------------------------------------------------------
(* Interrupts.                                                             *)

\* os_int_post in an interrupt service routine, at any moment.
IntPost ==
  /\ running /\ "post" \in Calls /\ MayPost /\ ~ k.fault
  /\ Len(posts) < MaxPosts
  /\ \E m \in Message : posts' = Append(posts, m)
  /\ swPending' = TRUE
  /\ UNCHANGED <<k, running, todo, alive, swEnabled, irq, msgs, num, job, discipline>>

\* Mutant: the limit is off by one.
RefusesOffByOne == num > Capacity

\* A posted message is dropped when the queue is full, and nobody learns of it.
Refuses == Full

\* One round of the loop in the software interrupt: __os_int_post_mqueue_send.
Publish ==
  /\ irq = "sw" /\ posts # <<>> /\ ~ k.fault
  /\ posts' = Tail(posts)
  /\ IF Refuses THEN UNCHANGED <<k, msgs, num>>
     ELSE /\ msgs' = Append(msgs, Head(posts)) /\ num' = num + 1
          /\ k' = Wake(k)
  /\ UNCHANGED <<running, todo, alive, swEnabled, swPending, irq, job, discipline>>

MqNext ==
  \/ (Boot \/ TickHandler \/ MissTick \/ SwEnter) /\ UNCHANGED <<mqVars, discipline>>
  \/ posts = <<>> /\ SwLeave /\ UNCHANGED <<mqVars, discipline>>
  \/ \E t \in Task : (Call(t) \/ TaskStep(t)) /\ UNCHANGED <<mqVars, discipline>>
  \/ \E t \in Task : \/ os_mqueue_send(t) \/ os_mqueue_receive(t)
                     \/ os_mqueue_clear(t) \/ Resumes(t)
  \/ IntPost \/ Publish

MqSpec == MqInit /\ [][MqNext]_allVars

-----------------------------------------------------------------------------
(* What the queue owes its users.                                          *)

\* A task waits for a message only while the list has none, and for space only while
\* the list is full: what ends a wait also wakes the task, and the count, by which the
\* calls decide, has not gone astray in the steps that follow a wait.
NoLostWakeup ==
  \A t \in ToSet(k.list[Queue]) :
    IF job[t].op = "receive" THEN msgs = <<>> ELSE Len(msgs) = Capacity

\* The list is a queue of at most Capacity messages: no message is lost, or put
\* in before another one that was sent earlier.
Bounded == INSTANCE BoundedQueue WITH contents <- msgs
IsBoundedQueue == Bounded!Spec
=============================================================================
