--------------------------------- MODULE Heap ---------------------------------
(***************************************************************************)
(* os_malloc.c: a heap as a list of blocks, each behind a header, shared   *)
(* by tasks.  A guarded heap is used by os_malloc_safe, os_calloc_safe and *)
(* os_free_safe, which lock a mutex.  That mutex does not keep them apart  *)
(* by itself: a task that was woken takes it whoever has it by then        *)
(* (module Mutex).  What does is that the tasks have different priorities, *)
(* so that nobody runs before a task that could.  All other functions take *)
(* no mutex, "Non-thread-safe": one task at a time calls them.  The        *)
(* command that reports the usage takes no mutex either and sees the list  *)
(* between any two steps.  The header's magic number, written with every   *)
(* header and never changed, is left out.  Numbers are bytes.              *)
(***************************************************************************)
EXTENDS Integers, FiniteSetsExt, SequencesExt

CONSTANTS Client,    \* the tasks
          Priority,  \* _task_priority of each: 0 is the most urgent
          Requests,  \* the arguments [nmemb, size] of os_calloc_safe, and with
                     \* nmemb 1 the argument of os_malloc_safe
          Lengths,   \* CONFIG_HEAP_SIZE, CONFIG_KERNEL_HEAP_SIZE
          Keeps,     \* the arguments _size of os_malloc_keep
          MinKeep,   \* OS_MALLOC_MIN_KEEP_SIZE
          Header,    \* sizeof(struct small_memory_header)
          ListHead,  \* sizeof(struct list_head)
          Align,     \* 4 in the code
          Wrap,      \* 2^32 in the code
          None

VARIABLES length,    \* of the heap
          guarded,   \* its users call the functions that take the mutex
          list,      \* the blocks' addresses, in the order of the list
          header,    \* the fields _size and _used of the headers
          mutex,     \* _mutex_owner of _usr_memery_op_mutex
          lock,      \* where each task is in os_mutex_lock
          op,        \* where each task is in its call
          held       \* the blocks each task has been given and not freed
heapVars == <<length, guarded, list, header, held>>
lockVars == <<mutex, lock>>
vars == <<heapVars, lockVars, op>>

Count == 0..(Wrap - 1)

\* Nobody asks for so much that the sum with two headers wraps around.
ASSUME HeapAssumption ==
  /\ Header \in Nat \ {0} /\ ListHead \in Nat /\ Align \in Nat \ {0}
  /\ MinKeep \in Nat /\ ListHead + Header <= MinKeep
  /\ Wrap \in Nat /\ Lengths \subseteq 1..(Wrap - 1) /\ Keeps \subseteq Count
  /\ \A r \in Requests : /\ r.nmemb \in Nat /\ r.size \in Nat
                         /\ r.nmemb * r.size + Align + 2 * Header < Wrap
  /\ None \notin Client \cup Nat
  /\ Priority \in [Client -> Nat]

\* With equal priorities two tasks can be in the heap: run mutex_owners of
\* module Mutex shows two tasks that hold a mutex.
ASSUME PriorityAssumption ==
  \A c, d \in Client : Priority[c] = Priority[d] => c = d

Idle == [at |-> "idle", need |-> 0, block |-> 0]
Places == {"idle", "find", "take", "shrink", "link", "taken",
           "free", "back", "forward", "done"}
LockPlaces == {"none", "begins", "waits", "woken"}

TypeOK ==
  /\ length \in Count /\ guarded \in BOOLEAN
  /\ list \in Seq(0..(length - 1))
  /\ header \in [0..(length - 1) -> [size : Count, used : BOOLEAN]]
  /\ mutex \in Client \cup {None} /\ lock \in [Client -> LockPlaces]
  /\ op \in [Client -> [at : Places, need : Count, block : 0..(length - 1)]]
  /\ held \in [Client -> SUBSET (0..(length - 1))]

-----------------------------------------------------------------------------
\* os_memory_init, for tasks that use the thread-safe functions or os_malloc,
\* os_calloc and os_free, or those of the kernel's heap, which are alike.
os_memory_init == length \in Lengths /\ guarded \in BOOLEAN

\* Memory that an application provides and that is not too small: the list's head
\* takes the first bytes of it.  os_malloc_usr and os_free_usr take no mutex.
os_malloc_keep ==
  guarded = FALSE /\ \E n \in Keeps : n >= MinKeep /\ length = n - ListHead

Init ==
  /\ os_memory_init \/ os_malloc_keep
  /\ list = <<0>>
  /\ header = [a \in 0..(length - 1) |->
                 [size |-> IF a = 0 THEN length ELSE 0, used |-> FALSE]]
  /\ mutex = None /\ lock = [c \in Client |-> "none"]
  /\ op = [c \in Client |-> Idle] /\ held = [c \in Client |-> {}]

GoTo(c, place) == op' = [op EXCEPT ![c].at = place]
Is(c, place) == op[c].at = place

-----------------------------------------------------------------------------
(* os_mutex_lock without a limit, and os_mutex_unlock, of tasks that lock  *)
(* once in a call.  Waiting tasks are on a list whose order also depends on*)
(* priorities the mutex has raised; here any of them may be the first.     *)

\* In a call, and done with os_mutex_lock where the function calls it.
Enters(c) == lock[c] = "none"
Holds(c) == ~ Is(c, "idle") /\ Enters(c)

\* Mutant: the lock is taken whoever has it.
LockNever(c) ==
  /\ lock[c] = "begins"
  /\ mutex' = c /\ lock' = [lock EXCEPT ![c] = "none"]
  /\ UNCHANGED <<heapVars, op>>

os_mutex_lock(c) ==
  /\ lock[c] = "begins"
  /\ IF mutex \in {None, c}
       THEN mutex' = c /\ lock' = [lock EXCEPT ![c] = "none"]
       ELSE lock' = [lock EXCEPT ![c] = "waits"] /\ UNCHANGED mutex
  /\ UNCHANGED <<heapVars, op>>

\* The task that was woken goes on: it does not look whether another task has
\* locked the mutex since then.
LockReturn(c) ==
  /\ lock[c] = "woken"
  /\ mutex' = c /\ lock' = [lock EXCEPT ![c] = "none"]
  /\ UNCHANGED <<heapVars, op>>

Waiting == {c \in Client : lock[c] = "waits"}

\* Changes lockVars.  Of a heap that is not guarded nobody is the owner.
os_mutex_unlock(c) ==
  IF mutex # c THEN UNCHANGED lockVars
  ELSE /\ mutex' = None
       /\ IF Waiting = {} THEN UNCHANGED lock
          ELSE \E w \in Waiting : lock' = [lock EXCEPT ![w] = "woken"]

\* A call begins: with the mutex, or when no other task is in a call.
Begins(c) ==
  /\ Is(c, "idle")
  /\ IF guarded THEN lock' = [lock EXCEPT ![c] = "begins"]
     ELSE UNCHANGED lock /\ \A d \in Client : Is(d, "idle")

\* The scheduler: a task runs when no task of a higher priority is ready.  Who is
\* in no call of the heap may be ready or not.
Ready(c) == ~ Is(c, "idle") /\ lock[c] # "waits"
Runs(c) == \A d \in Client : Ready(d) => Priority[c] <= Priority[d]

-----------------------------------------------------------------------------
(* os_malloc_safe and os_calloc_safe.                                      *)

\* A size that is aligned already grows as well.
Aligned(n) == (n + (Align - (n % Align))) % Wrap

Span(n) == (Aligned(n) + Header) % Wrap

Call(c) ==
  /\ Begins(c)
  /\ \E r \in Requests :
       op' = [op EXCEPT ![c] = [Idle EXCEPT !.at = "find",
                                            !.need = (r.nmemb * r.size) % Wrap]]
  /\ UNCHANGED <<heapVars, mutex>>

Fits(a, n) == ~ header[a].used /\ header[a].size >= Span(n)
Fitting(n) == {i \in DOMAIN list : Fits(list[i], n)}

\* The walk of __os_malloc_base: the first block of the list that fits.
Find(c) ==
  /\ Is(c, "find") /\ Enters(c)
  /\ LET n == op[c].need
     IN op' = [op EXCEPT
          ![c] = IF Fitting(n) = {} THEN [@ EXCEPT !.at = "done"]
                 ELSE [@ EXCEPT !.at = "take", !.block = list[Min(Fitting(n))]]]
  /\ UNCHANGED <<heapVars, lockVars>>

\* The rest of the block is large enough for a block of its own.
Splits(a, n) == header[a].size > (Aligned(n) + 2 * Header) % Wrap

\* The block becomes used, the header of the rest is written before that.
Take(c) ==
  /\ Is(c, "take")
  /\ LET a == op[c].block
         n == op[c].need
         b == a + Span(n)
     IN IF Splits(a, n)
          THEN /\ header' = [header EXCEPT
                    ![a].used = TRUE,
                    ![b] = [size |-> header[a].size - Span(n), used |-> FALSE]]
               /\ GoTo(c, "shrink")
          ELSE header' = [header EXCEPT ![a].used = TRUE] /\ GoTo(c, "taken")
  /\ UNCHANGED <<length, guarded, list, held, lockVars>>

Shrink(c) ==
  /\ Is(c, "shrink")
  /\ header' = [header EXCEPT ![op[c].block].size = Span(op[c].need)]
  /\ GoTo(c, "link")
  /\ UNCHANGED <<length, guarded, list, held, lockVars>>

IndexOf(a) == CHOOSE i \in DOMAIN list : list[i] = a

\* Mutant: the rest goes to the end of the list.
list_add_tail(a, b) == Append(list, b)

list_add(a, b) == InsertAt(list, IndexOf(a) + 1, b)

Link(c) ==
  /\ Is(c, "link")
  /\ LET a == op[c].block IN list' = list_add(a, a + Span(op[c].need))
  /\ GoTo(c, "taken")
  /\ UNCHANGED <<length, guarded, header, held, lockVars>>

\* The functions return the block, or NULL.
Return(c) ==
  /\ Is(c, "taken") /\ os_mutex_unlock(c)
  /\ held' = [held EXCEPT ![c] = @ \cup {op[c].block}]
  /\ op' = [op EXCEPT ![c] = Idle]
  /\ UNCHANGED <<length, guarded, list, header>>

ReturnNull(c) ==
  /\ Is(c, "done") /\ os_mutex_unlock(c)
  /\ op' = [op EXCEPT ![c] = Idle]
  /\ UNCHANGED heapVars

-----------------------------------------------------------------------------
(* os_free_safe, of a block the task has been given.                       *)

CallFree(c) ==
  /\ Begins(c)
  /\ \E a \in held[c] :
       op' = [op EXCEPT ![c] = [Idle EXCEPT !.at = "free", !.block = a]]
  /\ UNCHANGED <<heapVars, mutex>>

Free(c) ==
  /\ Is(c, "free") /\ Enters(c)
  /\ header' = [header EXCEPT ![op[c].block].used = FALSE]
  /\ held' = [held EXCEPT ![c] = @ \ {op[c].block}]
  /\ GoTo(c, "back")
  /\ UNCHANGED <<length, guarded, list, lockVars>>

\* Block i of the list takes in the block behind it.
Join(i) ==
  /\ header' = [header EXCEPT ![list[i]].size = @ + header[list[i + 1]].size]
  /\ list' = RemoveAt(list, i + 1)

\* Mutant: free blocks in front of the freed one are not looked at.
JoinsNever(i) == FALSE

JoinsBack(i) == i > 1 /\ ~ header[list[i - 1]].used
JoinsForward(i) == i < Len(list) /\ ~ header[list[i + 1]].used

\* One round of the first loop: towards the head of the list.
JoinBack(c) ==
  /\ Is(c, "back")
  /\ LET i == IndexOf(op[c].block)
     IN IF JoinsBack(i) THEN Join(i - 1) /\ op' = [op EXCEPT ![c].block = list[i - 1]]
        ELSE GoTo(c, "forward") /\ UNCHANGED <<list, header>>
  /\ UNCHANGED <<length, guarded, held, lockVars>>

\* One round of the second.
JoinForward(c) ==
  /\ Is(c, "forward")
  /\ LET i == IndexOf(op[c].block)
     IN IF JoinsForward(i) THEN Join(i) /\ UNCHANGED op
        ELSE GoTo(c, "done") /\ UNCHANGED <<list, header>>
  /\ UNCHANGED <<length, guarded, held, lockVars>>

Step(c) == \/ Find(c) \/ Take(c) \/ Shrink(c) \/ Link(c) \/ Return(c)
           \/ ReturnNull(c) \/ Free(c) \/ JoinBack(c) \/ JoinForward(c)

Next ==
  \E c \in Client :
    /\ Runs(c)
    /\ Call(c) \/ CallFree(c) \/ os_mutex_lock(c) \/ LockReturn(c) \/ Step(c)

Spec == Init /\ [][Next]_vars

-----------------------------------------------------------------------------
\* What memory_used, the command "free", counts.
memory_used ==
  FoldLeft(LAMBDA sum, a : IF header[a].used THEN sum + header[a].size ELSE sum,
           0, list)

-----------------------------------------------------------------------------
(* What the heap owes its users.                                           *)

\* No task is between its first and its last look at the list.
Quiet == \A c \in Client : ~ Holds(c)

\* The list's blocks tile the heap: each begins where the one before it ends.
\* Splitting and joining neither lose memory nor make it up.
BlocksTile ==
  Quiet => /\ list[1] = 0
           /\ \A i \in DOMAIN list :
                list[i] + header[list[i]].size
                  = IF i < Len(list) THEN list[i + 1] ELSE length

\* The command counts at least what the tasks have, and at most the heap: also
\* between two steps of a task that is dividing or joining blocks.
UsageCovers ==
  LET given == UNION {held[c] : c \in Client}
  IN MapThenSumSet(LAMBDA a : header[a].size, given) <= memory_used
       /\ memory_used <= length

\* Tasks get memory that nobody else has, as much as they asked for, and are
\* turned down only when there is no gap: freed blocks are joined with all
\* their free neighbours.
Blocks == UNION {{[at |-> a, span |-> header[a].size] : a \in held[c]} : c \in Client}
Asking(c) == op[c].at \in {"find", "take", "shrink", "link", "taken"}
Allocates == INSTANCE Allocator
  WITH Sizes <- {r.nmemb * r.size : r \in Requests}, blocks <- Blocks,
       asks <- [c \in Client |-> IF Asking(c) THEN op[c].need ELSE None]
IsAllocator == Allocates!Spec
=============================================================================
