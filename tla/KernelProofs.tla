------------------------------ MODULE KernelProofs ------------------------------
(***************************************************************************)
(* The kernel, for any number of tasks and priorities.  First what the     *)
(* operators of module KernelOps keep: every one leaves a record of the    *)
(* kernel's data a record of the kernel's data, and lists that agree with  *)
(* each other and with the control blocks as they were.  Then the steps of *)
(* module Kernel, whatever the application calls: they keep its types, and *)
(* the scheduler lock keeps the processor to the task that took it.  Last, *)
(* of an application that suspends and resumes only tasks for which that   *)
(* is allowed: no task is lost, the numbers that summarise the queues are  *)
(* right, a switch leads to the highest priority, and memory stays sound.  *)
(* What is said about tasks that wait for an object serves the proofs about*)
(* semaphores and message queues.                                          *)
(***************************************************************************)
EXTENDS Kernel, SequenceTheorems, WellFoundedInduction, TLAPS

-----------------------------------------------------------------------------
(* Numbers and sequences.                                                  *)

LEMMA MinOfNats == ASSUME NEW S \in SUBSET Nat, S # {}
                   PROVE  Min(S) \in S /\ \A y \in S : Min(S) <= y
<1> DEFINE R == OpToRel(<, Nat)
<1>1. IsWellFoundedOn(R, Nat)
  BY NatLessThanWellFounded
<1>2. \A x, y \in Nat : x < y => <<x, y>> \in R
  BY DEF OpToRel
<1> HIDE DEF R
<1>3. PICK x \in S : \A y \in S : ~ (<<y, x>> \in R)
  BY <1>1, WFMin
<1>4. \A y \in S : ~ (y < x)
  BY <1>2, <1>3, Zenon
<1>5. \A y \in S : x <= y
  BY <1>4
<1>6. QED
  BY <1>5 DEF Min

LEMMA SeqInsert == ASSUME NEW S, NEW s \in Seq(S), NEW i \in 1..(Len(s) + 1), NEW e \in S
                   PROVE  InsertAt(s, i, e) \in Seq(S)
BY DEF InsertAt

LEMMA SeqWithout == ASSUME NEW S, NEW s \in Seq(S), NEW e
                    PROVE  Without(s, e) \in Seq(S)
<1>1. CASE e \in ToSet(s)
  <2>1. PICK j \in DOMAIN s : s[j] = e
    BY <1>1 DEF ToSet
  <2>2. (CHOOSE i \in DOMAIN s : s[i] = e) \in DOMAIN s
    BY <2>1
  <2>3. \A i \in DOMAIN s : RemoveAt(s, i) \in Seq(S)
    BY DEF RemoveAt
  <2>4. QED
    BY <1>1, <2>2, <2>3 DEF Without
<1>2. QED
  BY <1>1 DEF Without

LEMMA Modulo == \A x \in Int : x % Wrap \in Count
BY KernelAssumption DEF Count

\* A recursive function over 0..n is defined: it is built up from 0, and a least
\* place where that fails cannot be.
LEMMA SumsExist ==
  ASSUME NEW n \in Nat, NEW w \in [1..n -> Count]
  PROVE  \E e \in [0..n -> Count] :
           \A i \in 0..n : e[i] = IF i = 0 THEN 0 ELSE (e[i - 1] + w[i]) % Wrap
<1> DEFINE Upto(e, m) == \A i \in 0..m : e[i] = IF i = 0 THEN 0
                                               ELSE (e[i - 1] + w[i]) % Wrap
           Bad == {m \in 0..n : ~ \E e \in [0..m -> Count] : Upto(e, m)}
<1>1. Bad = {}
  <2> SUFFICES ASSUME Bad # {} PROVE FALSE
    OBVIOUS
  <2>1. PICK m \in Bad : \A y \in Bad : m <= y
    <3>1. Bad \subseteq Nat
      OBVIOUS
    <3> HIDE DEF Bad
    <3>2. QED
      BY <3>1, MinOfNats
  <2>2. CASE m = 0
    <3> DEFINE e == [i \in 0..0 |-> 0]
    <3>1. e \in [0..0 -> Count] /\ Upto(e, 0)
      BY KernelAssumption DEF Count
    <3> HIDE DEF e, Upto
    <3>2. QED
      BY <2>1, <2>2, <3>1
  <2>3. CASE m # 0
    <3>0. Bad \subseteq 0..n
      OBVIOUS
    <3>1. m \in 1..n /\ m - 1 \in 0..n /\ m - 1 \notin Bad
      <4> HIDE DEF Bad
      <4>1. QED
        BY <2>1, <2>3, <3>0
    <3>2. PICK e \in [0..(m - 1) -> Count] : Upto(e, m - 1)
      BY <3>1
    <3> DEFINE top == (e[m - 1] + w[m]) % Wrap
               g == [i \in 0..m |-> IF i = m THEN top ELSE e[i]]
    <3>3. top \in Count
      <4>1. e[m - 1] + w[m] \in Int
        BY <3>1, KernelAssumption DEF Count
      <4>2. QED
        BY <4>1, Modulo
    <3>4. g \in [0..m -> Count]
      BY <3>1, <3>3
    <3>5. Upto(g, m)
      <4> SUFFICES ASSUME NEW i \in 0..m
                   PROVE  g[i] = IF i = 0 THEN 0 ELSE (g[i - 1] + w[i]) % Wrap
        OBVIOUS
      <4>1. CASE i = m
        BY <2>3, <3>1, <4>1
      <4>2. CASE i # m
        <5>1. /\ i \in 0..(m - 1) /\ g[i] = e[i]
              /\ i # 0 => i - 1 \in 0..m /\ i - 1 # m /\ g[i - 1] = e[i - 1]
          BY <3>1, <4>2
        <5>2. e[i] = IF i = 0 THEN 0 ELSE (e[i - 1] + w[i]) % Wrap
          BY <3>2, <5>1
        <5>3. QED
          BY <5>1, <5>2
      <4>3. QED
        BY <4>1, <4>2
    <3> HIDE DEF g, Upto
    <3>6. QED
      BY <2>1, <3>4, <3>5
  <2>4. QED
    BY <2>2, <2>3
<1>2. n \notin Bad
  BY <1>1
<1>3. QED
  BY <1>2

\* Expiry is such a function, of which the type is shown in the same way.
LEMMA ExpiryType == ASSUME NEW s \in Seq(TickNode)
                    PROVE  Expiry(s) \in [0..Len(s) -> Count]
<1> DEFINE Rec(e, i) == IF i = 0 THEN 0 ELSE (e[i - 1] + s[i].cnt) % Wrap
           w == [i \in 1..Len(s) |-> s[i].cnt]
           c == Expiry(s)
<1>1. w \in [1..Len(s) -> Count]
  <2>1. \A i \in 1..Len(s) : s[i] \in TickNode
    OBVIOUS
  <2>2. QED
    BY <2>1 DEF TickNode
<1>2. PICK e \in [0..Len(s) -> Count] :
        \A i \in 0..Len(s) : e[i] = IF i = 0 THEN 0 ELSE (e[i - 1] + w[i]) % Wrap
  <2>1. Len(s) \in Nat
    OBVIOUS
  <2> HIDE DEF w
  <2>2. QED
    BY <1>1, <2>1, SumsExist
<1>3. e = [i \in 0..Len(s) |-> Rec(e, i)]
  BY <1>2
<1>4. c = [i \in 0..Len(s) |-> Rec(c, i)]
  BY <1>3 DEF Expiry
<1> HIDE DEF c
<1> DEFINE Odd == {n \in 0..Len(s) : c[n] \notin Count}
<1>5. Odd = {}
  <2> SUFFICES ASSUME Odd # {} PROVE FALSE
    OBVIOUS
  <2>1. PICK m \in Odd : \A y \in Odd : m <= y
    <3>1. Odd \subseteq Nat
      OBVIOUS
    <3> HIDE DEF Odd
    <3>2. QED
      BY <3>1, MinOfNats
  <2>2. m \in 0..Len(s) /\ c[m] = Rec(c, m)
    BY <1>4, <2>1
  <2>3. CASE m = 0
    BY <2>1, <2>2, <2>3, KernelAssumption DEF Count
  <2>4. CASE m # 0
    <3>1. m - 1 \in 0..Len(s) /\ m - 1 \notin Odd /\ m \in 1..Len(s)
      BY <2>1, <2>4
    <3>2. c[m - 1] + s[m].cnt \in Int
      BY <1>1, <3>1, KernelAssumption DEF Count
    <3>3. c[m] \in Count
      BY <2>2, <2>4, <3>2, Modulo
    <3>4. QED
      BY <2>1, <3>3
  <2>5. QED
    BY <2>3, <2>4
<1>6. QED
  BY <1>4, <1>5 DEF c

LEMMA TickPositionType == ASSUME NEW s \in Seq(TickNode), NEW n
                          PROVE  TickPosition(s, n) \in 1..(Len(s) + 1)
<1> DEFINE due == {i \in DOMAIN s : Expiry(s)[i] >= n}
<1>1. due \in SUBSET Nat /\ due \subseteq 1..Len(s)
  OBVIOUS
<1>2. TickPosition(s, n) = IF due = {} THEN Len(s) + 1 ELSE Min(due)
  BY DEF TickPosition
<1>3. Len(s) \in Nat
  OBVIOUS
<1> HIDE DEF due
<1>4. due # {} => Min(due) \in due
  BY <1>1, MinOfNats
<1>5. CASE due = {}
  BY <1>2, <1>3, <1>5
<1>6. CASE due # {}
  <2>1. Min(due) \in 1..Len(s)
    BY <1>1, <1>4, <1>6
  <2>2. \A i \in 1..Len(s) : i \in 1..(Len(s) + 1)
    BY <1>3
  <2>3. QED
    BY <1>2, <1>6, <2>1, <2>2
<1>7. QED
  BY <1>5, <1>6

-----------------------------------------------------------------------------
(* os_list.h and os_sched.c                                                *)

LEMMA ListNames == /\ Prio \subseteq List /\ Object \subseteq List
                   /\ Idle \in Task /\ SysBlock \in Object /\ MaxPrio \in Prio
                   /\ MaxPrio \in Nat /\ Timeslice \in Count /\ 0 \in Count
                   /\ NULL \notin Task /\ Prio \subseteq Nat /\ 0 \in Prio
                   /\ \A l \in List : l \notin Task
BY KernelAssumption DEF Prio, List, Count

LEMMA UnlinkSlotType == ASSUME NEW k0 \in KernelState, NEW t \in Task
                        PROVE  UnlinkSlot(k0, t) \in KernelState
<1>1. [l \in List |-> Without(k0.list[l], t)] \in [List -> Seq(Task)]
  <2>1. \A l \in List : k0.list[l] \in Seq(Task)
    BY DEF KernelState
  <2>2. QED
    BY <2>1, SeqWithout
<1>2. QED
  BY <1>1 DEF UnlinkSlot, KernelState

LEMMA WithoutInType == ASSUME NEW s \in Seq(TickNode), NEW t \in Task
                       PROVE  WithoutIn(s, t) \in Seq(TickNode)
<1> DEFINE u == WithoutIn(s, t)
<1>1. \A i \in DOMAIN s : u[i] \in TickNode
  <2> SUFFICES ASSUME NEW i \in DOMAIN s PROVE u[i] \in TickNode
    OBVIOUS
  <2>1. s[i] \in TickNode /\ u[i] = [s[i] EXCEPT !.tasks = Without(s[i].tasks, t)]
    BY DEF WithoutIn
  <2>2. Without(s[i].tasks, t) \in Seq(Task)
    BY <2>1, SeqWithout DEF TickNode
  <2>3. QED
    BY <2>1, <2>2 DEF TickNode
<1>2. DOMAIN u = 1..Len(s) /\ Len(s) \in Nat /\ DOMAIN s = 1..Len(s)
  BY DEF WithoutIn
<1>3. u = [i \in 1..Len(s) |-> u[i]]
  BY <1>2 DEF WithoutIn
<1> HIDE DEF u
<1>4. QED
  BY <1>1, <1>2, <1>3, IsASeq DEF u

LEMMA UnlinkTickType == ASSUME NEW k0 \in KernelState, NEW t \in Task
                        PROVE  UnlinkTick(k0, t) \in KernelState
<1>1. WithoutIn(k0.ticks, t) \in Seq(TickNode)
  BY WithoutInType DEF KernelState
<1>2. QED
  BY <1>1 DEF UnlinkTick, KernelState

LEMMA NextNodeType == ASSUME NEW k0 \in KernelState, NEW n \in Task \cup List \cup {NULL}
                      PROVE  NextNode(k0, n) \in Task \cup List \cup {NULL}
<1>1. k0.list \in [List -> Seq(Task)]
  BY DEF KernelState
<1>2. CASE n \in List
  <2>1. k0.list[n] # <<>> => Head(k0.list[n]) \in Task
    BY <1>1, <1>2
  <2>2. QED
    BY <1>2, <2>1 DEF NextNode
<1>3. CASE n \notin List /\ n \in Task /\ SlotLinked(k0, n)
  <2> DEFINE l == CHOOSE x \in List : n \in ToSet(k0.list[x])
             i == CHOOSE j \in DOMAIN k0.list[l] : k0.list[l][j] = n
  <2>1. l \in List /\ n \in ToSet(k0.list[l])
    BY <1>3 DEF SlotLinked
  <2>2. i \in DOMAIN k0.list[l]
    BY <2>1 DEF ToSet
  <2>3. NextNode(k0, n) = IF i < Len(k0.list[l]) THEN k0.list[l][i + 1] ELSE l
    BY <1>3 DEF NextNode
  <2> HIDE DEF l, i
  <2>4. k0.list[l] \in Seq(Task) /\ i \in 1..Len(k0.list[l])
    BY <1>1, <2>1, <2>2
  <2>5. i < Len(k0.list[l]) => k0.list[l][i + 1] \in Task
    BY <2>4
  <2>6. QED
    BY <2>1, <2>3, <2>5
<1>4. QED
  BY <1>2, <1>3 DEF NextNode

LEMMA HighestType == ASSUME NEW m \in SUBSET Prio PROVE HighestReadyPriority(m) \in Prio
<1>1. m \in SUBSET Nat
  BY ListNames
<1>2. QED
  BY <1>1, ListNames, MinOfNats DEF HighestReadyPriority

LEMMA AddTaskType == ASSUME NEW k0 \in KernelState, NEW t \in Task
                     PROVE  os_rq_add_task(k0, t) \in KernelState
<1>1. /\ k0.prio[t] \in Prio /\ k0.prio[t] \in List /\ k0.list[k0.prio[t]] \in Seq(Task)
      /\ SlotLinked(k0, t) \in BOOLEAN
  BY ListNames DEF KernelState, SlotLinked
<1>2. /\ <<t>> \o k0.list[k0.prio[t]] \in Seq(Task)
      /\ Append(k0.list[k0.prio[t]], t) \in Seq(Task)
  BY <1>1
<1> DEFINE p == k0.prio[t]
           q == k0.list[p]
           q1 == IF k0.cur = NULL \/ p < k0.prio[k0.cur] THEN <<t>> \o q ELSE Append(q, t)
           m1 == IF q = <<>> THEN k0.map \cup {p} ELSE k0.map
           h1 == IF q = <<>> /\ p < k0.high THEN p ELSE k0.high
           f1 == k0.fault \/ SlotLinked(k0, t)
<1>3. q1 \in Seq(Task) /\ m1 \in SUBSET Prio /\ h1 \in Prio /\ f1 \in BOOLEAN
  BY <1>1, <1>2 DEF KernelState
<1>4. os_rq_add_task(k0, t) =
        IF k0.state[t] = "READY" THEN k0
        ELSE [k0 EXCEPT !.map = m1, !.high = h1, !.list[p] = q1,
                       !.state[t] = "READY", !.fault = f1]
  BY DEF os_rq_add_task
<1> HIDE DEF p, q1, m1, h1, f1
<1>5. [k0 EXCEPT !.map = m1, !.high = h1, !.list[p] = q1,
                !.state[t] = "READY", !.fault = f1] \in KernelState
  BY <1>3 DEF KernelState, TaskState
<1>6. QED
  BY <1>4, <1>5

LEMMA DelTaskType == ASSUME NEW k0 \in KernelState, NEW t \in Task
                     PROVE  os_rq_del_task(k0, t) \in KernelState
<1>1. LeaveSlice(k0, t) \in KernelState
  <2>1. NextNode(k0, t) \in Task \cup List \cup {NULL}
    BY NextNodeType
  <2>2. QED
    BY <2>1 DEF LeaveSlice, KernelState
<1>2. UnlinkSlot(LeaveSlice(k0, t), t) \in KernelState
  BY <1>1, UnlinkSlotType
<1>3. k0.map \ {k0.prio[t]} \in SUBSET Prio
  BY DEF KernelState
<1>4. HighestReadyPriority(k0.map \ {k0.prio[t]}) \in Prio
  BY <1>3, HighestType
<1>5. UnlinkSlot(LeaveSlice(k0, t), t).map = k0.map
  BY DEF UnlinkSlot, LeaveSlice, KernelState
<1> DEFINE k1 == UnlinkSlot(LeaveSlice(k0, t), t)
           m == k0.map \ {k0.prio[t]}
           h == IF k1.high = k0.prio[t] THEN HighestReadyPriority(m) ELSE k1.high
<1>6. os_rq_del_task(k0, t) = IF k1.list[k0.prio[t]] # <<>> THEN k1
                             ELSE [k1 EXCEPT !.map = m, !.high = h]
  BY DEF os_rq_del_task
<1>7. k1 \in KernelState /\ m \in SUBSET Prio /\ HighestReadyPriority(m) \in Prio
  BY <1>2, <1>3, <1>4 DEF k1, m
<1>8. h \in Prio
  BY <1>7 DEF KernelState
<1> HIDE DEF k1, m, h
<1>9. [k1 EXCEPT !.map = m, !.high = h] \in KernelState
  BY <1>7, <1>8 DEF KernelState
<1>10. QED
  BY <1>6, <1>7, <1>9

LEMMA SkipHeadType == ASSUME NEW k0 \in KernelState, NEW n \in Task \cup List \cup {NULL}
                      PROVE  SkipHead(k0, n) \in Task \cup List \cup {NULL}
BY NextNodeType DEF SkipHead

LEMMA GetHighestType == ASSUME NEW k0 \in KernelState
                        PROVE  os_rq_get_highest_prio_task(k0) \in KernelState
<1> DEFINE h  == k0.high
           n0 == IF k0.tsPrio = h THEN k0.tsNode ELSE NextNode(k0, h)
           n1 == SkipHead(k0, n0)
           n2 == IF Rotates(k0, n1) THEN SkipHead(k0, NextNode(k0, n1)) ELSE n1
           s  == IF Rotates(k0, n1) THEN Timeslice ELSE k0.slice[n1]
<1>1. n0 \in Task \cup List \cup {NULL}
  BY ListNames, NextNodeType DEF KernelState
<1>2. n1 \in Task \cup List \cup {NULL}
  <2> HIDE DEF n0
  <2>1. QED
    BY <1>1, SkipHeadType
<1>3. n1 \in Task => s \in Count
  <2> HIDE DEF n1
  <2>1. QED
    BY ListNames DEF KernelState
<1>4. os_rq_get_highest_prio_task(k0) =
        IF n1 \notin Task THEN [k0 EXCEPT !.fault = TRUE]
        ELSE IF n2 \notin Task THEN [k0 EXCEPT !.fault = TRUE]
        ELSE [k0 EXCEPT !.tsPrio = h, !.tsNode = n2, !.nxt = n2, !.slice[n1] = s]
  BY DEF os_rq_get_highest_prio_task
<1>5. h \in 0..(MaxPrio + 1)
  BY ListNames DEF KernelState, Prio
<1> HIDE DEF h, n1, n2, s
<1>6. [k0 EXCEPT !.fault = TRUE] \in KernelState
  BY DEF KernelState
<1>7. n1 \in Task /\ n2 \in Task =>
        [k0 EXCEPT !.tsPrio = h, !.tsNode = n2, !.nxt = n2, !.slice[n1] = s] \in KernelState
  BY <1>3, <1>5 DEF KernelState
<1>8. QED
  BY <1>4, <1>6, <1>7

LEMMA ChooseReadyType == ASSUME NEW k0 \in KernelState, NEW by \in {"thread", "sw"}
                         PROVE  ChooseReady(k0, by) \in KernelState
<1> DEFINE holder == IF k0.cur # Idle THEN k0.cur ELSE k0.lockTcb[by]
           n == IF k0.bstate[holder] = "TICKING" THEN Idle ELSE holder
<1>1. holder \in Task \cup {NULL}
  BY DEF KernelState
<1>2. ChooseReady(k0, by) =
        IF k0.lock = 0 THEN os_rq_get_highest_prio_task(k0)
        ELSE IF holder = NULL THEN [k0 EXCEPT !.fault = TRUE]
        ELSE [k0 EXCEPT !.lockTcb[by] = holder, !.nxt = n]
  BY DEF ChooseReady
<1>3. holder # NULL => n \in Task
  BY <1>1, ListNames
<1> HIDE DEF holder, n
<1>4. [k0 EXCEPT !.fault = TRUE] \in KernelState
  BY DEF KernelState
<1>5. holder # NULL => [k0 EXCEPT !.lockTcb[by] = holder, !.nxt = n] \in KernelState
  BY <1>1, <1>3 DEF KernelState
<1>6. QED
  BY <1>2, <1>4, <1>5, GetHighestType

LEMMA SchedType == ASSUME NEW k0 \in KernelState, NEW by \in {"thread", "sw"}
                   PROVE  os_sched(k0, by) \in KernelState
<1> DEFINE k1 == ChooseReady(k0, by)
           st == [t \in Task |->
                    IF t = k1.nxt THEN "RUNNING"
                    ELSE IF t = k1.cur /\ k1.state[t] = "RUNNING" THEN "READY"
                    ELSE k1.state[t]]
<1>1. k1 \in KernelState
  BY ChooseReadyType
<1>2. os_sched(k0, by) = IF k1.fault \/ k1.nxt = k1.cur THEN k1 ELSE [k1 EXCEPT !.state = st]
  BY DEF os_sched
<1> HIDE DEF k1
<1>3. st \in [Task -> TaskState]
  BY <1>1 DEF KernelState, TaskState
<1> HIDE DEF st
<1>4. [k1 EXCEPT !.state = st] \in KernelState
  BY <1>1, <1>3 DEF KernelState
<1>5. QED
  BY <1>1, <1>2, <1>4

LEMMA UseSliceType == ASSUME NEW k0 \in KernelState, k0.cur \in Task
                      PROVE  UseSlice(k0) \in KernelState
<1> DEFINE s == k0.slice[k0.cur]
           left == IF k0.sliceMissed >= s THEN 0 ELSE s - k0.sliceMissed - 1
           s1 == IF left > Timeslice THEN 0 ELSE left
<1>1. s \in Nat /\ s < Wrap /\ k0.sliceMissed \in Nat
  BY KernelAssumption DEF KernelState, Count
<1>2. s1 \in Count
  BY <1>1, KernelAssumption DEF Count
<1> DEFINE sl == [k0.slice EXCEPT ![k0.cur] = s1]
<1>3. UseSlice(k0) = [k0 EXCEPT !.slice = sl, !.sliceMissed = 0]
  BY DEF UseSlice
<1>4. sl \in [Task -> Count]
  <2> HIDE DEF s1
  <2>1. QED
    BY <1>2 DEF KernelState
<1> HIDE DEF sl
<1>5. QED
  BY <1>3, <1>4, ListNames DEF KernelState

LEMMA PollType == ASSUME NEW k0 \in KernelState, k0.cur \in Task
                  PROVE  os_sched_timeslice_poll(k0) \in KernelState
BY UseSliceType, SchedType DEF os_sched_timeslice_poll

-----------------------------------------------------------------------------
(* os_block.c                                                              *)

LEMMA BlockPlace == ASSUME NEW k0, NEW s \in Seq(Task), NEW p
                    PROVE  BlockPosition(k0, s, p) \in 1..(Len(s) + 1)
<1> DEFINE lower == {i \in DOMAIN s : k0.prio[s[i]] > p}
           at == BlockPosition(k0, s, p)
<1>1. lower \in SUBSET Nat /\ lower \subseteq 1..Len(s) /\ Len(s) \in Nat
  OBVIOUS
<1>2. at = IF lower = {} THEN 1 ELSE Min(lower) + 1
  BY DEF BlockPosition
<1> HIDE DEF lower, at
<1>3. lower # {} => Min(lower) \in 1..Len(s)
  BY <1>1, MinOfNats
<1>4. at \in 1..(Len(s) + 1)
  <2>1. CASE lower = {}
    BY <1>1, <1>2, <2>1
  <2>2. CASE lower # {}
    BY <1>1, <1>2, <1>3, <2>2
  <2>3. QED
    BY <2>1, <2>2
<1>5. QED
  BY <1>4 DEF at

LEMMA BlockInsertType == ASSUME NEW k0, NEW s \in Seq(Task), NEW t \in Task
                         PROVE  BlockInsert(k0, s, t) \in Seq(Task)
BY BlockPlace, SeqInsert DEF BlockInsert

LEMMA AddBlockType == ASSUME NEW k0 \in KernelState, NEW t \in Task, NEW obj \in Object
                      PROVE  os_add_block_task(k0, t, obj) \in KernelState
<1> DEFINE k1 == os_rq_del_task(k0, t)
           ls == [k1.list EXCEPT ![obj] = BlockInsert(k0, k1.list[obj], t)]
           st == [k1.state EXCEPT ![t] = "BLOCKING"]
           f1 == k1.fault \/ SlotLinked(k1, t)
<1>1. k1 \in KernelState
  BY DelTaskType
<1>2. os_add_block_task(k0, t, obj) = [k1 EXCEPT !.list = ls, !.state = st, !.fault = f1]
  BY DEF os_add_block_task
<1> HIDE DEF k1
<1>3. obj \in List /\ k1.list \in [List -> Seq(Task)] /\ k1.list[obj] \in Seq(Task)
  BY <1>1, ListNames DEF KernelState
<1>4. ls \in [List -> Seq(Task)] /\ f1 \in BOOLEAN
  BY <1>3, BlockInsertType
<1>5. st \in [Task -> TaskState]
  BY <1>1 DEF KernelState, TaskState
<1> HIDE DEF ls, st, f1
<1>6. QED
  BY ZenonT(30), <1>1, <1>2, <1>4, <1>5 DEF KernelState

LEMMA WakeupType == ASSUME NEW k0 \in KernelState, NEW t \in Task
                    PROVE  os_block_wakeup_task(k0, t) \in KernelState
BY UnlinkSlotType, AddTaskType DEF os_block_wakeup_task

LEMMA WakeupFirstType == ASSUME NEW k0 \in KernelState, NEW obj \in Object
                         PROVE  os_block_wakeup_first_task(k0, obj) \in KernelState
<1>1. k0.list[obj] # <<>> => Head(k0.list[obj]) \in Task
  BY ListNames DEF KernelState
<1>2. QED
  BY <1>1, WakeupType, UnlinkTickType DEF os_block_wakeup_first_task

-----------------------------------------------------------------------------
(* os_tick.c and os_core.c                                                 *)

LEMMA EndWaitType == ASSUME NEW k0 \in KernelState, NEW t \in Task, NEW why \in BlockState
                     PROVE  EndWait(k0, t, why) \in KernelState
<1>1. [k0 EXCEPT !.bstate[t] = why] \in KernelState
  BY DEF KernelState
<1>2. QED
  BY <1>1, UnlinkSlotType, AddTaskType DEF EndWait

LEMMA WakeTickType == ASSUME NEW k0 \in KernelState, NEW t \in Task
                      PROVE  os_wakeup_tick_task(k0, t) \in KernelState
BY UnlinkTickType, EndWaitType DEF os_wakeup_tick_task, BlockState

LEMMA TickJoinType ==
  ASSUME NEW k0 \in KernelState, NEW t \in Task, NEW i \in 1..Len(k0.ticks)
  PROVE  TickJoin(k0, i, t) \in Seq(TickNode)
<1> DEFINE node == [k0.ticks[i] EXCEPT !.tasks = BlockInsert(k0, k0.ticks[i].tasks, t)]
<1>1. k0.ticks \in Seq(TickNode) /\ i \in DOMAIN k0.ticks /\ k0.ticks[i] \in TickNode
  BY DEF KernelState
<1>2. BlockInsert(k0, k0.ticks[i].tasks, t) \in Seq(Task)
  BY <1>1, BlockInsertType DEF TickNode
<1>3. node \in TickNode
  BY <1>1, <1>2 DEF TickNode
<1>4. TickJoin(k0, i, t) = [k0.ticks EXCEPT ![i] = node]
  BY DEF TickJoin
<1> HIDE DEF node
<1>5. QED
  BY <1>1, <1>3, <1>4

LEMMA TickSplitType ==
  ASSUME NEW k0 \in KernelState, NEW t \in Task, NEW n \in Count,
         NEW i \in 1..(Len(k0.ticks) + 1)
  PROVE  TickSplit(k0, i, t, n) \in Seq(TickNode)
<1> DEFINE delta == (n - Expiry(k0.ticks)[i - 1]) % Wrap
           less(j) == [k0.ticks[j] EXCEPT !.cnt = (k0.ticks[j].cnt - delta) % Wrap]
           later == [j \in DOMAIN k0.ticks |-> IF j = i THEN less(j) ELSE k0.ticks[j]]
           node  == [cnt |-> delta, tasks |-> <<t>>]
<1>1. k0.ticks \in Seq(TickNode) /\ Expiry(k0.ticks) \in [0..Len(k0.ticks) -> Count]
  BY ExpiryType DEF KernelState
<1>2. delta \in Count
  <2>1. n - Expiry(k0.ticks)[i - 1] \in Int
    BY <1>1, KernelAssumption DEF Count
  <2>2. QED
    BY <2>1, Modulo
<1>3. TickSplit(k0, i, t, n) = InsertAt(later, i, node)
  BY DEF TickSplit
<1> HIDE DEF delta
<1>4. \A j \in DOMAIN k0.ticks : k0.ticks[j] \in TickNode /\ less(j) \in TickNode
  <2> SUFFICES ASSUME NEW j \in DOMAIN k0.ticks
               PROVE  k0.ticks[j] \in TickNode /\ less(j) \in TickNode
    OBVIOUS
  <2>1. k0.ticks[j] \in TickNode
    BY <1>1
  <2>2. k0.ticks[j].cnt - delta \in Int
    BY <1>2, <2>1, KernelAssumption DEF TickNode, Count
  <2>3. QED
    BY <2>1, <2>2, Modulo DEF TickNode
<1> HIDE DEF less
<1>5. later \in Seq(TickNode) /\ Len(later) = Len(k0.ticks)
  <2>0. DOMAIN k0.ticks = 1..Len(k0.ticks)
    BY <1>1
  <2>1. later = [j \in 1..Len(k0.ticks) |-> later[j]] /\ Len(k0.ticks) \in Nat
    BY <1>1, <2>0
  <2>2. \A j \in 1..Len(k0.ticks) : later[j] \in TickNode
    BY <1>1, <1>4
  <2> HIDE DEF later
  <2>3. QED
    BY <2>1, <2>2, IsASeq
<1>6. node \in TickNode
  BY <1>2 DEF TickNode
<1> HIDE DEF later, node
<1>7. QED
  BY <1>3, <1>5, <1>6, SeqInsert

LEMMA AddNodeType == ASSUME NEW k0 \in KernelState, NEW t \in Task, NEW n \in Count
                     PROVE  os_tick_add_node(k0, t, n) \in KernelState
<1> DEFINE i  == TickPosition(k0.ticks, n)
           kc == [k0 EXCEPT !.bstate[t] = "TICKING"]
           k1 == os_rq_del_task(kc, t)
           st == [k1.state EXCEPT ![t] = "BLOCKING"]
           f1 == k1.fault \/ TickLinked(k0, t)
           t1 == IF i <= Len(k0.ticks) /\ Expiry(k0.ticks)[i] = n
                   THEN TickJoin(k0, i, t) ELSE TickSplit(k0, i, t, n)
<1>1. k1 \in KernelState
  <2>1. kc \in KernelState
    BY DEF KernelState, BlockState
  <2> HIDE DEF kc
  <2>2. QED
    BY <2>1, DelTaskType
<1>2. t1 \in Seq(TickNode)
  <2>1. i \in 1..(Len(k0.ticks) + 1) /\ Len(k0.ticks) \in Nat
    BY TickPositionType DEF KernelState
  <2> HIDE DEF i
  <2>2. i <= Len(k0.ticks) => TickJoin(k0, i, t) \in Seq(TickNode)
    BY <2>1, TickJoinType
  <2>3. QED
    BY <2>1, <2>2, TickSplitType
<1>3. os_tick_add_node(k0, t, n) =
        [k1 EXCEPT !.state = st, !.fault = f1, !.ticks = t1]
  BY DEF os_tick_add_node
<1> HIDE DEF k1, t1
<1>4. f1 \in BOOLEAN
  OBVIOUS
<1>5. st \in [Task -> TaskState]
  BY <1>1 DEF KernelState, TaskState
<1> HIDE DEF f1, st
<1>6. QED
  BY ZenonT(30), <1>1, <1>2, <1>3, <1>4, <1>5 DEF KernelState

LEMMA AddTickType ==
  ASSUME NEW k0 \in KernelState, NEW t \in Task, NEW n \in Count \cup {Never},
         NEW obj \in Object \cup {NULL}
  PROVE  os_add_tick_task(k0, t, n, obj) \in KernelState
<1> DEFINE k1 == IF n = Never THEN k0 ELSE os_tick_add_node(k0, t, n)
<1>1. k1 \in KernelState
  BY AddNodeType
<1>2. os_add_tick_task(k0, t, n, obj) =
        IF k0.state[t] = "BLOCKING" THEN k0
        ELSE IF obj = NULL THEN k1 ELSE os_add_block_task(k1, t, obj)
  BY DEF os_add_tick_task
<1> HIDE DEF k1
<1>3. QED
  BY <1>1, <1>2, AddBlockType

\* The tick list is not empty when its first node is looked at.
LEMMA TakeMissedType ==
  ASSUME NEW k0 \in KernelState, k0.ticks # <<>>, NEW c \in Count
  PROVE  TakeMissed(k0, c) \in KernelState
<1>1. k0.ticks \in Seq(TickNode) /\ k0.ticks[1] \in TickNode /\ 1 \in DOMAIN k0.ticks
  BY DEF KernelState
<1>2. \A x \in Count : [k0.ticks EXCEPT ![1].cnt = x] \in Seq(TickNode)
  <2> SUFFICES ASSUME NEW x \in Count PROVE [k0.ticks EXCEPT ![1].cnt = x] \in Seq(TickNode)
    OBVIOUS
  <2>1. [k0.ticks[1] EXCEPT !.cnt = x] \in TickNode
    BY <1>1 DEF TickNode
  <2>2. QED
    BY <1>1, <2>1
<1>3. k0.tickMissed \in Nat /\ c \in Nat /\ (~ k0.tickMissed > c => c - k0.tickMissed \in Count)
  BY KernelAssumption DEF KernelState, Count
<1>4. \A tk \in Seq(TickNode), m \in Count :
        /\ [k0 EXCEPT !.ticks = tk] \in KernelState
        /\ [k0 EXCEPT !.ticks = tk, !.tickMissed = m] \in KernelState
  BY DEF KernelState
<1>5. QED
  BY <1>2, <1>3, <1>4, ListNames DEF TakeMissed

LEMMA CountTickType == ASSUME NEW k0 \in KernelState PROVE CountTick(k0) \in KernelState
<1>1. CASE k0.ticks # <<>>
  <2>1. k0.ticks[1] \in TickNode
    BY <1>1 DEF KernelState
  <2>2. (k0.ticks[1].cnt - 1) % Wrap \in Count
    <3>1. k0.ticks[1].cnt - 1 \in Int
      BY <2>1, KernelAssumption DEF TickNode, Count
    <3>2. QED
      BY <3>1, Modulo
  <2>3. QED
    BY <1>1, <2>2, TakeMissedType DEF CountTick
<1>2. QED
  BY <1>1 DEF CountTick

LEMMA ExpireFirstType ==
  ASSUME NEW k0 \in KernelState, k0.ticks # <<>>, k0.ticks[1].tasks # <<>>
  PROVE  ExpireFirst(k0) \in KernelState
<1>1. k0.ticks[1] \in TickNode
  BY DEF KernelState
<1>2. Head(k0.ticks[1].tasks) \in Task
  BY <1>1 DEF TickNode
<1>3. QED
  BY <1>2, UnlinkTickType, EndWaitType DEF ExpireFirst, BlockState

LEMMA DropNodeType == ASSUME NEW k0 \in KernelState, k0.ticks # <<>>
                      PROVE  DropNode(k0) \in KernelState
<1> DEFINE k1 == [k0 EXCEPT !.ticks = Tail(k0.ticks)]
<1>1. k1 \in KernelState
  <2>1. Tail(k0.ticks) \in Seq(TickNode)
    BY DEF KernelState
  <2>2. QED
    BY <2>1 DEF KernelState
<1>2. DropNode(k0) = IF k1.ticks = <<>> THEN k1 ELSE TakeMissed(k1, k1.ticks[1].cnt)
  BY DEF DropNode
<1> HIDE DEF k1
<1>3. k1.ticks # <<>> => k1.ticks[1] \in TickNode
  BY <1>1 DEF KernelState
<1>4. QED
  BY <1>1, <1>2, <1>3, TakeMissedType DEF TickNode

LEMMA CreateType == ASSUME NEW k0 \in KernelState, NEW t \in Task, NEW p \in Prio
                    PROVE  os_task_create(k0, t, p) \in KernelState
<1>1. [k0 EXCEPT !.prio[t] = p, !.state[t] = "NEW", !.slice[t] = 0] \in KernelState
  BY ListNames DEF KernelState, TaskState
<1>2. QED
  BY <1>1, AddTaskType DEF os_task_create

LEMMA ResetType == KernelReset \in KernelState
BY ListNames, KernelAssumption DEF KernelReset, KernelState, TaskState, BlockState, Count, Prio

-----------------------------------------------------------------------------
(* What the lists have to do with each other and with the control blocks.  *)

\* No list has a node twice.
Unique(k0) ==
  /\ \A l \in List : IsInjective(k0.list[l])
  /\ \A i \in DOMAIN k0.ticks : IsInjective(k0.ticks[i].tasks)

\* A ready queue has tasks of its priority, which are ready or running.
QueuesReady(k0) ==
  \A p \in Prio : \A t \in ToSet(k0.list[p]) :
    k0.prio[t] = p /\ k0.state[t] \in {"READY", "RUNNING"}

\* Who waits for an object or a tick is blocked; who is suspended waits for no tick.
WaitersBlocked(k0) ==
  /\ \A o \in Object : \A t \in ToSet(k0.list[o]) : k0.state[t] = "BLOCKING"
  /\ \A t \in Task : TickLinked(k0, t) => k0.state[t] = "BLOCKING"
  /\ \A t \in ToSet(k0.list[SysBlock]) : ~ TickLinked(k0, t)

\* The bitmap and the highest priority say which queues are occupied.
MapExact(k0) ==
  /\ k0.map = {p \in Prio : k0.list[p] # <<>>}
  /\ k0.map # {} => k0.high \in k0.map /\ \A p \in k0.map : k0.high <= p

\* The round-robin position is in the queue it was taken from, or its head.
PositionKept(k0) ==
  k0.tsPrio \in Prio => k0.tsNode = k0.tsPrio \/ k0.tsNode \in ToSet(k0.list[k0.tsPrio])

Lists(k0) == /\ Unique(k0) /\ QueuesReady(k0) /\ WaitersBlocked(k0)
            /\ MapExact(k0) /\ PositionKept(k0)

-----------------------------------------------------------------------------
(* Sequences without repetition.                                           *)

LEMMA WithoutSeq ==
  ASSUME NEW S, NEW s \in Seq(S), NEW e, IsInjective(s)
  PROVE  /\ Without(s, e) \in Seq(S) /\ IsInjective(Without(s, e))
         /\ ToSet(Without(s, e)) = ToSet(s) \ {e}
<1>1. CASE e \notin ToSet(s)
  BY <1>1 DEF Without
<1>2. CASE e \in ToSet(s)
  <2> DEFINE j == CHOOSE i \in DOMAIN s : s[i] = e
             r == RemoveAt(s, j)
  <2>1. j \in 1..Len(s) /\ s[j] = e
    BY <1>2 DEF ToSet
  <2>2. Without(s, e) = r
    BY <1>2 DEF Without
  <2> HIDE DEF j
  <2>3. /\ r \in Seq(S) /\ Len(r) = Len(s) - 1
        /\ \A i \in 1..(Len(s) - 1) : r[i] = IF i < j THEN s[i] ELSE s[i + 1]
    <3> DEFINE u == SubSeq(s, 1, j - 1)
               v == SubSeq(s, j + 1, Len(s))
    <3>1. /\ u \in Seq(S) /\ Len(u) = j - 1 /\ \A i \in 1..(j - 1) : u[i] = s[i]
          /\ v \in Seq(S) /\ Len(v) = Len(s) - j
          /\ \A i \in 1..(Len(s) - j) : v[i] = s[j + i]
      BY <2>1
    <3>2. r = u \o v
      BY DEF RemoveAt
    <3> HIDE DEF u, v, r
    <3>3. r \in Seq(S) /\ Len(r) = Len(s) - 1
      <4>1. r \in Seq(S) /\ Len(r) = Len(u) + Len(v)
        BY <3>1, <3>2, ConcatProperties
      <4>2. QED
        BY <2>1, <3>1, <4>1
    <3>4. ASSUME NEW i \in 1..(Len(s) - 1) PROVE r[i] = IF i < j THEN s[i] ELSE s[i + 1]
      <4>1. r[i] = IF i <= Len(u) THEN u[i] ELSE v[i - Len(u)]
        BY <2>1, <3>1, <3>2
      <4>2. CASE i < j
        BY <2>1, <3>1, <4>1, <4>2
      <4>3. CASE i >= j
        <5>1. i - (j - 1) \in 1..(Len(s) - j) /\ j + (i - (j - 1)) = i + 1 /\ ~ i <= j - 1
          BY <2>1, <4>3
        <5>2. QED
          BY <2>1, <3>1, <4>1, <4>3, <5>1
      <4>4. QED
        BY <2>1, <4>2, <4>3
    <3>5. QED
      BY <3>3, <3>4
  <2> HIDE DEF r
  <2>4. IsInjective(r)
    BY <2>1, <2>3 DEF IsInjective
  <2>5. ToSet(r) \subseteq ToSet(s) \ {e}
    BY SMTT(30), <2>1, <2>3 DEF IsInjective, ToSet
  <2>6. ASSUME NEW i \in DOMAIN s, s[i] # e PROVE s[i] \in ToSet(r)
    <3>1. CASE i < j
      BY <2>1, <2>3, <3>1 DEF ToSet
    <3>2. CASE i > j
      <4>1. i - 1 \in DOMAIN r /\ r[i - 1] = s[i]
        BY <2>1, <2>3, <3>2
      <4>2. QED
        BY <4>1 DEF ToSet
    <3>3. QED
      BY <2>1, <2>6, <3>1, <3>2
  <2>7. ToSet(s) \ {e} \subseteq ToSet(r)
    BY <2>6 DEF ToSet
  <2>8. QED
    BY <2>2, <2>3, <2>4, <2>5, <2>7
<1>3. QED
  BY <1>1, <1>2

LEMMA InsertSeq ==
  ASSUME NEW S, NEW s \in Seq(S), NEW e \in S, NEW j \in 1..(Len(s) + 1)
  PROVE  /\ ToSet(InsertAt(s, j, e)) = ToSet(s) \cup {e}
         /\ IsInjective(s) /\ e \notin ToSet(s) => IsInjective(InsertAt(s, j, e))
<1> DEFINE r == InsertAt(s, j, e)
<1>1. /\ r \in Seq(S) /\ Len(r) = Len(s) + 1
      /\ \A i \in 1..(Len(s) + 1) :
           r[i] = IF i < j THEN s[i] ELSE IF i = j THEN e ELSE s[i - 1]
  <2> DEFINE u == SubSeq(s, 1, j - 1)
             v == SubSeq(s, j, Len(s))
             w == u \o <<e>>
  <2>1. /\ u \in Seq(S) /\ Len(u) = j - 1 /\ \A i \in 1..(j - 1) : u[i] = s[i]
        /\ v \in Seq(S) /\ Len(v) = Len(s) - j + 1
        /\ \A i \in 1..(Len(s) - j + 1) : v[i] = s[j + i - 1]
    OBVIOUS
  <2>2. r = w \o v
    BY DEF InsertAt
  <2> HIDE DEF u, v
  <2>3. w \in Seq(S) /\ Len(w) = j /\ \A i \in 1..j : w[i] = IF i < j THEN s[i] ELSE e
    BY <2>1
  <2> HIDE DEF w, r
  <2>4. r \in Seq(S) /\ Len(r) = Len(s) + 1
    BY <2>1, <2>2, <2>3
  <2>5. ASSUME NEW i \in 1..(Len(s) + 1)
        PROVE  r[i] = IF i < j THEN s[i] ELSE IF i = j THEN e ELSE s[i - 1]
    <3>1. r[i] = IF i <= Len(w) THEN w[i] ELSE v[i - Len(w)]
      BY <2>1, <2>2, <2>3
    <3>2. CASE i <= j
      BY <2>3, <3>1, <3>2
    <3>3. CASE i > j
      <4>1. i - j \in 1..(Len(s) - j + 1) /\ j + (i - j) - 1 = i - 1 /\ ~ i <= j
        BY <3>3
      <4>2. QED
        BY <2>1, <2>3, <3>1, <3>3, <4>1
    <3>4. QED
      BY <3>2, <3>3
  <2>6. QED
    BY <2>4, <2>5
<1>0. r = InsertAt(s, j, e)
  OBVIOUS
<1> HIDE DEF r
<1>2. ToSet(r) \subseteq ToSet(s) \cup {e}
  BY <1>1 DEF ToSet
<1>3. e \in ToSet(r)
  BY <1>1 DEF ToSet
<1>4. ASSUME NEW i \in DOMAIN s PROVE s[i] \in ToSet(r)
  <2>1. CASE i < j
    BY <1>1, <2>1 DEF ToSet
  <2>2. CASE i >= j
    <3>1. i + 1 \in DOMAIN r /\ r[i + 1] = s[i]
      BY <1>1, <2>2
    <3>2. QED
      BY <3>1 DEF ToSet
  <2>3. QED
    BY <2>1, <2>2
<1>5. ToSet(s) \subseteq ToSet(r)
  BY <1>4 DEF ToSet
<1>6. ASSUME IsInjective(s), e \notin ToSet(s) PROVE IsInjective(r)
  <2>1. \A i \in DOMAIN s : s[i] # e
    BY <1>6 DEF ToSet
  <2>2. ASSUME NEW x \in DOMAIN r, NEW y \in DOMAIN r, r[x] = r[y], x < y PROVE FALSE
    <3>1. CASE y < j
      BY <1>1, <1>6, <2>2, <3>1 DEF IsInjective
    <3>2. CASE y = j
      BY <1>1, <2>1, <2>2, <3>2
    <3>3. CASE j < y /\ x = j
      BY <1>1, <2>1, <2>2, <3>3
    <3>4. CASE j < y /\ x < j
      BY <1>1, <1>6, <2>2, <3>4 DEF IsInjective
    <3>5. CASE j < x
      <4>1. x - 1 \in DOMAIN s /\ y - 1 \in DOMAIN s /\ s[x - 1] = s[y - 1]
        BY <1>1, <2>2, <3>5
      <4>2. QED
        BY <1>1, <1>6, <2>2, <4>1 DEF IsInjective
    <3>6. QED
      BY <1>1, <2>2, <3>1, <3>2, <3>3, <3>4, <3>5
  <2>3. DOMAIN r \subseteq Int
    BY <1>1
  <2>4. \A x, y \in DOMAIN r : r[x] = r[y] => x = y
    BY <2>2, <2>3
  <2>5. QED
    BY <2>4 DEF IsInjective
<1>7. QED
  BY <1>0, <1>2, <1>3, <1>5, <1>6

LEMMA EndsSeq ==
  ASSUME NEW S, NEW s \in Seq(S), NEW e \in S
  PROVE  /\ ToSet(Append(s, e)) = ToSet(s) \cup {e}
         /\ ToSet(<<e>> \o s) = ToSet(s) \cup {e}
         /\ IsInjective(s) /\ e \notin ToSet(s)
              => IsInjective(Append(s, e)) /\ IsInjective(<<e>> \o s)
<1>1. InsertAt(s, Len(s) + 1, e) = Append(s, e)
  <2> DEFINE n == Len(s) + 1
  <2>1. n - 1 = Len(s) /\ SubSeq(s, 1, Len(s)) = s /\ SubSeq(s, n, Len(s)) = <<>>
    OBVIOUS
  <2>2. s \o <<e>> \o <<>> = Append(s, e)
    OBVIOUS
  <2> HIDE DEF n
  <2>3. InsertAt(s, n, e) = SubSeq(s, 1, n - 1) \o <<e>> \o SubSeq(s, n, Len(s))
    BY DEF InsertAt
  <2>4. InsertAt(s, n, e) = Append(s, e)
    BY <2>1, <2>2, <2>3
  <2>5. QED
    BY <2>4 DEF n
<1>1a. InsertAt(s, 1, e) = <<e>> \o s
  <2>1. SubSeq(s, 1, Len(s)) = s /\ SubSeq(s, 1, 0) = <<>> /\ 1 - 1 = 0
    OBVIOUS
  <2>2. <<>> \o <<e>> = <<e>>
    OBVIOUS
  <2>3. QED
    BY <2>1, <2>2 DEF InsertAt
<1>2. Len(s) + 1 \in 1..(Len(s) + 1) /\ 1 \in 1..(Len(s) + 1)
  OBVIOUS
<1>3. \A j \in 1..(Len(s) + 1) :
        /\ ToSet(InsertAt(s, j, e)) = ToSet(s) \cup {e}
        /\ IsInjective(s) /\ e \notin ToSet(s) => IsInjective(InsertAt(s, j, e))
  BY InsertSeq
<1>4. QED
  BY <1>1, <1>1a, <1>2, <1>3

LEMMA EmptySet == ASSUME NEW S, NEW s \in Seq(S) PROVE s = <<>> <=> ToSet(s) = {}
<1>1. s # <<>> => 1 \in DOMAIN s
  OBVIOUS
<1>2. s = <<>> => DOMAIN s = {}
  OBVIOUS
<1>3. QED
  BY <1>1, <1>2 DEF ToSet

-----------------------------------------------------------------------------
(* What an operator leaves alone.                                          *)

\* Nothing that the choice of the next task depends on, apart from the queues.
SameSched(k0, k1) ==
  /\ k1.lock = k0.lock /\ k1.locker = k0.locker /\ k1.lockTcb = k0.lockTcb
  /\ k1.cur = k0.cur /\ k1.nxt = k0.nxt

\* Task u is where it was, in the state it had.
Untouched(k0, k1, u) ==
  /\ k1.prio[u] = k0.prio[u] /\ k1.state[u] = k0.state[u] /\ k1.bstate[u] = k0.bstate[u]
  /\ \A l \in List : u \in ToSet(k1.list[l]) <=> u \in ToSet(k0.list[l])
  /\ TickLinked(k1, u) <=> TickLinked(k0, u)

\* Only what concerns task t has changed, and no list has been corrupted.
OnlyTask(k0, k1, t) ==
  /\ Lists(k1) /\ SameSched(k0, k1) /\ k1.fault = k0.fault
  /\ \A u \in Task \ {t} : Untouched(k0, k1, u)

LEMMA OnlyTaskTwice ==
  ASSUME NEW k0, NEW k1, NEW k2, NEW t, OnlyTask(k0, k1, t), OnlyTask(k1, k2, t)
  PROVE  OnlyTask(k0, k2, t)
BY DEF OnlyTask, SameSched, Untouched

\* A task that is in a ready queue is in no other list.
LEMMA OneQueue ==
  ASSUME NEW k0 \in KernelState, Lists(k0), NEW p \in Prio, NEW t \in ToSet(k0.list[p]),
         NEW l \in List, t \in ToSet(k0.list[l])
  PROVE  l = p
<1>1. k0.prio[t] = p /\ k0.state[t] \in {"READY", "RUNNING"}
  BY DEF Lists, QueuesReady
<1>2. CASE l \in Prio
  BY <1>1, <1>2 DEF Lists, QueuesReady
<1>3. CASE l \in Object
  BY <1>1, <1>3 DEF Lists, WaitersBlocked
<1>4. QED
  BY <1>2, <1>3 DEF List

LEMMA TasksOfList == ASSUME NEW k0 \in KernelState, NEW l \in List
                     PROVE  k0.list[l] \in Seq(Task) /\ ToSet(k0.list[l]) \subseteq Task
<1>1. k0.list[l] \in Seq(Task)
  BY DEF KernelState
<1>2. QED
  BY <1>1 DEF ToSet

LEMMA NextInQueue ==
  ASSUME NEW k0 \in KernelState, Lists(k0), NEW p \in Prio, NEW t \in ToSet(k0.list[p])
  PROVE  \/ NextNode(k0, t) = p
         \/ NextNode(k0, t) \in ToSet(k0.list[p]) /\ NextNode(k0, t) # t
<1> DEFINE l == CHOOSE x \in List : t \in ToSet(k0.list[x])
           i == CHOOSE j \in DOMAIN k0.list[l] : k0.list[l][j] = t
<1>1. p \in List /\ t \in Task /\ t \notin List
  BY ListNames, TasksOfList
<1>2. l \in List /\ t \in ToSet(k0.list[l])
  BY <1>1
<1>3. NextNode(k0, t) = IF i < Len(k0.list[l]) THEN k0.list[l][i + 1] ELSE l
  BY <1>1 DEF NextNode, SlotLinked
<1> HIDE DEF l
<1>4. l = p
  BY <1>2, OneQueue
<1>5. i \in DOMAIN k0.list[p] /\ k0.list[p][i] = t
  BY <1>4 DEF ToSet
<1> HIDE DEF i
<1>6. k0.list[p] \in Seq(Task) /\ IsInjective(k0.list[p])
  BY <1>1, TasksOfList DEF Lists, Unique
<1>7. CASE i < Len(k0.list[p])
  <2>1. i + 1 \in DOMAIN k0.list[p] /\ i + 1 # i
    BY <1>5, <1>6, <1>7
  <2>2. k0.list[p][i + 1] \in ToSet(k0.list[p]) /\ k0.list[p][i + 1] # t
    BY <1>5, <1>6, <2>1 DEF IsInjective, ToSet
  <2>3. QED
    BY <1>3, <1>4, <1>7, <2>2
<1>8. QED
  BY <1>3, <1>4, <1>7

-----------------------------------------------------------------------------
(* Leaving and entering a list of _slot_nd nodes.                          *)

LEMMA UnlinkSlotLists ==
  ASSUME NEW k0 \in KernelState, Unique(k0), NEW t \in Task
  PROVE  LET k1 == UnlinkSlot(k0, t)
         IN /\ k1 \in KernelState /\ Unique(k1)
            /\ \A l \in List : ToSet(k1.list[l]) = ToSet(k0.list[l]) \ {t}
            /\ \A ls : [k0 EXCEPT !.list = ls].list = ls
            /\ k1 = [k0 EXCEPT !.list = k1.list]
<1> DEFINE k1 == UnlinkSlot(k0, t)
           ls == [l \in List |-> Without(k0.list[l], t)]
<1>1. k1 = [k0 EXCEPT !.list = ls] /\ k1.list = ls
  BY DEF UnlinkSlot, KernelState
<1>2. k1 \in KernelState
  BY UnlinkSlotType
<1>3. \A l \in List : /\ IsInjective(Without(k0.list[l], t))
                      /\ ToSet(Without(k0.list[l], t)) = ToSet(k0.list[l]) \ {t}
  BY TasksOfList, WithoutSeq DEF Unique
<1>4. k1.ticks = k0.ticks
  BY <1>1 DEF KernelState
<1>5. \A l \in List : k1.list[l] = Without(k0.list[l], t)
  BY <1>1
<1>6. \A x : [k0 EXCEPT !.list = x].list = x
  BY DEF KernelState
<1> HIDE DEF k1, ls
<1>7. QED
  BY <1>1, <1>2, <1>3, <1>4, <1>5, <1>6 DEF Unique, k1

\* The position moves away from a task that leaves its queue.
LEMMA LeaveSliceLists ==
  ASSUME NEW k0 \in KernelState, Lists(k0), NEW t \in Task
  PROVE  LET k1 == LeaveSlice(k0, t)
         IN /\ k1 \in KernelState /\ k1 = [k0 EXCEPT !.tsNode = k1.tsNode]
            /\ k0.tsPrio \in Prio => \/ k1.tsNode = k0.tsPrio
                                    \/ k1.tsNode \in ToSet(k0.list[k0.tsPrio]) \ {t}
<1> DEFINE k1 == LeaveSlice(k0, t)
           n == NextNode(k0, t)
<1>1. n \in Task \cup List \cup {NULL}
  BY NextNodeType
<1>2. k1 = IF k0.prio[t] = k0.tsPrio /\ t = k0.tsNode THEN [k0 EXCEPT !.tsNode = n] ELSE k0
  BY DEF LeaveSlice
<1> HIDE DEF n, k1
<1>3. CASE k0.prio[t] = k0.tsPrio /\ t = k0.tsNode
  <2>1. k1 = [k0 EXCEPT !.tsNode = n] /\ k1.tsNode = n /\ k1 \in KernelState
    BY <1>1, <1>2, <1>3 DEF KernelState
  <2>2. ASSUME k0.tsPrio \in Prio
        PROVE  n = k0.tsPrio \/ n \in ToSet(k0.list[k0.tsPrio]) \ {t}
    <3>1. t \in ToSet(k0.list[k0.tsPrio])
      BY <1>3, <2>2, ListNames DEF Lists, PositionKept
    <3>2. QED
      BY <2>2, <3>1, NextInQueue DEF n
  <2>3. QED
    BY <2>1, <2>2 DEF k1
<1>4. CASE ~ (k0.prio[t] = k0.tsPrio /\ t = k0.tsNode)
  <2>1. k1 = k0 /\ k0 = [k0 EXCEPT !.tsNode = k0.tsNode]
    BY <1>2, <1>4 DEF KernelState
  <2>2. ASSUME k0.tsPrio \in Prio
        PROVE  k0.tsNode = k0.tsPrio \/ k0.tsNode \in ToSet(k0.list[k0.tsPrio]) \ {t}
    BY <1>4, <2>2 DEF Lists, PositionKept, QueuesReady
  <2>3. QED
    BY <2>1, <2>2 DEF k1
<1>5. QED
  BY <1>3, <1>4

\* The numbers summarise the queues again after one of them may have lost a task.
LEMMA LessTask ==
  ASSUME NEW k0 \in KernelState, MapExact(k0), NEW k1 \in KernelState, NEW p \in Prio,
         \A q \in Prio \ {p} : k1.list[q] = <<>> <=> k0.list[q] = <<>>,
         k1.list[p] # <<>> => k0.list[p] # <<>>,
         IF k1.list[p] # <<>> THEN k1.map = k0.map /\ k1.high = k0.high
         ELSE /\ k1.map = k0.map \ {p}
              /\ k1.high = IF k0.high = p THEN HighestReadyPriority(k0.map \ {p}) ELSE k0.high
  PROVE  MapExact(k1)
<1>1. k1.map = {q \in Prio : k1.list[q] # <<>>}
  BY DEF MapExact
<1>2. k1.map # {} => k1.high \in k1.map /\ \A q \in k1.map : k1.high <= q
  <2>1. CASE k1.list[p] # <<>>
    BY <2>1 DEF MapExact
  <2>2. CASE k1.list[p] = <<>> /\ k0.high # p
    BY <2>2 DEF MapExact
  <2>3. CASE k1.list[p] = <<>> /\ k0.high = p /\ k0.map \ {p} # {}
    <3> DEFINE m == k0.map \ {p}
    <3>1. m \in SUBSET Nat /\ m # {}
      BY <2>3, ListNames DEF KernelState
    <3> HIDE DEF m
    <3>2. HighestReadyPriority(m) \in m /\ \A y \in m : HighestReadyPriority(m) <= y
      BY <3>1, MinOfNats DEF HighestReadyPriority
    <3>3. QED
      BY <2>3, <3>2 DEF m
  <2>4. QED
    BY <2>1, <2>2, <2>3
<1>3. QED
  BY <1>1, <1>2 DEF MapExact

LEMMA DelTaskLists ==
  ASSUME NEW k0 \in KernelState, Lists(k0), NEW t \in Task
  PROVE  LET k1 == os_rq_del_task(k0, t)
         IN /\ k1 \in KernelState /\ OnlyTask(k0, k1, t)
            /\ k1.prio = k0.prio /\ k1.state = k0.state /\ k1.bstate = k0.bstate
            /\ k1.ticks = k0.ticks
            /\ \A l \in List : ToSet(k1.list[l]) = ToSet(k0.list[l]) \ {t}
<1> DEFINE p  == k0.prio[t]
           n  == LeaveSlice(k0, t).tsNode
           kc == LeaveSlice(k0, t)
           k1 == UnlinkSlot(kc, t)
           ls == k1.list
           m  == k0.map \ {p}
           h  == IF k0.high = p THEN HighestReadyPriority(m) ELSE k0.high
           r  == os_rq_del_task(k0, t)
<1>1. /\ kc \in KernelState /\ kc = [k0 EXCEPT !.tsNode = n]
      /\ k0.tsPrio \in Prio => n = k0.tsPrio \/ n \in ToSet(k0.list[k0.tsPrio]) \ {t}
  BY LeaveSliceLists
<1>2. kc.list = k0.list /\ kc.ticks = k0.ticks /\ kc.map = k0.map /\ kc.high = k0.high
  BY <1>1 DEF KernelState
<1>3. Unique(kc)
  BY <1>2 DEF Lists, Unique
<1>4. /\ k1 \in KernelState /\ Unique(k1) /\ k1 = [kc EXCEPT !.list = ls]
      /\ \A l \in List : ToSet(ls[l]) = ToSet(k0.list[l]) \ {t}
  <2> HIDE DEF kc
  <2>1. /\ k1 \in KernelState /\ Unique(k1)
        /\ \A l \in List : ToSet(k1.list[l]) = ToSet(kc.list[l]) \ {t}
        /\ k1 = [kc EXCEPT !.list = k1.list]
    BY <1>1, <1>3, UnlinkSlotLists
  <2> HIDE DEF k1
  <2>2. QED
    BY <1>2, <2>1
<1>5. r = IF ls[p] # <<>> THEN k1 ELSE [k1 EXCEPT !.map = m, !.high = h]
  <2>1. k1.map = k0.map /\ k1.high = k0.high
    <3> HIDE DEF kc, k1, ls
    <3>1. QED
      BY <1>1, <1>2, <1>4 DEF KernelState
  <2>2. r = IF k1.list[p] # <<>> THEN k1
            ELSE [k1 EXCEPT !.map = k1.map \ {p},
                            !.high = IF k1.high = p THEN HighestReadyPriority(k1.map \ {p})
                                     ELSE k1.high]
    <3>1. k1.map = k0.map
      BY <2>1
    <3>2. QED
      BY <3>1 DEF os_rq_del_task
  <2>3. QED
    BY <2>1, <2>2
<1>6. r \in KernelState /\ p \in Prio
  BY DelTaskType DEF KernelState
<1> HIDE DEF kc, k1, ls, n, r, h
<1>7. /\ r.prio = k0.prio /\ r.state = k0.state /\ r.bstate = k0.bstate /\ r.ticks = k0.ticks
      /\ r.fault = k0.fault /\ SameSched(k0, r) /\ r.list = ls
      /\ r.tsPrio = k0.tsPrio /\ r.tsNode = n
      /\ IF ls[p] # <<>> THEN r.map = k0.map /\ r.high = k0.high ELSE r.map = m /\ r.high = h
  <2>1. CASE ls[p] # <<>>
    BY <1>1, <1>4, <1>5, <2>1 DEF KernelState, SameSched
  <2>2. CASE ls[p] = <<>>
    <3>1. r = [k1 EXCEPT !.map = m, !.high = h]
      BY <1>5, <2>2
    <3>2. /\ k1.prio = k0.prio /\ k1.state = k0.state /\ k1.bstate = k0.bstate
          /\ k1.ticks = k0.ticks /\ k1.fault = k0.fault /\ SameSched(k0, k1) /\ k1.list = ls
          /\ k1.tsPrio = k0.tsPrio /\ k1.tsNode = n
      BY <1>1, <1>4 DEF KernelState, SameSched
    <3> HIDE DEF m
    <3>3. QED
      BY <1>4, <2>2, <3>1, <3>2 DEF KernelState, SameSched
  <2>3. QED
    BY <2>1, <2>2
<1>8. Unique(r)
  <2>1. \A l \in List : IsInjective(ls[l])
    <3>1. k1.list = ls
      BY DEF ls
    <3>2. QED
      BY <1>4, <3>1 DEF Unique
  <2>2. \A i \in DOMAIN k0.ticks : IsInjective(k0.ticks[i].tasks)
    BY DEF Lists, Unique
  <2>3. QED
    BY <1>7, <2>1, <2>2 DEF Unique
<1>9. QueuesReady(r)
  BY <1>4, <1>7, ListNames DEF Lists, QueuesReady
<1>10. WaitersBlocked(r)
  <2>1. \A u : TickLinked(r, u) <=> TickLinked(k0, u)
    BY <1>7 DEF TickLinked
  <2>2. QED
    <3>1. \A o \in Object : \A u \in ToSet(r.list[o]) : r.state[u] = "BLOCKING"
      BY <1>4, <1>7, ListNames DEF Lists, WaitersBlocked
    <3>2. \A u \in Task : TickLinked(r, u) => r.state[u] = "BLOCKING"
      BY <1>7, <2>1 DEF Lists, WaitersBlocked
    <3>3. ToSet(r.list[SysBlock]) \subseteq ToSet(k0.list[SysBlock])
      BY <1>4, <1>7, ListNames
    <3>4. QED
      BY <2>1, <3>1, <3>2, <3>3 DEF Lists, WaitersBlocked
<1>11. MapExact(r)
  <2>1. \A l \in List : /\ r.list[l] \in Seq(Task) /\ k0.list[l] \in Seq(Task)
                        /\ r.list[l] = <<>> <=> ToSet(r.list[l]) = {}
                        /\ k0.list[l] = <<>> <=> ToSet(k0.list[l]) = {}
    BY <1>6, TasksOfList, EmptySet
  <2>2. ASSUME NEW q \in Prio \ {p} PROVE r.list[q] = <<>> <=> k0.list[q] = <<>>
    <3>1. t \notin ToSet(k0.list[q])
      BY DEF Lists, QueuesReady
    <3>2. q \in List
      BY ListNames
    <3>3. ToSet(r.list[q]) = ToSet(k0.list[q])
      BY ZenonT(30), <1>4, <1>7, <3>1, <3>2
    <3>4. QED
      BY <2>1, <3>2, <3>3
  <2>3. r.list[p] # <<>> => k0.list[p] # <<>>
    BY <1>4, <1>6, <1>7, <2>1, ListNames
  <2>4. MapExact(k0)
    BY DEF Lists
  <2>5. QED
    BY <1>6, <1>7, <2>2, <2>3, <2>4, LessTask DEF h
<1>12. PositionKept(r)
  BY <1>1, <1>4, <1>7, ListNames DEF PositionKept
<1>13. \A u \in Task \ {t} : Untouched(k0, r, u)
  BY <1>4, <1>7 DEF Untouched, TickLinked
<1>14. QED
  BY <1>4, <1>6, <1>7, <1>8, <1>9, <1>10, <1>11, <1>12, <1>13 DEF OnlyTask, Lists, r

LEMMA UnlinkWaiterLists ==
  ASSUME NEW k0 \in KernelState, Lists(k0), NEW t \in Task, k0.state[t] = "BLOCKING"
  PROVE  LET k1 == UnlinkSlot(k0, t)
         IN /\ k1 \in KernelState /\ OnlyTask(k0, k1, t)
            /\ k1.prio = k0.prio /\ k1.state = k0.state /\ k1.bstate = k0.bstate
            /\ k1.ticks = k0.ticks /\ k1.map = k0.map /\ k1.high = k0.high
            /\ \A l \in List : ToSet(k1.list[l]) = ToSet(k0.list[l]) \ {t}
<1> DEFINE k1 == UnlinkSlot(k0, t)
<1>1. /\ k1 \in KernelState /\ Unique(k1)
      /\ \A l \in List : ToSet(k1.list[l]) = ToSet(k0.list[l]) \ {t}
      /\ k1 = [k0 EXCEPT !.list = k1.list]
  BY UnlinkSlotLists DEF Lists
<1> HIDE DEF k1
<1>2. /\ k1.prio = k0.prio /\ k1.state = k0.state /\ k1.bstate = k0.bstate
      /\ k1.ticks = k0.ticks /\ k1.fault = k0.fault /\ SameSched(k0, k1)
      /\ k1.tsPrio = k0.tsPrio /\ k1.tsNode = k0.tsNode /\ k1.map = k0.map /\ k1.high = k0.high
  <2> DEFINE ls == k1.list
  <2>1. k1 = [k0 EXCEPT !.list = ls]
    BY <1>1
  <2> HIDE DEF ls
  <2>2. QED
    BY <2>1 DEF KernelState, SameSched
<1>3. \A p \in Prio : t \notin ToSet(k0.list[p]) /\ ToSet(k1.list[p]) = ToSet(k0.list[p])
  <2>1. \A p \in Prio : t \notin ToSet(k0.list[p])
    BY DEF Lists, QueuesReady
  <2>2. QED
    BY <1>1, <2>1, ListNames
<1>4. QueuesReady(k1)
  BY <1>2, <1>3 DEF Lists, QueuesReady
<1>5. \A u : TickLinked(k1, u) <=> TickLinked(k0, u)
  BY <1>2 DEF TickLinked
<1>6. WaitersBlocked(k1)
  <2>1. \A o \in Object : \A u \in ToSet(k1.list[o]) : k1.state[u] = "BLOCKING"
    BY <1>1, <1>2, ListNames DEF Lists, WaitersBlocked
  <2>2. \A u \in Task : TickLinked(k1, u) => k1.state[u] = "BLOCKING"
    BY <1>2, <1>5 DEF Lists, WaitersBlocked
  <2>3. ToSet(k1.list[SysBlock]) \subseteq ToSet(k0.list[SysBlock])
    BY <1>1, ListNames
  <2>4. QED
    BY <1>5, <2>1, <2>2, <2>3 DEF Lists, WaitersBlocked
<1>7. MapExact(k1)
  <2>1. \A p \in Prio : k1.list[p] = <<>> <=> k0.list[p] = <<>>
    BY <1>1, <1>3, ListNames, TasksOfList, EmptySet
  <2>2. QED
    BY <1>2, <2>1 DEF Lists, MapExact
<1>8. PositionKept(k1)
  BY <1>2, <1>3 DEF Lists, PositionKept
<1>9. \A u \in Task \ {t} : Untouched(k0, k1, u)
  BY <1>1, <1>2, <1>5 DEF Untouched
<1>10. QED
  BY <1>1, <1>2, <1>4, <1>6, <1>7, <1>8, <1>9 DEF OnlyTask, Lists, k1

\* As long as no queue is occupied, the highest priority is the idle task's: it is
\* what the functions take the minimum of the occupied ones with.
HighStart(k0) == k0.map = {} => k0.high = MaxPrio

LEMMA AddTaskLists ==
  ASSUME NEW k0 \in KernelState, Lists(k0), HighStart(k0), NEW t \in Task,
         ~ SlotLinked(k0, t), ~ TickLinked(k0, t)
  PROVE  LET k1 == os_rq_add_task(k0, t)
         IN k0.state[t] # "READY" =>
              /\ k1 \in KernelState /\ OnlyTask(k0, k1, t) /\ k1.map # {}
              /\ k1.prio = k0.prio /\ k1.bstate = k0.bstate /\ k1.ticks = k0.ticks
              /\ k1.state[t] = "READY" /\ t \in ToSet(k1.list[k1.prio[t]])
<1> SUFFICES ASSUME k0.state[t] # "READY"
             PROVE  LET k1 == os_rq_add_task(k0, t)
                    IN /\ k1 \in KernelState /\ OnlyTask(k0, k1, t) /\ k1.map # {}
                       /\ k1.prio = k0.prio /\ k1.bstate = k0.bstate /\ k1.ticks = k0.ticks
                       /\ k1.state[t] = "READY" /\ t \in ToSet(k1.list[k1.prio[t]])
  OBVIOUS
<1> DEFINE p == k0.prio[t]
           q == k0.list[p]
           q1 == IF k0.cur = NULL \/ p < k0.prio[k0.cur] THEN <<t>> \o q ELSE Append(q, t)
           m1 == IF q = <<>> THEN k0.map \cup {p} ELSE k0.map
           h1 == IF q = <<>> /\ p < k0.high THEN p ELSE k0.high
           ls == [k0.list EXCEPT ![p] = q1]
           st == [k0.state EXCEPT ![t] = "READY"]
           k1 == os_rq_add_task(k0, t)
<1>1. p \in Prio /\ p \in List /\ q \in Seq(Task) /\ t \notin ToSet(q) /\ IsInjective(q)
  BY ListNames DEF KernelState, SlotLinked, Lists, Unique
<1>2. ToSet(q1) = ToSet(q) \cup {t} /\ IsInjective(q1)
  BY <1>1, EndsSeq
<1>3. /\ k1 \in KernelState
      /\ k1 = [k0 EXCEPT !.map = m1, !.high = h1, !.list = ls, !.state = st,
                        !.fault = k0.fault \/ SlotLinked(k0, t)]
  BY AddTaskType DEF os_rq_add_task
<1>q. q = k0.list[p]
  OBVIOUS
<1>l. ls = [k0.list EXCEPT ![p] = q1] /\ st = [k0.state EXCEPT ![t] = "READY"]
  OBVIOUS
<1>m. /\ m1 = IF q = <<>> THEN k0.map \cup {p} ELSE k0.map
      /\ h1 = IF q = <<>> /\ p < k0.high THEN p ELSE k0.high
  OBVIOUS
<1>p. p = k0.prio[t]
  OBVIOUS
<1>z. k1 = os_rq_add_task(k0, t)
  OBVIOUS
<1> HIDE DEF p, q, q1, m1, h1, ls, st, k1
<1>4. /\ k1.prio = k0.prio /\ k1.bstate = k0.bstate /\ k1.ticks = k0.ticks
      /\ k1.list = ls /\ k1.state = st /\ k1.map = m1 /\ k1.high = h1
      /\ k1.fault = k0.fault /\ SameSched(k0, k1)
      /\ k1.tsPrio = k0.tsPrio /\ k1.tsNode = k0.tsNode
  <2>1. /\ k1.prio = k0.prio /\ k1.bstate = k0.bstate /\ k1.ticks = k0.ticks
        /\ k1.list = ls /\ k1.state = st /\ k1.map = m1 /\ k1.high = h1
        /\ k1.fault = (k0.fault \/ SlotLinked(k0, t)) /\ SameSched(k0, k1)
        /\ k1.tsPrio = k0.tsPrio /\ k1.tsNode = k0.tsNode
    BY <1>3 DEF KernelState, SameSched
  <2>2. k0.fault = (k0.fault \/ SlotLinked(k0, t))
    BY DEF KernelState
  <2>3. QED
    BY <2>1, <2>2
<1>5. /\ \A l \in List \ {p} : k1.list[l] = k0.list[l]
      /\ k1.list[p] = q1
      /\ \A u \in Task \ {t} : k1.state[u] = k0.state[u]
      /\ k1.state[t] = "READY"
  BY <1>1, <1>4, <1>l DEF KernelState
<1>6. \A l \in List : ToSet(k1.list[l]) = IF l = p THEN ToSet(k0.list[l]) \cup {t}
                                          ELSE ToSet(k0.list[l])
  BY <1>2, <1>5, <1>q
<1>7. \A u : TickLinked(k1, u) <=> TickLinked(k0, u)
  BY <1>4 DEF TickLinked
<1>8. Unique(k1)
  <2>1. \A l \in List : IsInjective(k1.list[l])
    BY <1>2, <1>5 DEF Lists, Unique
  <2>2. QED
    BY <1>4, <2>1 DEF Lists, Unique
<1>9. QueuesReady(k1)
  <2>1. ASSUME NEW o \in Prio, NEW u \in ToSet(k1.list[o])
        PROVE  k1.prio[u] = o /\ k1.state[u] \in {"READY", "RUNNING"}
    <3>1. CASE u = t
      <4>1. o = p
        BY <1>6, <2>1, <3>1, ListNames DEF SlotLinked
      <4>2. QED
        BY <1>4, <1>5, <1>p, <3>1, <4>1
    <3>2. CASE u # t
      <4>1. u \in ToSet(k0.list[o]) /\ u \in Task
        BY <1>6, <2>1, <3>2, ListNames, TasksOfList
      <4>2. k0.prio[u] = o /\ k0.state[u] \in {"READY", "RUNNING"}
        BY <4>1 DEF Lists, QueuesReady
      <4>3. QED
        BY <1>4, <1>5, <3>2, <4>1, <4>2
    <3>3. QED
      BY <3>1, <3>2
  <2>2. QED
    BY <2>1 DEF QueuesReady
<1>10. WaitersBlocked(k1)
  <2>0. \A o \in Object : o \in List /\ o # p
    BY <1>1, ListNames, KernelAssumption
  <2>1. ASSUME NEW o \in Object, NEW u \in ToSet(k1.list[o]) PROVE k1.state[u] = "BLOCKING"
    <3>1. u \in ToSet(k0.list[o]) /\ u \in Task
      BY <1>6, <2>0, <2>1, TasksOfList
    <3>2. u # t
      BY <2>0, <3>1 DEF SlotLinked
    <3>3. QED
      BY <1>5, <3>1, <3>2 DEF Lists, WaitersBlocked
  <2>2. \A u \in Task : TickLinked(k1, u) => k1.state[u] = "BLOCKING"
    BY <1>5, <1>7 DEF Lists, WaitersBlocked
  <2>3. ToSet(k1.list[SysBlock]) = ToSet(k0.list[SysBlock])
    BY <1>6, <2>0, ListNames
  <2>4. QED
    BY <1>7, <2>1, <2>2, <2>3 DEF Lists, WaitersBlocked
<1>11. k1.list[p] # <<>>
  <2>1. k1.list[p] \in Seq(Task) /\ t \in ToSet(k1.list[p])
    BY ZenonT(30), <1>1, <1>3, <1>6 DEF KernelState
  <2>2. QED
    BY <2>1, EmptySet
<1>12. MapExact(k1) /\ k1.map # {}
  <2>1. k1.map = {o \in Prio : k1.list[o] # <<>>}
    <3>1. \A o \in Prio \ {p} : k1.list[o] = k0.list[o]
      BY <1>5, ListNames
    <3>2. k0.map = {o \in Prio : k0.list[o] # <<>>}
      BY DEF Lists, MapExact
    <3>3. k1.map = k0.map \cup {p}
      <4>1. CASE q = <<>>
        BY <1>4, <1>m, <4>1
      <4>2. CASE q # <<>>
        BY <1>1, <1>4, <1>m, <1>q, <3>2, <4>2
      <4>3. QED
        BY <4>1, <4>2
    <3>4. \A o \in Prio : o \in k1.map <=> k1.list[o] # <<>>
      BY <1>11, <3>1, <3>2, <3>3
    <3>5. k1.map \subseteq Prio
      BY <1>1, <3>2, <3>3
    <3>6. QED
      BY <3>4, <3>5
  <2>2. /\ k0.map # {} => k0.high \in k0.map /\ \A o \in k0.map : k0.high <= o
        /\ k0.map = {o \in Prio : k0.list[o] # <<>>} /\ p \in Nat /\ k0.high \in Nat
        /\ MaxPrio \in Nat /\ p <= MaxPrio /\ k0.map \subseteq Nat
    <3>1. k0.map # {} => k0.high \in k0.map /\ \A o \in k0.map : k0.high <= o
      BY DEF Lists, MapExact
    <3>2. k0.map = {o \in Prio : k0.list[o] # <<>>}
      BY DEF Lists, MapExact
    <3>3. k0.high \in Prio /\ k0.map \subseteq Prio
      BY DEF KernelState
    <3>4. \A o \in Prio : o \in Nat /\ o <= MaxPrio
      BY ListNames DEF Prio
    <3>5. QED
      BY <1>1, <3>1, <3>2, <3>3, <3>4, ListNames
  <2>3. k1.high \in k1.map /\ \A o \in k1.map : k1.high <= o
    <3>1. CASE q = <<>> /\ k0.map # {}
      BY <1>4, <1>m, <2>2, <3>1
    <3>2. CASE q = <<>> /\ k0.map = {}
      <4>1. k0.high = MaxPrio /\ m1 = {p} /\ p <= k0.high
        BY <1>m, <2>2, <3>2 DEF HighStart
      <4>2. h1 = p
        BY <1>m, <2>2, <3>2, <4>1
      <4>3. QED
        BY <1>4, <2>2, <4>1, <4>2
    <3>3. CASE q # <<>>
      <4>1. p \in k0.map /\ m1 = k0.map /\ h1 = k0.high
        BY <1>1, <1>m, <1>q, <2>2, <3>3
      <4>2. QED
        BY <1>4, <2>2, <4>1
    <3>4. QED
      BY <3>1, <3>2, <3>3
  <2>4. QED
    BY <2>1, <2>3 DEF MapExact
<1>13. PositionKept(k1)
  BY <1>4, <1>6, ListNames DEF Lists, PositionKept
<1>14. \A u \in Task \ {t} : Untouched(k0, k1, u)
  BY <1>4, <1>5, <1>6, <1>7 DEF Untouched
<1>15. t \in ToSet(k1.list[k1.prio[t]])
  BY <1>1, <1>4, <1>6, <1>p
<1>16. QED
  BY <1>3, <1>4, <1>5, <1>8, <1>9, <1>10, <1>12, <1>13, <1>14, <1>15, <1>z
  DEF OnlyTask, Lists

-----------------------------------------------------------------------------
(* The tick list.                                                          *)

OnNodes(s, u) == \E i \in DOMAIN s : u \in ToSet(s[i].tasks)
NodesUnique(s) == \A i \in DOMAIN s : IsInjective(s[i].tasks)

LEMMA BlockInsertSeq ==
  ASSUME NEW k0, NEW s \in Seq(Task), NEW t \in Task
  PROVE  /\ ToSet(BlockInsert(k0, s, t)) = ToSet(s) \cup {t}
         /\ IsInjective(s) /\ t \notin ToSet(s) => IsInjective(BlockInsert(k0, s, t))
<1> DEFINE j == BlockPosition(k0, s, k0.prio[t])
<1>1. j \in 1..(Len(s) + 1)
  BY BlockPlace
<1> HIDE DEF j
<1>2. /\ ToSet(InsertAt(s, j, t)) = ToSet(s) \cup {t}
      /\ IsInjective(s) /\ t \notin ToSet(s) => IsInjective(InsertAt(s, j, t))
  BY <1>1, InsertSeq
<1>3. QED
  BY <1>2 DEF BlockInsert, j

LEMMA WithoutInSeq ==
  ASSUME NEW s \in Seq(TickNode), NEW t, NodesUnique(s)
  PROVE  /\ NodesUnique(WithoutIn(s, t))
         /\ \A u : OnNodes(WithoutIn(s, t), u) <=> OnNodes(s, u) /\ u # t
<1> DEFINE r == WithoutIn(s, t)
<1>1. DOMAIN r = DOMAIN s
  BY DEF WithoutIn
<1>2. ASSUME NEW i \in DOMAIN s
      PROVE  IsInjective(r[i].tasks) /\ ToSet(r[i].tasks) = ToSet(s[i].tasks) \ {t}
  <2>1. s[i] \in TickNode
    OBVIOUS
  <2>2. s[i].tasks \in Seq(Task) /\ r[i].tasks = Without(s[i].tasks, t)
    BY <2>1 DEF WithoutIn, TickNode
  <2>3. QED
    BY <2>2, WithoutSeq DEF NodesUnique
<1> HIDE DEF r
<1>3. NodesUnique(r)
  BY <1>1, <1>2 DEF NodesUnique
<1>4. \A u : OnNodes(r, u) <=> OnNodes(s, u) /\ u # t
  BY <1>1, <1>2 DEF OnNodes
<1>5. QED
  BY <1>3, <1>4 DEF r

LEMMA TickJoinSeq ==
  ASSUME NEW k0 \in KernelState, NEW t \in Task, NEW i \in 1..Len(k0.ticks),
         NodesUnique(k0.ticks), ~ OnNodes(k0.ticks, t)
  PROVE  /\ NodesUnique(TickJoin(k0, i, t))
         /\ \A u : OnNodes(TickJoin(k0, i, t), u) <=> OnNodes(k0.ticks, u) \/ u = t
<1> DEFINE s == k0.ticks
           q == BlockInsert(k0, s[i].tasks, t)
           r == TickJoin(k0, i, t)
<1>1. s \in Seq(TickNode) /\ i \in DOMAIN s
  BY DEF KernelState
<1>2. s[i].tasks \in Seq(Task) /\ s[i] \in TickNode
  <2>1. s[i] \in TickNode
    BY <1>1
  <2>2. QED
    BY <2>1 DEF TickNode
<1>3. IsInjective(q) /\ ToSet(q) = ToSet(s[i].tasks) \cup {t}
  BY <1>1, <1>2, BlockInsertSeq DEF NodesUnique, OnNodes
<1>4. r = [s EXCEPT ![i] = [s[i] EXCEPT !.tasks = q]]
  BY DEF TickJoin
<1>s. s = k0.ticks
  OBVIOUS
<1> HIDE DEF q, r, s
<1>5. DOMAIN r = DOMAIN s /\ r[i].tasks = q /\ \A j \in DOMAIN s : j # i => r[j] = s[j]
  BY <1>1, <1>2, <1>4 DEF TickNode
<1>6. NodesUnique(r)
  BY <1>3, <1>5, <1>s DEF NodesUnique
<1>7. ASSUME NEW u PROVE OnNodes(r, u) <=> OnNodes(s, u) \/ u = t
  BY <1>1, <1>3, <1>5 DEF OnNodes
<1>8. QED
  BY <1>6, <1>7, <1>s DEF r

LEMMA TickSplitSeq ==
  ASSUME NEW k0 \in KernelState, NEW t \in Task, NEW n \in Count,
         NEW i \in 1..(Len(k0.ticks) + 1), NodesUnique(k0.ticks)
  PROVE  /\ NodesUnique(TickSplit(k0, i, t, n))
         /\ \A u : OnNodes(TickSplit(k0, i, t, n), u) <=> OnNodes(k0.ticks, u) \/ u = t
<1> DEFINE s == k0.ticks
           delta == (n - Expiry(s)[i - 1]) % Wrap
           less(j) == [s[j] EXCEPT !.cnt = (s[j].cnt - delta) % Wrap]
           later == [j \in DOMAIN s |-> IF j = i THEN less(j) ELSE s[j]]
           node == [cnt |-> delta, tasks |-> <<t>>]
           r == TickSplit(k0, i, t, n)
           S == {later[j] : j \in DOMAIN s} \cup {node}
<1>1. s \in Seq(TickNode)
  BY DEF KernelState
<1>2. r = InsertAt(later, i, node)
  BY DEF TickSplit
<1>s. s = k0.ticks
  OBVIOUS
<1> HIDE DEF s, delta, r
<1>3. \A j \in DOMAIN s : less(j).tasks = s[j].tasks
  BY <1>1 DEF TickNode
<1> HIDE DEF less
<1>4. /\ later \in Seq(S) /\ Len(later) = Len(s) /\ DOMAIN later = DOMAIN s
      /\ \A j \in DOMAIN s : later[j].tasks = s[j].tasks
  <2>0. DOMAIN s = 1..Len(s)
    BY <1>1
  <2>1. later = [j \in 1..Len(s) |-> later[j]] /\ Len(s) \in Nat
    BY <1>1, <2>0
  <2>2. \A j \in 1..Len(s) : later[j] \in S
    BY <2>0
  <2>3. \A j \in DOMAIN s : later[j].tasks = s[j].tasks
    BY <1>3
  <2>4. DOMAIN later = DOMAIN s
    OBVIOUS
  <2> HIDE DEF later, S
  <2>5. QED
    BY <2>0, <2>1, <2>2, <2>3, <2>4, IsASeq
<1>5. node \in S /\ node.tasks = <<t>>
  OBVIOUS
<1> HIDE DEF later, node, S
<1>6. ToSet(r) = ToSet(later) \cup {node} /\ r \in Seq(S)
  <2>1. i \in 1..(Len(later) + 1)
    BY <1>4, <1>s
  <2>2. ToSet(InsertAt(later, i, node)) = ToSet(later) \cup {node}
    BY <1>4, <1>5, <2>1, InsertSeq
  <2>3. InsertAt(later, i, node) \in Seq(S)
    BY <1>4, <1>5, <2>1, SeqInsert
  <2>4. QED
    BY <1>2, <2>2, <2>3
<1>7. \A x : x \in ToSet(r) <=> \E j \in DOMAIN r : r[j] = x
  BY DEF ToSet
<1>8. \A x : x \in ToSet(later) <=> \E j \in DOMAIN s : later[j] = x
  BY <1>4 DEF ToSet
<1>9. IsInjective(<<t>>) /\ \A u : u \in ToSet(<<t>>) <=> u = t
  BY DEF IsInjective, ToSet
<1>10. NodesUnique(r)
  <2>1. ASSUME NEW j \in DOMAIN r PROVE IsInjective(r[j].tasks)
    <3>1. r[j] = node \/ \E x \in DOMAIN s : later[x] = r[j]
      BY <1>6, <1>7, <1>8
    <3>2. QED
      BY <1>4, <1>5, <1>9, <1>s, <3>1 DEF NodesUnique
  <2>2. QED
    BY <2>1 DEF NodesUnique
<1>11. ASSUME NEW u PROVE OnNodes(r, u) <=> OnNodes(s, u) \/ u = t
  <2>1. ASSUME NEW j \in DOMAIN r, u \in ToSet(r[j].tasks) PROVE OnNodes(s, u) \/ u = t
    <3>1. r[j] = node \/ \E x \in DOMAIN s : later[x] = r[j]
      BY <1>6, <1>7, <1>8
    <3>2. QED
      BY <1>4, <1>5, <1>9, <2>1, <3>1 DEF OnNodes
  <2>2. ASSUME NEW j \in DOMAIN s, u \in ToSet(s[j].tasks) PROVE OnNodes(r, u)
    <3>1. PICK x \in DOMAIN r : r[x] = later[j]
      BY <1>6, <1>7, <1>8
    <3>2. QED
      BY <1>4, <2>2, <3>1 DEF OnNodes
  <2>3. ASSUME u = t PROVE OnNodes(r, u)
    <3>1. PICK x \in DOMAIN r : r[x] = node
      BY <1>6, <1>7
    <3>2. QED
      BY <1>5, <1>9, <2>3, <3>1 DEF OnNodes
  <2>4. QED
    BY <2>1, <2>2, <2>3 DEF OnNodes
<1>12. QED
  BY <1>10, <1>11, <1>s DEF r

-----------------------------------------------------------------------------
(* The operators of os_block.c, os_tick.c and os_core.c.                   *)

\* The lists stay as they are when at most a task less waits for a tick.
LEMMA SameLists ==
  ASSUME NEW k0, NEW k1, Lists(k0), NodesUnique(k1.ticks),
         \A u \in Task : OnNodes(k1.ticks, u) => OnNodes(k0.ticks, u),
         k0.list \in [List -> Seq(Task)],
         k1.list = k0.list, k1.prio = k0.prio, k1.state = k0.state, k1.map = k0.map,
         k1.high = k0.high, k1.tsPrio = k0.tsPrio, k1.tsNode = k0.tsNode
  PROVE  Lists(k1)
<1>1. \A u \in Task : TickLinked(k1, u) => TickLinked(k0, u)
  BY DEF OnNodes, TickLinked
<1>2. Unique(k1)
  BY DEF Lists, Unique, NodesUnique
<1>3. QueuesReady(k1) /\ MapExact(k1) /\ PositionKept(k1)
  BY DEF Lists, QueuesReady, MapExact, PositionKept
<1>4. WaitersBlocked(k1)
  <2>1. ToSet(k1.list[SysBlock]) \subseteq Task
    <3>1. k1.list[SysBlock] \in Seq(Task)
      BY ListNames
    <3>2. QED
      BY <3>1 DEF ToSet
  <2>2. QED
    BY <1>1, <2>1 DEF Lists, WaitersBlocked
<1>5. QED
  BY <1>2, <1>3, <1>4 DEF Lists

LEMMA NodesOfLists ==
  ASSUME NEW k0, Lists(k0)
  PROVE  NodesUnique(k0.ticks) /\ \A u : OnNodes(k0.ticks, u) <=> TickLinked(k0, u)
BY DEF Lists, Unique, NodesUnique, OnNodes, TickLinked

LEMMA SetBState ==
  ASSUME NEW k0 \in KernelState, Lists(k0), NEW t \in Task, NEW b \in BlockState
  PROVE  LET k1 == [k0 EXCEPT !.bstate[t] = b]
         IN /\ k1 \in KernelState /\ OnlyTask(k0, k1, t) /\ k1.bstate[t] = b
            /\ k1.prio = k0.prio /\ k1.state = k0.state /\ k1.list = k0.list
            /\ k1.ticks = k0.ticks /\ k1.map = k0.map /\ k1.high = k0.high
<1> DEFINE bs == [k0.bstate EXCEPT ![t] = b]
           k1 == [k0 EXCEPT !.bstate = bs]
<1>1. bs \in [Task -> BlockState] /\ bs[t] = b /\ \A u \in Task \ {t} : bs[u] = k0.bstate[u]
  BY DEF KernelState
<1> HIDE DEF bs
<1>2. /\ k1 \in KernelState /\ k1.bstate = bs /\ SameSched(k0, k1) /\ k1.fault = k0.fault
      /\ k1.list = k0.list /\ k1.prio = k0.prio /\ k1.state = k0.state /\ k1.map = k0.map
      /\ k1.high = k0.high /\ k1.tsPrio = k0.tsPrio /\ k1.tsNode = k0.tsNode
      /\ k1.ticks = k0.ticks /\ k0.list \in [List -> Seq(Task)]
  BY <1>1 DEF KernelState, SameSched
<1>3. k1 = [k0 EXCEPT !.bstate[t] = b]
  BY DEF bs
<1> HIDE DEF k1
<1>4. Lists(k1)
  BY <1>2, SameLists, NodesOfLists
<1>5. \A u \in Task \ {t} : Untouched(k0, k1, u)
  BY <1>1, <1>2 DEF Untouched, TickLinked
<1>6. QED
  BY <1>1, <1>2, <1>3, <1>4, <1>5 DEF OnlyTask

LEMMA UnlinkTickLists ==
  ASSUME NEW k0 \in KernelState, Lists(k0), NEW t \in Task
  PROVE  LET k1 == UnlinkTick(k0, t)
         IN /\ k1 \in KernelState /\ OnlyTask(k0, k1, t) /\ ~ TickLinked(k1, t)
            /\ k1.prio = k0.prio /\ k1.state = k0.state /\ k1.list = k0.list
            /\ k1.bstate = k0.bstate /\ k1.map = k0.map /\ k1.high = k0.high
<1> DEFINE tk == WithoutIn(k0.ticks, t)
           k1 == UnlinkTick(k0, t)
<1>1. k1 = [k0 EXCEPT !.ticks = tk] /\ k1 \in KernelState
  BY UnlinkTickType DEF UnlinkTick
<1>2. NodesUnique(tk) /\ \A u : OnNodes(tk, u) <=> OnNodes(k0.ticks, u) /\ u # t
  <2>1. k0.ticks \in Seq(TickNode)
    BY DEF KernelState
  <2>2. QED
    BY <2>1, NodesOfLists, WithoutInSeq
<1> HIDE DEF tk, k1
<1>3. /\ SameSched(k0, k1) /\ k1.fault = k0.fault
      /\ k1.list = k0.list /\ k1.prio = k0.prio /\ k1.state = k0.state /\ k1.map = k0.map
      /\ k1.high = k0.high /\ k1.tsPrio = k0.tsPrio /\ k1.tsNode = k0.tsNode
      /\ k1.bstate = k0.bstate /\ k1.ticks = tk /\ k0.list \in [List -> Seq(Task)]
  BY <1>1 DEF KernelState, SameSched
<1>4. Lists(k1)
  BY <1>2, <1>3, SameLists
<1>5. \A u : TickLinked(k1, u) <=> TickLinked(k0, u) /\ u # t
  BY <1>2, <1>3, <1>4, NodesOfLists
<1>6. \A u \in Task \ {t} : Untouched(k0, k1, u)
  BY <1>3, <1>5 DEF Untouched
<1>7. QED
  BY <1>1, <1>3, <1>4, <1>5, <1>6 DEF OnlyTask, k1

LEMMA AddBlockLists ==
  ASSUME NEW k0 \in KernelState, Lists(k0), NEW t \in Task, NEW obj \in Object,
         obj = SysBlock => ~ TickLinked(k0, t)
  PROVE  LET k1 == os_add_block_task(k0, t, obj)
         IN /\ k1 \in KernelState /\ OnlyTask(k0, k1, t)
            /\ k1.prio = k0.prio /\ k1.bstate = k0.bstate /\ k1.ticks = k0.ticks
            /\ k1.state[t] = "BLOCKING" /\ t \in ToSet(k1.list[obj])
            /\ \A p \in Prio : t \notin ToSet(k1.list[p])
<1> DEFINE kc == os_rq_del_task(k0, t)
           q  == BlockInsert(k0, kc.list[obj], t)
           ls == [kc.list EXCEPT ![obj] = q]
           st == [kc.state EXCEPT ![t] = "BLOCKING"]
           f1 == kc.fault \/ SlotLinked(kc, t)
           k1 == os_add_block_task(k0, t, obj)
<1>1. /\ kc \in KernelState /\ OnlyTask(k0, kc, t)
      /\ kc.prio = k0.prio /\ kc.state = k0.state /\ kc.bstate = k0.bstate /\ kc.ticks = k0.ticks
      /\ \A l \in List : ToSet(kc.list[l]) = ToSet(k0.list[l]) \ {t}
  BY DelTaskLists
<1>2. /\ k1 \in KernelState /\ k1 = [kc EXCEPT !.list = ls, !.state = st, !.fault = f1]
  <2>1. k1 = [kc EXCEPT !.list = ls, !.state = st, !.fault = f1]
    BY DEF os_add_block_task
  <2>2. QED
    BY <2>1, AddBlockType
<1>a. /\ ls = [kc.list EXCEPT ![obj] = q] /\ st = [kc.state EXCEPT ![t] = "BLOCKING"]
      /\ f1 = (kc.fault \/ SlotLinked(kc, t))
      /\ q = BlockInsert(k0, kc.list[obj], t)
  OBVIOUS
<1> HIDE DEF kc, q, ls, st, f1, k1
<1>3. ToSet(q) = ToSet(k0.list[obj]) \cup {t} /\ IsInjective(q) /\ obj \in List /\ obj \notin Prio
  <2>1. kc.list[obj] \in Seq(Task) /\ IsInjective(kc.list[obj]) /\ obj \in List
        /\ obj \notin Prio
    <3>1. obj \in List /\ obj \notin Prio
      BY ListNames, KernelAssumption
    <3>2. kc.list[obj] \in Seq(Task)
      BY <1>1, <3>1, TasksOfList
    <3>3. IsInjective(kc.list[obj])
      BY <1>1, <3>1 DEF OnlyTask, Lists, Unique
    <3>4. QED
      BY <3>1, <3>2, <3>3
  <2>2. t \notin ToSet(kc.list[obj]) /\ ToSet(kc.list[obj]) = ToSet(k0.list[obj]) \ {t}
    BY <1>1, <2>1
  <2>3. ToSet(q) = ToSet(kc.list[obj]) \cup {t} /\ IsInjective(q)
    <3> DEFINE s == kc.list[obj]
    <3>1. s \in Seq(Task) /\ IsInjective(s) /\ t \notin ToSet(s) /\ q = BlockInsert(k0, s, t)
      BY <1>a, <2>1, <2>2
    <3> HIDE DEF s
    <3>2. ToSet(q) = ToSet(s) \cup {t} /\ IsInjective(q)
      BY <3>1, BlockInsertSeq
    <3>3. QED
      BY <3>2 DEF s
  <2>4. QED
    BY <2>1, <2>2, <2>3
<1>4. f1 = k0.fault
  <2>1. kc.fault = k0.fault /\ ~ SlotLinked(kc, t) /\ k0.fault \in BOOLEAN
    BY <1>1 DEF OnlyTask, SlotLinked, KernelState
  <2>2. QED
    BY <1>a, <2>1
<1>5. /\ k1.list = ls /\ k1.state = st /\ k1.fault = k0.fault /\ SameSched(k0, k1)
      /\ k1.prio = k0.prio /\ k1.bstate = k0.bstate /\ k1.ticks = k0.ticks
      /\ k1.map = kc.map /\ k1.high = kc.high
      /\ k1.tsPrio = kc.tsPrio /\ k1.tsNode = kc.tsNode
  BY <1>1, <1>2, <1>4 DEF KernelState, SameSched, OnlyTask
<1>6. /\ \A l \in List : /\ IsInjective(k1.list[l])
                         /\ l # obj => k1.list[l] = kc.list[l]
                         /\ ToSet(k1.list[l]) = IF l = obj THEN ToSet(k0.list[l]) \cup {t}
                                                ELSE ToSet(k0.list[l]) \ {t}
      /\ k1.state[t] = "BLOCKING" /\ \A u \in Task \ {t} : k1.state[u] = k0.state[u]
  <2>1. k1.list[obj] = q /\ \A l \in List : l # obj => k1.list[l] = kc.list[l]
    BY <1>1, <1>3, <1>5, <1>a DEF KernelState
  <2>2. k1.state[t] = "BLOCKING" /\ \A u \in Task \ {t} : k1.state[u] = k0.state[u]
    BY <1>1, <1>5, <1>a DEF KernelState
  <2>3. ASSUME NEW l \in List
        PROVE  /\ IsInjective(k1.list[l])
               /\ l # obj => k1.list[l] = kc.list[l]
               /\ ToSet(k1.list[l]) = IF l = obj THEN ToSet(k0.list[l]) \cup {t}
                                      ELSE ToSet(k0.list[l]) \ {t}
    <3>1. IsInjective(kc.list[l])
      BY <1>1 DEF OnlyTask, Lists, Unique
    <3>2. QED
      BY <1>1, <1>3, <2>1, <3>1
  <2>4. QED
    BY <2>2, <2>3
<1>7. \A u : TickLinked(k1, u) <=> TickLinked(k0, u)
  BY <1>5 DEF TickLinked
<1>8. Unique(k1)
  BY <1>5, <1>6 DEF Lists, Unique
<1>9. QueuesReady(k1)
  <2>1. ASSUME NEW p \in Prio, NEW u \in ToSet(k1.list[p])
        PROVE  k1.prio[u] = p /\ k1.state[u] \in {"READY", "RUNNING"}
    <3>0. p \in List /\ p # obj
      BY <1>3, ListNames
    <3>1. u \in ToSet(k0.list[p]) /\ u # t /\ u \in Task
      BY <1>6, <2>1, <3>0, TasksOfList
    <3>2. QED
      BY <1>5, <1>6, <3>1 DEF Lists, QueuesReady
  <2>2. QED
    BY <2>1 DEF QueuesReady
<1>10. WaitersBlocked(k1)
  <2>1. ASSUME NEW o \in Object, NEW u \in ToSet(k1.list[o]) PROVE k1.state[u] = "BLOCKING"
    <3>1. u = t \/ (u \in ToSet(k0.list[o]) /\ u \in Task)
      BY ZenonT(30), <1>6, <2>1, ListNames, TasksOfList
    <3>2. QED
      BY <1>6, <3>1 DEF Lists, WaitersBlocked
  <2>2. \A u \in Task : TickLinked(k1, u) => k1.state[u] = "BLOCKING"
    BY <1>6, <1>7 DEF Lists, WaitersBlocked
  <2>3. ASSUME NEW u \in ToSet(k1.list[SysBlock]) PROVE ~ TickLinked(k1, u)
    <3>1. u \in ToSet(k0.list[SysBlock]) \/ (obj = SysBlock /\ u = t)
      BY <1>6, <2>3, ListNames
    <3>2. QED
      BY <1>7, <3>1 DEF Lists, WaitersBlocked
  <2>4. QED
    BY <2>1, <2>2, <2>3 DEF WaitersBlocked
<1>11. \A p \in Prio : p \in List /\ p # obj /\ k1.list[p] = kc.list[p]
  BY <1>3, <1>6, ListNames
<1>12. MapExact(k1) /\ PositionKept(k1)
  BY <1>1, <1>5, <1>11 DEF OnlyTask, Lists, MapExact, PositionKept
<1>13. \A u \in Task \ {t} : Untouched(k0, k1, u)
  BY <1>5, <1>6, <1>7 DEF Untouched
<1>14. t \in ToSet(k1.list[obj]) /\ \A p \in Prio : t \notin ToSet(k1.list[p])
  BY <1>3, <1>6, <1>11
<1>15. QED
  BY <1>2, <1>5, <1>6, <1>8, <1>9, <1>10, <1>12, <1>13, <1>14 DEF OnlyTask, Lists, k1

LEMMA AddNodeLists ==
  ASSUME NEW k0 \in KernelState, Lists(k0), NEW t \in Task, NEW n \in Count,
         ~ TickLinked(k0, t)
  PROVE  LET k1 == os_tick_add_node(k0, t, n)
         IN /\ k1 \in KernelState /\ OnlyTask(k0, k1, t) /\ k1.prio = k0.prio
            /\ k1.state[t] = "BLOCKING" /\ k1.bstate[t] = "TICKING" /\ TickLinked(k1, t)
            /\ \A l \in List : t \notin ToSet(k1.list[l])
<1> DEFINE i  == TickPosition(k0.ticks, n)
           ka == [k0 EXCEPT !.bstate[t] = "TICKING"]
           kc == os_rq_del_task(ka, t)
           st == [kc.state EXCEPT ![t] = "BLOCKING"]
           f1 == kc.fault \/ TickLinked(k0, t)
           tk == IF i <= Len(k0.ticks) /\ Expiry(k0.ticks)[i] = n
                   THEN TickJoin(k0, i, t) ELSE TickSplit(k0, i, t, n)
           k1 == os_tick_add_node(k0, t, n)
<1>0. /\ ka \in KernelState /\ OnlyTask(k0, ka, t) /\ ka.bstate[t] = "TICKING"
      /\ ka.prio = k0.prio /\ ka.state = k0.state /\ ka.list = k0.list /\ ka.ticks = k0.ticks
  <2>1. "TICKING" \in BlockState
    BY DEF BlockState
  <2>2. QED
    BY <2>1, SetBState
<1>1. /\ kc \in KernelState /\ OnlyTask(ka, kc, t)
      /\ kc.prio = k0.prio /\ kc.state = k0.state /\ kc.bstate = ka.bstate /\ kc.ticks = k0.ticks
      /\ \A l \in List : ToSet(kc.list[l]) = ToSet(k0.list[l]) \ {t}
  <2> HIDE DEF ka
  <2>1. Lists(ka)
    BY <1>0 DEF OnlyTask
  <2>2. QED
    BY <1>0, <2>1, DelTaskLists
<1>2. k1 \in KernelState /\ k1 = [kc EXCEPT !.state = st, !.fault = f1, !.ticks = tk]
  BY AddNodeType DEF os_tick_add_node
<1>3. NodesUnique(tk) /\ \A u : OnNodes(tk, u) <=> TickLinked(k0, u) \/ u = t
  <2>1. i \in 1..(Len(k0.ticks) + 1) /\ Len(k0.ticks) \in Nat
    BY TickPositionType DEF KernelState
  <2> HIDE DEF i
  <2>2. NodesUnique(k0.ticks) /\ \A u : OnNodes(k0.ticks, u) <=> TickLinked(k0, u)
    BY NodesOfLists
  <2>3. /\ NodesUnique(TickSplit(k0, i, t, n))
        /\ \A u : OnNodes(TickSplit(k0, i, t, n), u) <=> OnNodes(k0.ticks, u) \/ u = t
    BY <2>1, <2>2, TickSplitSeq
  <2>4. i <= Len(k0.ticks) =>
          /\ NodesUnique(TickJoin(k0, i, t))
          /\ \A u : OnNodes(TickJoin(k0, i, t), u) <=> OnNodes(k0.ticks, u) \/ u = t
    BY <2>1, <2>2, TickJoinSeq
  <2>5. QED
    BY <2>2, <2>3, <2>4
<1>a. st = [kc.state EXCEPT ![t] = "BLOCKING"] /\ f1 = (kc.fault \/ TickLinked(k0, t))
  OBVIOUS
<1> HIDE DEF i, ka, kc, st, f1, tk, k1
<1>4. OnlyTask(k0, kc, t)
  BY <1>0, <1>1, OnlyTaskTwice
<1>5. /\ k1.list = kc.list /\ k1.state = st /\ k1.fault = k0.fault /\ SameSched(k0, k1)
      /\ k1.prio = k0.prio /\ k1.bstate = ka.bstate /\ k1.ticks = tk
      /\ k1.map = kc.map /\ k1.high = kc.high
      /\ k1.tsPrio = kc.tsPrio /\ k1.tsNode = kc.tsNode
  <2>1. f1 = k0.fault
    BY <1>4, <1>a DEF OnlyTask, KernelState
  <2>2. QED
    BY <1>1, <1>2, <1>4, <2>1 DEF KernelState, SameSched, OnlyTask
<1>6. k1.state[t] = "BLOCKING" /\ \A u \in Task \ {t} : k1.state[u] = k0.state[u]
  BY <1>1, <1>5, <1>a DEF KernelState
<1>7. Unique(k1) /\ \A u : TickLinked(k1, u) <=> TickLinked(k0, u) \/ u = t
  BY <1>1, <1>3, <1>4, <1>5 DEF OnlyTask, Lists, Unique, NodesUnique, OnNodes, TickLinked
<1>8. \A l \in List : ToSet(k1.list[l]) = ToSet(k0.list[l]) \ {t} /\ ToSet(k0.list[l]) \subseteq Task
  BY <1>1, <1>5, TasksOfList
<1>9. QueuesReady(k1)
  BY <1>5, <1>6, <1>8, ListNames DEF Lists, QueuesReady
<1>10. WaitersBlocked(k1)
  <2>1. \A o \in Object : \A u \in ToSet(k1.list[o]) : k1.state[u] = "BLOCKING"
    BY <1>6, <1>8, ListNames DEF Lists, WaitersBlocked
  <2>2. \A u \in Task : TickLinked(k1, u) => k1.state[u] = "BLOCKING"
    BY <1>6, <1>7 DEF Lists, WaitersBlocked
  <2>3. \A u \in ToSet(k1.list[SysBlock]) : ~ TickLinked(k1, u)
    BY <1>7, <1>8, ListNames DEF Lists, WaitersBlocked
  <2>4. QED
    BY <2>1, <2>2, <2>3 DEF WaitersBlocked
<1>11. MapExact(k1) /\ PositionKept(k1)
  BY <1>4, <1>5 DEF OnlyTask, Lists, MapExact, PositionKept
<1>12. \A u \in Task \ {t} : Untouched(k0, k1, u)
  BY <1>4, <1>5, <1>6, <1>7, <1>8, <1>1 DEF Untouched, OnlyTask
<1>13. QED
  BY <1>0, <1>2, <1>5, <1>6, <1>7, <1>8, <1>9, <1>10, <1>11, <1>12 DEF OnlyTask, Lists, k1

\* A wait ends for a task that is on no tick node any more.
LEMMA EndWaitLists ==
  ASSUME NEW k0 \in KernelState, Lists(k0), HighStart(k0), NEW t \in Task,
         k0.state[t] = "BLOCKING", ~ TickLinked(k0, t), NEW why \in BlockState
  PROVE  LET k1 == EndWait(k0, t, why)
         IN /\ k1 \in KernelState /\ OnlyTask(k0, k1, t) /\ k1.map # {}
            /\ k1.prio = k0.prio /\ k1.ticks = k0.ticks /\ k1.bstate[t] = why
            /\ k1.state[t] = "READY" /\ t \in ToSet(k1.list[k1.prio[t]])
<1> DEFINE ka == [k0 EXCEPT !.bstate[t] = why]
           kb == UnlinkSlot(ka, t)
           k1 == os_rq_add_task(kb, t)
<1>1. /\ ka \in KernelState /\ OnlyTask(k0, ka, t) /\ ka.bstate[t] = why
      /\ ka.prio = k0.prio /\ ka.state = k0.state /\ ka.ticks = k0.ticks
      /\ ka.map = k0.map /\ ka.high = k0.high
  BY SetBState
<1> HIDE DEF ka
<1>2. Lists(ka) /\ ka.state[t] = "BLOCKING"
  BY <1>1 DEF OnlyTask
<1>3. /\ kb \in KernelState /\ OnlyTask(ka, kb, t)
      /\ kb.prio = ka.prio /\ kb.state = ka.state /\ kb.bstate = ka.bstate
      /\ kb.ticks = ka.ticks /\ kb.map = ka.map /\ kb.high = ka.high
      /\ \A l \in List : ToSet(kb.list[l]) = ToSet(ka.list[l]) \ {t}
  BY <1>1, <1>2, UnlinkWaiterLists
<1> HIDE DEF kb
<1>4. /\ Lists(kb) /\ HighStart(kb) /\ ~ SlotLinked(kb, t) /\ ~ TickLinked(kb, t)
      /\ kb.state[t] # "READY"
  BY <1>1, <1>2, <1>3 DEF OnlyTask, HighStart, SlotLinked, TickLinked
<1>5. /\ k1 \in KernelState /\ OnlyTask(kb, k1, t) /\ k1.map # {}
      /\ k1.prio = kb.prio /\ k1.bstate = kb.bstate /\ k1.ticks = kb.ticks
      /\ k1.state[t] = "READY" /\ t \in ToSet(k1.list[k1.prio[t]])
  BY <1>3, <1>4, AddTaskLists
<1>6. EndWait(k0, t, why) = k1
  BY DEF EndWait, ka, kb
<1> HIDE DEF k1
<1>7. OnlyTask(k0, k1, t)
  BY <1>1, <1>3, <1>5, OnlyTaskTwice
<1>8. QED
  BY <1>1, <1>3, <1>5, <1>6, <1>7

\* The body of os_wakeup_tick_task and a round of __os_tick_del_all_task.
LEMMA EndTickLists ==
  ASSUME NEW k0 \in KernelState, Lists(k0), HighStart(k0), NEW t \in Task,
         TickLinked(k0, t), NEW why \in BlockState
  PROVE  LET k1 == EndWait(UnlinkTick(k0, t), t, why)
         IN /\ k1 \in KernelState /\ OnlyTask(k0, k1, t) /\ k1.map # {}
            /\ k1.prio = k0.prio /\ ~ TickLinked(k1, t) /\ k1.bstate[t] = why
            /\ k1.state[t] = "READY" /\ t \in ToSet(k1.list[k1.prio[t]])
<1> DEFINE ka == UnlinkTick(k0, t)
           k1 == EndWait(ka, t, why)
<1>1. /\ ka \in KernelState /\ OnlyTask(k0, ka, t) /\ ~ TickLinked(ka, t)
      /\ ka.prio = k0.prio /\ ka.state = k0.state /\ ka.map = k0.map /\ ka.high = k0.high
  BY UnlinkTickLists
<1> HIDE DEF ka
<1>2. Lists(ka) /\ HighStart(ka) /\ ka.state[t] = "BLOCKING"
  BY <1>1 DEF OnlyTask, HighStart, Lists, WaitersBlocked
<1>3. /\ k1 \in KernelState /\ OnlyTask(ka, k1, t) /\ k1.map # {}
      /\ k1.prio = ka.prio /\ k1.ticks = ka.ticks /\ k1.bstate[t] = why
      /\ k1.state[t] = "READY" /\ t \in ToSet(k1.list[k1.prio[t]])
  BY <1>1, <1>2, EndWaitLists
<1> HIDE DEF k1
<1>4. OnlyTask(k0, k1, t) /\ ~ TickLinked(k1, t)
  BY <1>1, <1>3, OnlyTaskTwice DEF TickLinked
<1>5. QED
  BY <1>1, <1>3, <1>4 DEF k1, ka

\* os_task_resume takes a suspended task out of _owned_sys_block.
LEMMA ResumeLists ==
  ASSUME NEW k0 \in KernelState, Lists(k0), HighStart(k0),
         NEW t \in Task, t \in ToSet(k0.list[SysBlock])
  PROVE  LET k1 == os_rq_add_task(UnlinkSlot(k0, t), t)
         IN /\ k1 \in KernelState /\ OnlyTask(k0, k1, t) /\ k1.map # {}
            /\ k1.prio = k0.prio /\ k1.bstate = k0.bstate /\ ~ TickLinked(k1, t)
            /\ k1.state[t] = "READY" /\ t \in ToSet(k1.list[k1.prio[t]])
<1> DEFINE kb == UnlinkSlot(k0, t)
           k1 == os_rq_add_task(kb, t)
<1>1. k0.state[t] = "BLOCKING" /\ ~ TickLinked(k0, t)
  BY ListNames DEF Lists, WaitersBlocked
<1>2. /\ kb \in KernelState /\ OnlyTask(k0, kb, t)
      /\ kb.prio = k0.prio /\ kb.state = k0.state /\ kb.bstate = k0.bstate
      /\ kb.ticks = k0.ticks /\ kb.map = k0.map /\ kb.high = k0.high
      /\ \A l \in List : ToSet(kb.list[l]) = ToSet(k0.list[l]) \ {t}
  BY <1>1, UnlinkWaiterLists
<1> HIDE DEF kb
<1>3. /\ Lists(kb) /\ HighStart(kb) /\ ~ SlotLinked(kb, t) /\ ~ TickLinked(kb, t)
      /\ kb.state[t] # "READY"
  BY <1>1, <1>2 DEF OnlyTask, HighStart, SlotLinked, TickLinked
<1>4. /\ k1 \in KernelState /\ OnlyTask(kb, k1, t) /\ k1.map # {}
      /\ k1.prio = kb.prio /\ k1.bstate = kb.bstate /\ k1.ticks = kb.ticks
      /\ k1.state[t] = "READY" /\ t \in ToSet(k1.list[k1.prio[t]])
  BY <1>2, <1>3, AddTaskLists
<1> HIDE DEF k1
<1>5. OnlyTask(k0, k1, t) /\ ~ TickLinked(k1, t)
  BY <1>2, <1>3, <1>4, OnlyTaskTwice DEF TickLinked
<1>6. QED
  BY <1>2, <1>4, <1>5 DEF k1, kb

\* A control block that has not been used is in no list.
LEMMA CreateLists ==
  ASSUME NEW k0 \in KernelState, Lists(k0), HighStart(k0),
         NEW t \in Task, k0.state[t] = "NONE", NEW p \in Prio
  PROVE  LET k1 == os_task_create(k0, t, p)
         IN /\ k1 \in KernelState /\ OnlyTask(k0, k1, t) /\ k1.map # {}
            /\ ~ TickLinked(k1, t) /\ k1.bstate = k0.bstate
            /\ k1.state[t] = "READY" /\ t \in ToSet(k1.list[k1.prio[t]])
<1> DEFINE pr == [k0.prio EXCEPT ![t] = p]
           st == [k0.state EXCEPT ![t] = "NEW"]
           sl == [k0.slice EXCEPT ![t] = 0]
           ka == [k0 EXCEPT !.prio = pr, !.state = st, !.slice = sl]
           k1 == os_rq_add_task(ka, t)
<1>1. ~ SlotLinked(k0, t) /\ ~ TickLinked(k0, t)
  BY DEF SlotLinked, List, Lists, QueuesReady, WaitersBlocked
<1>2. /\ \A u \in Task \ {t} : pr[u] = k0.prio[u] /\ st[u] = k0.state[u]
      /\ pr \in [Task -> Prio] /\ st \in [Task -> TaskState] /\ sl \in [Task -> Count]
      /\ st[t] = "NEW"
  BY ListNames DEF KernelState, TaskState
<1> HIDE DEF pr, st, sl
<1>3. /\ ka \in KernelState /\ SameSched(k0, ka) /\ ka.fault = k0.fault
      /\ ka.list = k0.list /\ ka.prio = pr /\ ka.state = st /\ ka.bstate = k0.bstate
      /\ ka.ticks = k0.ticks /\ ka.map = k0.map /\ ka.high = k0.high
      /\ ka.tsPrio = k0.tsPrio /\ ka.tsNode = k0.tsNode
  BY <1>2 DEF KernelState, SameSched
<1>4. os_task_create(k0, t, p) = k1
  BY DEF os_task_create, pr, st, sl
<1> HIDE DEF ka
<1>5. Lists(ka)
  <2>1. \A u : TickLinked(ka, u) <=> TickLinked(k0, u)
    BY <1>3 DEF TickLinked
  <2>2. \A l \in List : t \notin ToSet(k0.list[l]) /\ ToSet(k0.list[l]) \subseteq Task
    BY <1>1, TasksOfList DEF SlotLinked
  <2>3. Unique(ka) /\ MapExact(ka) /\ PositionKept(ka)
    BY <1>3 DEF Lists, Unique, MapExact, PositionKept
  <2>4. QueuesReady(ka)
    BY <1>2, <1>3, <2>2, ListNames DEF Lists, QueuesReady
  <2>5. \A o \in Object : \A u \in ToSet(ka.list[o]) : ka.state[u] = "BLOCKING"
    BY <1>2, <1>3, <2>2, ListNames DEF Lists, WaitersBlocked
  <2>6. \A u \in Task : TickLinked(ka, u) => ka.state[u] = "BLOCKING"
    BY <1>1, <1>2, <1>3, <2>1 DEF Lists, WaitersBlocked
  <2>7. \A u \in ToSet(ka.list[SysBlock]) : ~ TickLinked(ka, u)
    BY <1>3, <2>1 DEF Lists, WaitersBlocked
  <2>8. QED
    BY <2>3, <2>4, <2>5, <2>6, <2>7 DEF Lists, WaitersBlocked
<1>6. OnlyTask(k0, ka, t)
  BY <1>2, <1>3, <1>5 DEF OnlyTask, Untouched, TickLinked
<1>7. HighStart(ka) /\ ~ SlotLinked(ka, t) /\ ~ TickLinked(ka, t) /\ ka.state[t] # "READY"
  BY <1>1, <1>2, <1>3 DEF HighStart, SlotLinked, TickLinked
<1>8. /\ k1 \in KernelState /\ OnlyTask(ka, k1, t) /\ k1.map # {}
      /\ k1.prio = ka.prio /\ k1.bstate = ka.bstate /\ k1.ticks = ka.ticks
      /\ k1.state[t] = "READY" /\ t \in ToSet(k1.list[k1.prio[t]])
  BY <1>3, <1>5, <1>7, AddTaskLists
<1> HIDE DEF k1
<1>9. OnlyTask(k0, k1, t) /\ ~ TickLinked(k1, t)
  BY <1>6, <1>7, <1>8, OnlyTaskTwice DEF TickLinked
<1>10. QED
  BY <1>3, <1>4, <1>8, <1>9

-----------------------------------------------------------------------------
(* Ticks that are counted.                                                 *)

\* Counters and the tick nodes that no task is on may differ.
OnlyCounters(k0, k1) ==
  /\ Lists(k1) /\ SameSched(k0, k1) /\ k1.fault = k0.fault
  /\ k1.list = k0.list /\ k1.prio = k0.prio /\ k1.state = k0.state /\ k1.bstate = k0.bstate
  /\ k1.map = k0.map /\ k1.high = k0.high
  /\ \A u : TickLinked(k1, u) <=> TickLinked(k0, u)

LEMMA CountersOnlyTask ==
  ASSUME NEW k0, NEW k1, OnlyCounters(k0, k1), NEW t PROVE OnlyTask(k0, k1, t)
BY DEF OnlyCounters, OnlyTask, Untouched

LEMMA CountersTwice ==
  ASSUME NEW k0, NEW k1, NEW k2, OnlyCounters(k0, k1), OnlyCounters(k1, k2)
  PROVE  OnlyCounters(k0, k2)
BY DEF OnlyCounters, SameSched

\* The tick list changes and with it a counter: the tasks on it stay.
LEMMA NewTicks ==
  ASSUME NEW k0 \in KernelState, Lists(k0), NEW tk \in Seq(TickNode), NEW m \in Count,
         NodesUnique(tk), \A u : OnNodes(tk, u) <=> OnNodes(k0.ticks, u)
  PROVE  LET k1 == [k0 EXCEPT !.ticks = tk, !.tickMissed = m]
         IN k1 \in KernelState /\ k1.ticks = tk /\ OnlyCounters(k0, k1)
<1> DEFINE k1 == [k0 EXCEPT !.ticks = tk, !.tickMissed = m]
<1>1. /\ k1 \in KernelState /\ SameSched(k0, k1) /\ k1.fault = k0.fault
      /\ k1.list = k0.list /\ k1.prio = k0.prio /\ k1.state = k0.state /\ k1.bstate = k0.bstate
      /\ k1.map = k0.map /\ k1.high = k0.high /\ k1.ticks = tk
      /\ k1.tsPrio = k0.tsPrio /\ k1.tsNode = k0.tsNode /\ k0.list \in [List -> Seq(Task)]
  BY DEF KernelState, SameSched
<1> HIDE DEF k1
<1>2. Lists(k1)
  BY <1>1, SameLists
<1>3. \A u : TickLinked(k1, u) <=> TickLinked(k0, u)
  BY <1>1, <1>2, NodesOfLists
<1>4. QED
  BY <1>1, <1>2, <1>3 DEF OnlyCounters, k1

LEMMA TakeMissedLists ==
  ASSUME NEW k0 \in KernelState, Lists(k0), k0.ticks # <<>>, NEW c \in Count
  PROVE  TakeMissed(k0, c) \in KernelState /\ OnlyCounters(k0, TakeMissed(k0, c))
<1> DEFINE s == k0.ticks
           less(x) == [s EXCEPT ![1] = [s[1] EXCEPT !.cnt = x]]
<1>1. s \in Seq(TickNode) /\ 1 \in DOMAIN s
  BY DEF KernelState
<1>2. ASSUME NEW x \in Count
      PROVE  /\ less(x) \in Seq(TickNode) /\ NodesUnique(less(x))
             /\ \A u : OnNodes(less(x), u) <=> OnNodes(s, u)
  <2> DEFINE node == [s[1] EXCEPT !.cnt = x]
             r == [s EXCEPT ![1] = node]
  <2>0. s[1] \in TickNode
    BY <1>1
  <2>1. node \in TickNode /\ node.tasks = s[1].tasks
    BY <2>0 DEF TickNode
  <2> HIDE DEF node
  <2>2. /\ r \in Seq(TickNode) /\ DOMAIN r = DOMAIN s
        /\ \A j \in DOMAIN s : r[j].tasks = s[j].tasks
    BY <1>1, <2>1
  <2>3. less(x) = r
    BY DEF node
  <2> HIDE DEF r, less
  <2>4. NodesUnique(s)
    BY NodesOfLists
  <2> HIDE DEF s
  <2>5. QED
    BY <2>2, <2>3, <2>4 DEF NodesUnique, OnNodes
<1>3. k0.tickMissed \in Count /\ (~ k0.tickMissed > c => c - k0.tickMissed \in Count)
      /\ 0 \in Count
  BY SMTT(30), KernelAssumption DEF KernelState, Count
<1>4. [k0 EXCEPT !.ticks = less(0)] = [k0 EXCEPT !.ticks = less(0), !.tickMissed = k0.tickMissed]
  <2> HIDE DEF less
  <2>1. QED
    BY DEF KernelState
<1>5. TakeMissed(k0, c) = IF k0.tickMissed > c THEN [k0 EXCEPT !.ticks = less(0)]
                         ELSE [k0 EXCEPT !.ticks = less(c - k0.tickMissed), !.tickMissed = 0]
  BY DEF TakeMissed
<1> HIDE DEF less
<1>6. CASE k0.tickMissed > c
  <2>1. [k0 EXCEPT !.ticks = less(0), !.tickMissed = k0.tickMissed] \in KernelState
        /\ OnlyCounters(k0, [k0 EXCEPT !.ticks = less(0), !.tickMissed = k0.tickMissed])
    BY <1>2, <1>3, NewTicks
  <2>2. QED
    BY <1>4, <1>5, <1>6, <2>1
<1>7. CASE ~ k0.tickMissed > c
  <2>1. [k0 EXCEPT !.ticks = less(c - k0.tickMissed), !.tickMissed = 0] \in KernelState
        /\ OnlyCounters(k0, [k0 EXCEPT !.ticks = less(c - k0.tickMissed), !.tickMissed = 0])
    BY <1>2, <1>3, <1>7, NewTicks
  <2>2. QED
    BY <1>5, <1>7, <2>1
<1>8. QED
  BY <1>6, <1>7

LEMMA CountTickLists ==
  ASSUME NEW k0 \in KernelState, Lists(k0)
  PROVE  CountTick(k0) \in KernelState /\ OnlyCounters(k0, CountTick(k0))
<1>1. CASE k0.ticks # <<>>
  <2>1. k0.ticks[1] \in TickNode
    BY <1>1 DEF KernelState
  <2>2. (k0.ticks[1].cnt - 1) % Wrap \in Count
    <3>1. k0.ticks[1].cnt - 1 \in Int
      BY <2>1, KernelAssumption DEF TickNode, Count
    <3>2. QED
      BY <3>1, Modulo
  <2>3. QED
    BY <1>1, <2>2, TakeMissedLists DEF CountTick
<1>2. CASE k0.ticks = <<>>
  BY <1>2 DEF CountTick, OnlyCounters, SameSched
<1>3. QED
  BY <1>1, <1>2

\* A node that is given up has no task left.
LEMMA DropNodeLists ==
  ASSUME NEW k0 \in KernelState, Lists(k0), k0.ticks # <<>>, k0.ticks[1].tasks = <<>>
  PROVE  DropNode(k0) \in KernelState /\ OnlyCounters(k0, DropNode(k0))
<1> DEFINE s == k0.ticks
           r == Tail(s)
           k1 == [k0 EXCEPT !.ticks = r]
<1>1. s \in Seq(TickNode) /\ s # <<>> /\ k0.tickMissed \in Count
  BY DEF KernelState
<1>2. /\ r \in Seq(TickNode) /\ Len(r) = Len(s) - 1
      /\ \A j \in 1..(Len(s) - 1) : r[j] = s[j + 1]
  BY <1>1
<1>3. NodesUnique(s) /\ ToSet(s[1].tasks) = {}
  BY NodesOfLists DEF ToSet
<1>s. s = k0.ticks
  OBVIOUS
<1> HIDE DEF r, s
<1>4. NodesUnique(r)
  BY SMTT(30), <1>1, <1>2, <1>3 DEF NodesUnique
<1>5. ASSUME NEW u PROVE OnNodes(r, u) <=> OnNodes(s, u)
  <2>1. ASSUME NEW j \in DOMAIN r, u \in ToSet(r[j].tasks) PROVE OnNodes(s, u)
    <3>1. j + 1 \in DOMAIN s /\ r[j] = s[j + 1]
      BY <1>1, <1>2
    <3>2. QED
      BY <2>1, <3>1 DEF OnNodes
  <2>2. ASSUME NEW j \in DOMAIN s, u \in ToSet(s[j].tasks) PROVE OnNodes(r, u)
    <3>1. j # 1
      BY <1>3, <2>2
    <3>2. j - 1 \in DOMAIN r /\ r[j - 1] = s[j]
      BY <1>1, <1>2, <3>1
    <3>3. QED
      BY <2>2, <3>2 DEF OnNodes
  <2>3. QED
    BY <2>1, <2>2 DEF OnNodes
<1>6. k1 = [k0 EXCEPT !.ticks = r, !.tickMissed = k0.tickMissed]
  BY DEF KernelState
<1>7. k1 \in KernelState /\ OnlyCounters(k0, k1) /\ k1.ticks = r
  <2> HIDE DEF k1
  <2>1. QED
    BY <1>1, <1>2, <1>4, <1>5, <1>6, <1>s, NewTicks
<1>8. DropNode(k0) = IF k1.ticks = <<>> THEN k1 ELSE TakeMissed(k1, k1.ticks[1].cnt)
  BY DEF DropNode, r, s
<1> HIDE DEF k1
<1>9. k1.ticks # <<>> => k1.ticks[1].cnt \in Count
  <2> SUFFICES ASSUME k1.ticks # <<>> PROVE k1.ticks[1].cnt \in Count
    OBVIOUS
  <2>1. k1.ticks[1] \in TickNode
    BY <1>2, <1>7
  <2>2. QED
    BY <2>1 DEF TickNode
<1>10. CASE k1.ticks # <<>>
  <2>1. Lists(k1)
    BY <1>7 DEF OnlyCounters
  <2>2. /\ TakeMissed(k1, k1.ticks[1].cnt) \in KernelState
        /\ OnlyCounters(k1, TakeMissed(k1, k1.ticks[1].cnt))
    BY <1>7, <1>9, <1>10, <2>1, TakeMissedLists
  <2>3. OnlyCounters(k0, TakeMissed(k1, k1.ticks[1].cnt))
    BY <1>7, <2>2, CountersTwice
  <2>4. QED
    BY <1>8, <1>10, <2>2, <2>3
<1>11. QED
  BY <1>7, <1>8, <1>10

LEMMA UseSliceLists ==
  ASSUME NEW k0 \in KernelState, Lists(k0), k0.cur \in Task
  PROVE  UseSlice(k0) \in KernelState /\ OnlyCounters(k0, UseSlice(k0))
<1> DEFINE s == k0.slice[k0.cur]
           left == IF k0.sliceMissed >= s THEN 0 ELSE s - k0.sliceMissed - 1
           sl == [k0.slice EXCEPT ![k0.cur] = IF left > Timeslice THEN 0 ELSE left]
           k1 == UseSlice(k0)
<1>1. k1 = [k0 EXCEPT !.slice = sl, !.sliceMissed = 0] /\ k1 \in KernelState
  BY UseSliceType DEF UseSlice
<1> HIDE DEF sl, k1
<1>2. /\ SameSched(k0, k1) /\ k1.fault = k0.fault
      /\ k1.list = k0.list /\ k1.prio = k0.prio /\ k1.state = k0.state /\ k1.bstate = k0.bstate
      /\ k1.map = k0.map /\ k1.high = k0.high /\ k1.ticks = k0.ticks
      /\ k1.tsPrio = k0.tsPrio /\ k1.tsNode = k0.tsNode /\ k0.list \in [List -> Seq(Task)]
  BY <1>1 DEF KernelState, SameSched
<1>3. Lists(k1)
  BY <1>2, SameLists, NodesOfLists
<1>4. QED
  BY <1>1, <1>2, <1>3 DEF OnlyCounters, TickLinked, k1

-----------------------------------------------------------------------------
(* The choice of the next task.                                            *)

\* What the scheduling functions leave alone.
OnlyChoice(k0, k1) ==
  /\ Lists(k1) /\ k1.list = k0.list /\ k1.prio = k0.prio /\ k1.bstate = k0.bstate
  /\ k1.ticks = k0.ticks /\ k1.map = k0.map /\ k1.high = k0.high
  /\ k1.lock = k0.lock /\ k1.locker = k0.locker /\ k1.cur = k0.cur

LEMMA GetHighestLists ==
  ASSUME NEW k0 \in KernelState, Lists(k0), k0.map # {}
  PROVE  LET k1 == os_rq_get_highest_prio_task(k0)
         IN /\ k1 \in KernelState /\ OnlyChoice(k0, k1)
            /\ k1.state = k0.state /\ k1.lockTcb = k0.lockTcb /\ k1.fault = k0.fault
            /\ k1.nxt \in ToSet(k1.list[k1.high])
<1> DEFINE h  == k0.high
           q  == k0.list[h]
           n0 == IF k0.tsPrio = h THEN k0.tsNode ELSE NextNode(k0, h)
           n1 == SkipHead(k0, n0)
           n2 == IF Rotates(k0, n1) THEN SkipHead(k0, NextNode(k0, n1)) ELSE n1
           sl == [k0.slice EXCEPT ![n1] = IF Rotates(k0, n1) THEN Timeslice ELSE @]
           k1 == os_rq_get_highest_prio_task(k0)
<1>1. /\ h \in Prio /\ h \in List /\ q \in Seq(Task) /\ q # <<>> /\ ToSet(q) \subseteq Task
  BY ListNames, TasksOfList DEF Lists, MapExact, KernelState
<1>2. NextNode(k0, h) \in ToSet(q)
  <2>1. NextNode(k0, h) = q[1]
    BY <1>1 DEF NextNode
  <2>2. 1 \in DOMAIN q
    BY <1>1
  <2>3. QED
    BY <2>1, <2>2 DEF ToSet
<1>3. \A n : n = h \/ n \in ToSet(q) => SkipHead(k0, n) \in ToSet(q)
  BY <1>1, <1>2 DEF SkipHead
<1>4. n0 = h \/ n0 \in ToSet(q)
  BY <1>1, <1>2 DEF Lists, PositionKept
<1>5. n1 \in ToSet(q)
  <2> HIDE DEF n0
  <2>1. QED
    BY <1>3, <1>4
<1>6. n2 \in ToSet(q)
  <2> HIDE DEF n1
  <2>1. NextNode(k0, n1) = h \/ NextNode(k0, n1) \in ToSet(q)
    BY <1>1, <1>5, NextInQueue
  <2>2. SkipHead(k0, NextNode(k0, n1)) \in ToSet(q)
    BY <1>3, <2>1
  <2>3. QED
    BY <1>5, <2>2
<1>7. k1 = IF n1 \notin Task THEN [k0 EXCEPT !.fault = TRUE]
           ELSE IF n2 \notin Task THEN [k0 EXCEPT !.fault = TRUE]
           ELSE [k0 EXCEPT !.tsPrio = h, !.tsNode = n2, !.nxt = n2, !.slice = sl]
  BY DEF os_rq_get_highest_prio_task
<1>8. k1 \in KernelState
  BY GetHighestType
<1> HIDE DEF n1, n2, sl, k1
<1>9. k1 = [k0 EXCEPT !.tsPrio = h, !.tsNode = n2, !.nxt = n2, !.slice = sl]
  BY <1>1, <1>5, <1>6, <1>7
<1>h. h = k0.high /\ q = k0.list[h]
  OBVIOUS
<1> HIDE DEF h, q
<1>10. /\ k1.list = k0.list /\ k1.prio = k0.prio /\ k1.bstate = k0.bstate
       /\ k1.ticks = k0.ticks /\ k1.map = k0.map /\ k1.high = k0.high
       /\ k1.lock = k0.lock /\ k1.locker = k0.locker /\ k1.cur = k0.cur
       /\ k1.state = k0.state /\ k1.lockTcb = k0.lockTcb /\ k1.fault = k0.fault
       /\ k1.tsPrio = h /\ k1.tsNode = n2 /\ k1.nxt = n2
  BY <1>9 DEF KernelState
<1>11. Lists(k1)
  <2>1. Unique(k1) /\ QueuesReady(k1) /\ MapExact(k1)
    BY <1>10 DEF Lists, Unique, QueuesReady, MapExact
  <2>2. WaitersBlocked(k1)
    BY <1>10 DEF Lists, WaitersBlocked, TickLinked
  <2>3. PositionKept(k1)
    BY <1>6, <1>10, <1>h DEF PositionKept
  <2>4. QED
    BY <2>1, <2>2, <2>3 DEF Lists
<1>12. QED
  BY <1>6, <1>8, <1>10, <1>11, <1>h DEF OnlyChoice, k1

\* The task that holds the scheduler lock, as the scheduling functions take it.
Holder(k0, by) == IF k0.cur # Idle THEN k0.cur ELSE k0.lockTcb[by]

\* Under the lock the choice is between the holder and the idle task, and neither
\* of the two may be in a list of waiting tasks when it is chosen.
LockSafe(k0, by) ==
  k0.lock > 0 =>
    /\ Holder(k0, by) # NULL /\ k0.state[Idle] # "BLOCKING"
    /\ k0.state[Holder(k0, by)] = "BLOCKING" =>
         k0.bstate[Holder(k0, by)] = "TICKING" \/ Holder(k0, by) = k0.cur

LEMMA ChooseReadyLists ==
  ASSUME NEW k0 \in KernelState, Lists(k0), k0.map # {}, NEW by \in {"thread", "sw"},
         LockSafe(k0, by)
  PROVE  LET k1 == ChooseReady(k0, by)
         IN /\ k1 \in KernelState /\ OnlyChoice(k0, k1)
            /\ k1.state = k0.state /\ k1.fault = k0.fault
            /\ k0.lock = 0 => k1.nxt \in ToSet(k1.list[k1.high]) /\ k1.lockTcb = k0.lockTcb
            /\ k0.lock > 0 => k1.nxt \in {Holder(k0, by), Idle}
            /\ k1.nxt \in Task /\ (k1.nxt = k1.cur \/ k1.state[k1.nxt] # "BLOCKING")
<1> DEFINE holder == Holder(k0, by)
           n == IF k0.bstate[holder] = "TICKING" THEN Idle ELSE holder
           lt == [k0.lockTcb EXCEPT ![by] = holder]
           k1 == ChooseReady(k0, by)
<1>0. k0.lock \in Nat /\ k1 \in KernelState
  BY ChooseReadyType DEF KernelState
<1>1. CASE k0.lock = 0
  <2>1. k1 = os_rq_get_highest_prio_task(k0)
    BY <1>1 DEF ChooseReady
  <2>2. /\ OnlyChoice(k0, k1) /\ k1.state = k0.state /\ k1.lockTcb = k0.lockTcb
        /\ k1.fault = k0.fault /\ k1.nxt \in ToSet(k1.list[k1.high])
    BY <2>1, GetHighestLists
  <2> HIDE DEF k1
  <2>3. k1.high \in Prio
    BY <1>0 DEF KernelState
  <2>4. k1.nxt \in Task /\ k1.state[k1.nxt] # "BLOCKING"
    BY <1>0, <2>2, <2>3, ListNames, TasksOfList DEF OnlyChoice, Lists, QueuesReady
  <2>5. QED
    BY <1>0, <1>1, <2>2, <2>4 DEF k1
<1>2. CASE k0.lock # 0
  <2>1. k1 = [k0 EXCEPT !.lockTcb = lt, !.nxt = n]
    BY <1>0, <1>2 DEF ChooseReady, LockSafe, Holder
  <2>2. holder \in Task /\ Idle \in Task
    BY <1>0, <1>2, ListNames DEF Holder, LockSafe, KernelState
  <2>h. n = IF k0.bstate[holder] = "TICKING" THEN Idle ELSE holder
    OBVIOUS
  <2>z. k1 = ChooseReady(k0, by) /\ holder = Holder(k0, by)
    OBVIOUS
  <2> HIDE DEF lt, n, holder, k1
  <2>3. /\ k1.list = k0.list /\ k1.prio = k0.prio /\ k1.bstate = k0.bstate
        /\ k1.ticks = k0.ticks /\ k1.map = k0.map /\ k1.high = k0.high
        /\ k1.lock = k0.lock /\ k1.locker = k0.locker /\ k1.cur = k0.cur
        /\ k1.state = k0.state /\ k1.fault = k0.fault /\ k1.nxt = n
        /\ k1.tsPrio = k0.tsPrio /\ k1.tsNode = k0.tsNode /\ k0.list \in [List -> Seq(Task)]
    BY <2>1 DEF KernelState
  <2>4. OnlyChoice(k0, k1)
    BY <2>3, SameLists, NodesOfLists DEF OnlyChoice
  <2>5. n \in {holder, Idle} /\ (n = k0.cur \/ k0.state[n] # "BLOCKING")
    BY <1>0, <1>2, <2>2, <2>h, <2>z DEF LockSafe
  <2>6. QED
    BY <1>0, <1>2, <2>2, <2>3, <2>4, <2>5, <2>z
<1>3. QED
  BY <1>1, <1>2

LEMMA SchedLists ==
  ASSUME NEW k0 \in KernelState, Lists(k0), k0.map # {}, NEW by \in {"thread", "sw"},
         LockSafe(k0, by)
  PROVE  LET k1 == os_sched(k0, by)
         IN /\ k1 \in KernelState /\ OnlyChoice(k0, k1) /\ k1.fault = k0.fault
            /\ k1.nxt \in Task
            /\ k0.lock = 0 => k1.nxt \in ToSet(k1.list[k1.high])
            /\ k0.lock > 0 => k1.nxt \in {Holder(k0, by), Idle}
            /\ \A u \in Task :
                 /\ k1.state[u] = "BLOCKING" <=> k0.state[u] = "BLOCKING"
                 /\ k1.state[u] # k0.state[u] => k1.state[u] \in {"READY", "RUNNING"}
                 /\ k0.lock = 0 /\ k0.state[u] = "NONE" => k1.state[u] = "NONE"
<1> DEFINE ka == ChooseReady(k0, by)
           st == [t \in Task |->
                    IF t = ka.nxt THEN "RUNNING"
                    ELSE IF t = ka.cur /\ ka.state[t] = "RUNNING" THEN "READY"
                    ELSE ka.state[t]]
           k1 == os_sched(k0, by)
<1>1. /\ ka \in KernelState /\ OnlyChoice(k0, ka) /\ ka.state = k0.state /\ ka.fault = k0.fault
      /\ k0.lock = 0 => ka.nxt \in ToSet(ka.list[ka.high])
      /\ k0.lock > 0 => ka.nxt \in {Holder(k0, by), Idle}
      /\ ka.nxt \in Task /\ (ka.nxt = ka.cur \/ ka.state[ka.nxt] # "BLOCKING")
  BY ChooseReadyLists
<1>2. k1 = IF ka.fault \/ ka.nxt = ka.cur THEN ka ELSE [ka EXCEPT !.state = st]
  BY DEF os_sched
<1>3. k1 \in KernelState
  BY SchedType
<1> HIDE DEF ka, k1
<1>4. CASE ka.fault \/ ka.nxt = ka.cur
  BY <1>1, <1>2, <1>4 DEF k1
<1>5. CASE ~ (ka.fault \/ ka.nxt = ka.cur)
  <2>1. k1 = [ka EXCEPT !.state = st]
    BY <1>2, <1>5
  <2>2. \A u \in Task : /\ st[u] = "BLOCKING" <=> k0.state[u] = "BLOCKING"
                        /\ st[u] # k0.state[u] => st[u] \in {"READY", "RUNNING"}
                        /\ k0.state[u] \in {"READY", "RUNNING"} => st[u] \in {"READY", "RUNNING"}
                        /\ k0.lock = 0 /\ k0.state[u] = "NONE" => st[u] = "NONE"
    <3>1. k0.lock = 0 => k0.state[ka.nxt] \in {"READY", "RUNNING"}
      BY <1>1, ListNames DEF OnlyChoice, Lists, QueuesReady, KernelState
    <3>2. QED
      BY <1>1, <1>5, <3>1
  <2> HIDE DEF st
  <2>3. /\ k1.list = ka.list /\ k1.prio = ka.prio /\ k1.bstate = ka.bstate
        /\ k1.ticks = ka.ticks /\ k1.map = ka.map /\ k1.high = ka.high
        /\ k1.lock = ka.lock /\ k1.locker = ka.locker /\ k1.cur = ka.cur
        /\ k1.state = st /\ k1.fault = ka.fault /\ k1.nxt = ka.nxt
        /\ k1.tsPrio = ka.tsPrio /\ k1.tsNode = ka.tsNode
    BY <1>1, <2>1 DEF KernelState
  <2>4. Lists(k1)
    <3>0. Lists(ka) /\ \A l \in List : ToSet(ka.list[l]) \subseteq Task
      BY <1>1, TasksOfList DEF OnlyChoice
    <3>1. Unique(k1) /\ MapExact(k1) /\ PositionKept(k1)
      BY <2>3, <3>0 DEF Lists, Unique, MapExact, PositionKept
    <3>2. QueuesReady(k1)
      <4>1. \A u \in Task : ka.state[u] \in {"READY", "RUNNING"}
                           => k1.state[u] \in {"READY", "RUNNING"}
        BY <1>1, <2>2, <2>3
      <4>2. \A p \in Prio : \A u \in ToSet(ka.list[p]) :
              u \in Task /\ ka.prio[u] = p /\ ka.state[u] \in {"READY", "RUNNING"}
        BY <3>0, ListNames DEF Lists, QueuesReady
      <4>3. QED
        BY <2>3, <4>1, <4>2 DEF QueuesReady
    <3>3. WaitersBlocked(k1)
      <4>1. \A u : TickLinked(k1, u) <=> TickLinked(ka, u)
        BY <2>3 DEF TickLinked
      <4>2. \A o \in Object : \A u \in ToSet(k1.list[o]) : k1.state[u] = "BLOCKING"
        BY <1>1, <2>2, <2>3, <3>0, ListNames DEF Lists, WaitersBlocked
      <4>3. QED
        BY <1>1, <2>2, <2>3, <3>0, <4>1, <4>2, ListNames DEF Lists, WaitersBlocked
    <3>4. QED
      BY <3>1, <3>2, <3>3 DEF Lists
  <2>5. QED
    BY <1>1, <1>3, <2>2, <2>3, <2>4 DEF OnlyChoice, k1
<1>6. QED
  BY <1>4, <1>5

-----------------------------------------------------------------------------
(* Types and the scheduler lock.                                           *)

\* While the tick handler is part way through, there is a node to go on with.
TypeInv == TypeOK /\ (irq = "tick" => running /\ k.ticks # <<>>)

LEMMA ClientFacts == /\ \A t \in UserTask : t \in Task /\ t # Idle
                     /\ UserPrio \subseteq Prio
                     /\ \A n \in Delays : n \in Count \cup {Never}
                     /\ MaxMissed \in Count /\ MaxMissed \in Nat
                     /\ \A x \in Nat : x < MaxMissed => x + 1 \in Count
BY ClientAssumption, KernelAssumption DEF Count

LEMMA TypeParts == ASSUME TypeInv
                   PROVE  /\ k \in KernelState /\ todo \in [Task -> Seq(Step)]
                          /\ alive \subseteq Task /\ k.cur \in Task \cup {NULL}
BY DEF TypeInv, TypeOK, KernelState

\* The steps of a system call.
LEMMA ThenType == ASSUME TypeInv, NEW t \in Task, NEW k1 \in KernelState,
                         NEW rest \in Seq(Step), irq = "none", Then(t, k1, rest),
                         alive' \subseteq Task
                  PROVE  TypeInv'
BY TypeParts DEF TypeInv, TypeOK, Then

LEMMA BootType == ASSUME TypeInv, Boot PROVE TypeInv'
<1>1. ASSUME NEW t \in Task, NEW p \in Prio, BootCreate(t, p) PROVE TypeInv'
  <2> DEFINE k1 == os_sched(os_task_create(k, t, p), "thread")
  <2>1. k1 \in KernelState
    BY TypeParts, CreateType, SchedType
  <2>2. Switches(k1) \in BOOLEAN
    BY DEF Switches
  <2>3. k' = k1 /\ swPending' = (swPending \/ Switches(k1))
    BY <1>1 DEF BootCreate
  <2> HIDE DEF k1
  <2>4. QED
    BY <1>1, <2>1, <2>2, <2>3 DEF TypeInv, TypeOK, BootCreate
<1>2. ASSUME os_sys_start PROVE TypeInv'
  BY <1>2, TypeParts, GetHighestType DEF TypeInv, TypeOK, os_sys_start
<1>3. QED
  BY <1>1, <1>2, ListNames, ClientFacts DEF Boot

LEMMA CallType == ASSUME TypeInv, NEW t \in Task, Call(t) PROVE TypeInv'
<1> DEFINE two == <<"sched", "delayRet">>
<1>1. /\ k \in KernelState /\ irq = "none" /\ running /\ alive \subseteq Task
      /\ k.lock \in Nat /\ k.locker \in Task \cup {NULL} /\ t \in Task
  BY TypeParts DEF Call, Create, Exit, os_task_delay_ms, os_task_yield, os_task_suspend,
     os_task_resume, WakeTick, os_sched_lock, os_sched_unlock, Invokes, Runs, KernelState
<1>2. /\ <<>> \in Seq(Step) /\ <<"sched">> \in Seq(Step)
      /\ <<"sched", "delayRet">> \in Seq(Step) /\ <<"sched", "gone">> \in Seq(Step)
  BY DEF Step
<1> DEFINE nested(n, h) == [k EXCEPT !.lock = n, !.locker = h]
<1>a. \A n \in Nat, h \in Task \cup {NULL} : nested(n, h) \in KernelState
  BY <1>1 DEF KernelState
<1>3. CASE Create(t)
  <2>1. PICK u \in UserTask \ alive, p \in UserPrio :
          alive' = alive \cup {u} /\ Then(t, os_task_create(k, u, p), <<"sched">>)
    BY <1>3 DEF Create
  <2>2. os_task_create(k, u, p) \in KernelState /\ alive' \subseteq Task
    BY <1>1, <2>1, ClientFacts, CreateType
  <2>3. QED
    BY <1>1, <1>2, <2>1, <2>2, ThenType
<1>4. CASE Exit(t)
  BY <1>1, <1>2, <1>4, DelTaskType, ThenType DEF Exit
<1>5. CASE os_task_delay_ms(t)
  <2>1. PICK n \in Delays : Then(t, os_add_tick_task(k, t, n, NULL), two)
    BY <1>5 DEF os_task_delay_ms
  <2>2. os_add_tick_task(k, t, n, NULL) \in KernelState
    BY <1>1, ClientFacts, AddTickType
  <2>3. QED
    BY <1>1, <1>2, <1>5, <2>1, <2>2, ThenType DEF os_task_delay_ms
<1>6. CASE os_task_yield(t)
  <2>1. [k EXCEPT !.slice[t] = 0] \in KernelState
    BY <1>1, ListNames DEF KernelState
  <2>2. QED
    BY <1>1, <1>2, <1>6, <2>1, ThenType DEF os_task_yield
<1>7. CASE os_task_suspend(t)
  <2>1. PICK u \in Suspendable :
          IF k.state[u] = "BLOCKING" THEN LeakCritical
          ELSE Then(t, os_add_block_task(k, u, SysBlock), <<"sched">>) /\ UNCHANGED alive
    BY <1>7 DEF os_task_suspend
  <2>2. u \in Task
    BY <1>1 DEF Suspendable
  <2>3. os_add_block_task(k, u, SysBlock) \in KernelState
    BY <1>1, <2>2, ListNames, AddBlockType
  <2>4. CASE LeakCritical
    BY <2>4 DEF LeakCritical, TypeInv, TypeOK
  <2>5. QED
    BY <1>1, <1>2, <2>1, <2>3, <2>4, ThenType
<1>8. CASE os_task_resume(t)
  <2>1. PICK u \in Resumable :
          IF k.state[u] # "BLOCKING" THEN LeakCritical
          ELSE Then(t, os_rq_add_task(UnlinkSlot(k, u), u), <<"sched">>) /\ UNCHANGED alive
    BY <1>8 DEF os_task_resume
  <2>2. u \in Task
    BY <1>1 DEF Resumable
  <2>3. os_rq_add_task(UnlinkSlot(k, u), u) \in KernelState
    BY <1>1, <2>2, UnlinkSlotType, AddTaskType
  <2>4. CASE LeakCritical
    BY <2>4 DEF LeakCritical, TypeInv, TypeOK
  <2>5. QED
    BY <1>1, <1>2, <2>1, <2>3, <2>4, ThenType
<1>9. CASE WakeTick(t)
  <2>1. PICK u \in alive : Then(t, os_wakeup_tick_task(k, u), <<>>) /\ UNCHANGED alive
    BY <1>9 DEF WakeTick
  <2>2. QED
    BY <1>1, <1>2, <2>1, WakeTickType, ThenType
<1>10. CASE os_sched_lock(t)
  <2> DEFINE by == IF k.lock = 0 THEN t ELSE k.locker
  <2>h. by \in Task \cup {NULL} /\ k.lock + 1 \in Nat
    BY <1>1
  <2>1. nested(k.lock + 1, by) \in KernelState
    BY <1>a, <2>h
  <2>2. Then(t, nested(k.lock + 1, by), <<>>) /\ UNCHANGED alive
    BY <1>10 DEF os_sched_lock
  <2>3. QED
    BY <1>1, <1>2, <2>1, <2>2, ThenType
<1>11. CASE os_sched_unlock(t)
  <2> DEFINE by == IF k.lock = 1 THEN NULL ELSE k.locker
  <2>1. k.lock > 0 /\ Then(t, nested(k.lock - 1, by), <<"sched">>) /\ UNCHANGED alive
    BY <1>11 DEF os_sched_unlock
  <2>2. k.lock - 1 \in Nat
    BY <1>1, <2>1
  <2>3. nested(k.lock - 1, by) \in KernelState
    BY <1>1, <1>a, <2>2
  <2>4. QED
    BY <1>1, <1>2, <2>1, <2>3, ThenType
<1>12. QED
  BY <1>3, <1>4, <1>5, <1>6, <1>7, <1>8, <1>9, <1>10, <1>11 DEF Call

LEMMA TaskStepType == ASSUME TypeInv, NEW t \in Task, TaskStep(t) PROVE TypeInv'
<1>1. /\ k \in KernelState /\ irq = "none" /\ alive \subseteq Task
      /\ todo \in [Task -> Seq(Step)] /\ todo[t] \in Seq(Step) /\ todo[t] # <<>>
      /\ Tail(todo[t]) \in Seq(Step) /\ <<"ctxSw">> \o Tail(todo[t]) \in Seq(Step)
      /\ <<>> \o Tail(todo[t]) \in Seq(Step) /\ <<>> \in Seq(Step)
  <2>1. todo[t] # <<>> /\ irq = "none"
    BY DEF TaskStep, SchedStep, os_ctx_sw, DelayReturn, RunsOff, Continues, Runs
  <2>2. todo[t] \in Seq(Step)
    BY TypeParts
  <2>3. Tail(todo[t]) \in Seq(Step)
    BY <2>1, <2>2
  <2>4. <<"ctxSw">> \in Seq(Step) /\ <<>> \in Seq(Step)
    BY DEF Step
  <2>5. QED
    BY <2>1, <2>2, <2>3, <2>4, TypeParts
<1>2. CASE SchedStep(t)
  <2> DEFINE k1 == os_sched(k, "thread")
             rest == (IF Switches(k1) THEN <<"ctxSw">> ELSE <<>>) \o Tail(todo[t])
  <2>1. k1 \in KernelState
    BY <1>1, SchedType
  <2>2. rest \in Seq(Step)
    <3> HIDE DEF k1
    <3>1. QED
      BY <1>1
  <2>3. Then(t, k1, rest) /\ UNCHANGED alive
    BY <1>2 DEF SchedStep
  <2> HIDE DEF k1, rest
  <2>4. QED
    BY <1>1, <2>1, <2>2, <2>3, ThenType
<1>3. CASE os_ctx_sw(t)
  BY <1>1, <1>3 DEF os_ctx_sw, TypeInv, TypeOK
<1>4. CASE DelayReturn(t)
  <2> DEFINE b == IF k.bstate[t] = "EARLY_WAKEUP" THEN "NONE" ELSE k.bstate[t]
  <2>1. [k EXCEPT !.bstate[t] = b] \in KernelState
    BY ZenonT(30), <1>1 DEF KernelState, BlockState
  <2>2. Then(t, [k EXCEPT !.bstate[t] = b], Tail(todo[t])) /\ UNCHANGED alive
    BY <1>4 DEF DelayReturn
  <2> HIDE DEF b
  <2>3. QED
    BY <1>1, <2>1, <2>2, ThenType
<1>5. CASE RunsOff(t)
  <2>1. [k EXCEPT !.fault = TRUE] \in KernelState
    BY <1>1 DEF KernelState
  <2>2. QED
    BY <1>1, <1>5, <2>1, ThenType DEF RunsOff
<1>6. QED
  BY <1>2, <1>3, <1>4, <1>5 DEF TaskStep

\* Pend leaves a Boolean in swPending.
LEMMA PendType == ASSUME TypeInv, NEW k1, NEW b, Pend(k1, b) PROVE swPending' \in BOOLEAN
BY DEF TypeInv, TypeOK, Pend, Switches

\* The nodes stay when a task is taken off the tick list.
LEMMA ExpireFirstNodes ==
  ASSUME NEW k0 \in KernelState, k0.ticks # <<>>
  PROVE  ExpireFirst(k0).ticks # <<>>
<1> DEFINE t == Head(k0.ticks[1].tasks)
           k1 == UnlinkTick(k0, t)
           k2 == [k1 EXCEPT !.bstate[t] = "TIMEOUT"]
           k3 == UnlinkSlot(k2, t)
<1>1. k1.ticks = WithoutIn(k0.ticks, t)
  BY DEF UnlinkTick, KernelState
<1>2. k1.ticks # <<>>
  <2>1. DOMAIN WithoutIn(k0.ticks, t) = DOMAIN k0.ticks
    BY DEF WithoutIn
  <2>2. k0.ticks \in Seq(TickNode)
    BY DEF KernelState
  <2>3. 1 \in DOMAIN k0.ticks
    BY <2>2
  <2>4. QED
    BY <1>1, <2>1, <2>3
<1>3. k3.ticks = k1.ticks
  BY DEF UnlinkSlot, UnlinkTick, KernelState
<1>4. os_rq_add_task(k3, t).ticks = k3.ticks
  BY DEF os_rq_add_task, UnlinkSlot, UnlinkTick, KernelState
<1>5. ExpireFirst(k0) = os_rq_add_task(k3, t)
  BY DEF ExpireFirst, EndWait
<1> HIDE DEF k1, k3, t
<1>6. QED
  BY <1>2, <1>3, <1>4, <1>5

LEMMA TickHandlerType == ASSUME TypeInv, TickHandler PROVE TypeInv'
<1>1. CASE SysTick
  <2> DEFINE k1 == os_sched_timeslice_poll(k)
             k2 == CountTick(k1)
  <2>1. k1 \in KernelState
    BY <1>1, TypeParts, PollType DEF SysTick, TickTaken
  <2>2. k2 \in KernelState
    <3> HIDE DEF k1
    <3>1. QED
      BY <2>1, CountTickType
  <2>3. /\ k' = k2 /\ Pend(k1, SliceUsedUp(k))
        /\ irq' = IF ~ k2.fault /\ FirstIsDue(k2) THEN "tick" ELSE "none"
        /\ UNCHANGED <<running, todo, alive, swEnabled>> /\ running
    BY <1>1 DEF SysTick, TickTaken
  <2>4. swPending' \in BOOLEAN
    <3> HIDE DEF k1, k2
    <3>1. QED
      BY <2>3, PendType
  <2>5. FirstIsDue(k2) => k2.ticks # <<>>
    BY DEF FirstIsDue
  <2> HIDE DEF k1, k2
  <2>6. QED
    BY <2>2, <2>3, <2>4, <2>5 DEF TypeInv, TypeOK
<1>2. CASE ExpireTask
  <2>1. k.ticks # <<>> /\ k.ticks[1].tasks # <<>> /\ running /\ irq = "tick"
    BY <1>2 DEF ExpireTask, ExpiryDue, TypeInv
  <2>2. ExpireFirst(k) \in KernelState /\ ExpireFirst(k).ticks # <<>>
    BY <2>1, TypeParts, ExpireFirstType, ExpireFirstNodes
  <2>3. QED
    BY <1>2, <2>2 DEF ExpireTask, TypeInv, TypeOK
<1>3. CASE ExpireNext
  <2>1. k.ticks # <<>>
    BY <1>3 DEF ExpireNext, ExpiryDue, TypeInv
  <2>2. DropNode(k) \in KernelState
    BY <2>1, TypeParts, DropNodeType
  <2>3. QED
    BY <1>3, <2>2 DEF ExpireNext, TypeInv, TypeOK, FirstIsDue
<1>4. CASE ExpireLast
  <2>1. k.ticks # <<>>
    BY <1>4 DEF ExpireLast, ExpiryDue, TypeInv
  <2>2. DropNode(k) \in KernelState
    BY <2>1, TypeParts, DropNodeType
  <2>3. [DropNode(k) EXCEPT !.tickMissed = 0] \in KernelState
    BY <2>2, ListNames DEF KernelState
  <2>4. AfterExpiry(k) \in KernelState
    BY <2>3, SchedType DEF AfterExpiry
  <2>5. swPending' \in BOOLEAN
    BY <1>4, PendType DEF ExpireLast
  <2>6. QED
    BY <1>4, <2>4, <2>5 DEF ExpireLast, TypeInv, TypeOK
<1>5. QED
  BY <1>1, <1>2, <1>3, <1>4 DEF TickHandler

LEMMA MissTickType == ASSUME TypeInv, MissTick PROVE TypeInv'
<1>0. k \in KernelState /\ k.tickMissed \in Nat /\ k.sliceMissed \in Nat
  <2>1. k \in KernelState
    BY TypeParts
  <2>2. k.tickMissed \in Count /\ k.sliceMissed \in Count
    BY <2>1 DEF KernelState
  <2>3. QED
    BY <2>1, <2>2, KernelAssumption DEF Count
<1>1. k.tickMissed + 1 \in Count /\ k.sliceMissed + 1 \in Count
  <2>1. k.tickMissed < MaxMissed /\ k.sliceMissed < MaxMissed
    BY DEF MissTick
  <2>2. MaxMissed \in 0..(Wrap - 1) /\ Wrap \in Nat
    BY ClientAssumption, KernelAssumption DEF Count
  <2>3. QED
    BY <1>0, <2>1, <2>2 DEF Count
<1>2. [k EXCEPT !.tickMissed = k.tickMissed + 1, !.sliceMissed = k.sliceMissed + 1]
        \in KernelState
  BY <1>0, <1>1 DEF KernelState
<1>3. QED
  BY <1>2 DEF MissTick, TypeInv, TypeOK

LEMMA SwitchType == ASSUME TypeInv, SwEnter \/ SwLeave PROVE TypeInv'
<1>1. CASE SwEnter
  BY <1>1 DEF SwEnter, SwitchDue, TypeInv, TypeOK
<1>2. CASE SwLeave
  <2> DEFINE k1 == IF k.cur = NULL THEN [k EXCEPT !.cur = k.nxt] ELSE k
             k2 == IF k1.cur = k1.nxt THEN os_sched(k1, "sw") ELSE k1
  <2>1. k1 \in KernelState
    <3>1. [k EXCEPT !.cur = k.nxt] \in KernelState
      BY TypeParts DEF KernelState
    <3>2. QED
      BY <3>1, TypeParts
  <2>2. k2 \in KernelState
    <3> HIDE DEF k1
    <3>1. QED
      BY <2>1, SchedType
  <2>3. SwitchTask(k) = IF k2.fault THEN k2 ELSE [k2 EXCEPT !.cur = k2.nxt]
    BY DEF SwitchTask
  <2> HIDE DEF k2
  <2>4. [k2 EXCEPT !.cur = k2.nxt] \in KernelState
    BY <2>2 DEF KernelState
  <2>5. SwitchTask(k) \in KernelState
    BY <2>2, <2>3, <2>4
  <2>6. QED
    BY <1>2, <2>5 DEF SwLeave, TypeInv, TypeOK
<1>3. QED
  BY <1>1, <1>2

LEMMA TypeInvInit == Init => TypeInv
<1> SUFFICES ASSUME Init PROVE TypeInv
  OBVIOUS
<1>1. k \in KernelState
  BY ResetType DEF Init
<1>2. <<>> \in Seq(Step)
  OBVIOUS
<1>3. todo \in [Task -> Seq(Step)]
  BY <1>2 DEF Init
<1>4. QED
  BY <1>1, <1>3 DEF Init, TypeInv, TypeOK

LEMMA TypeInvStep == TypeInv /\ [Next]_vars => TypeInv'
<1> SUFFICES ASSUME TypeInv, [Next]_vars PROVE TypeInv'
  OBVIOUS
<1>1. CASE UNCHANGED vars
  BY <1>1 DEF vars, TypeInv, TypeOK
<1>2. ASSUME NEW t \in Task, Call(t) \/ TaskStep(t) PROVE TypeInv'
  BY <1>2, CallType, TaskStepType
<1>3. QED
  BY <1>1, <1>2, BootType, TickHandlerType, MissTickType, SwitchType DEF Next

\* The kernel's data keep their types whatever the tasks and interrupts do.
THEOREM TypeCorrect == Spec => []TypeOK
<1>1. TypeInv => TypeOK
  BY DEF TypeInv
<1>2. QED
  BY <1>1, TypeInvInit, TypeInvStep, PTL DEF Spec
-----------------------------------------------------------------------------
(* The scheduler lock keeps the processor to the task that took it.         *)

\* The software interrupt will look at os_task_ready, or the current task is about
\* to pend it.
CtxDue == k.cur \in Task /\ todo[k.cur] # <<>> /\ Head(todo[k.cur]) = "ctxSw"
SwitchComing == swPending \/ irq = "sw" \/ CtxDue

\* Neither was the software interrupt left masked, nor is memory corrupt.
Works == running /\ swEnabled /\ ~ k.fault

\* Before the first switch there is no lock and no current task.
BootInv ==
  /\ ~ running => k.lock = 0 /\ k.cur = NULL /\ irq = "none"
  /\ k.cur = NULL => k.lock = 0 /\ irq # "tick"
  /\ swEnabled => running
  /\ irq = "sw" => running /\ swEnabled /\ (k.lock > 0 => ~ swPending)

\* A call schedules first, and only then does the rest; the idle task calls nothing.
TodoInv ==
  /\ \A t \in Task : \A i \in 2..Len(todo[t]) :
       todo[t][i] \in {"delayRet", "waitRet", "gone"}
  /\ todo[Idle] = <<>>

\* Who holds the lock executes, or the idle task while the holder delays itself;
\* os_task_ready is one of the two; a switch is on its way if it is not current.
HolderInv ==
  /\ Works /\ k.nxt # k.cur => SwitchComing
  /\ k.lock > 0 => k.locker \in Task \ {Idle} /\ k.cur \in {k.locker, Idle}
  /\ Works /\ k.lock > 0 => k.nxt \in {k.locker, Idle}

\* While the idle task executes, the scheduler's copy for threads knows the holder,
\* and the interrupt's copy, which may not know it, is not going to schedule.
IdleInv ==
  Works /\ k.lock > 0 /\ k.cur = Idle =>
    /\ k.lockTcb["thread"] = k.locker
    /\ k.nxt = k.locker => k.bstate[k.locker] # "TICKING"
    /\ k.nxt = Idle => ~ swPending /\ irq # "sw"

\* The same before the switch to the idle task; and a switch that comes late finds
\* a holder that does not delay itself.
OwnInv ==
  Works /\ k.lock > 0 /\ k.cur # Idle =>
    /\ k.nxt = Idle => k.lockTcb["thread"] = k.locker
    /\ k.nxt = k.cur /\ SwitchComing => k.bstate[k.cur] # "TICKING"

LockInv == BootInv /\ TodoInv /\ HolderInv /\ IdleInv /\ OwnInv

-----------------------------------------------------------------------------
(* What the operators do to the fields that the lock is about.             *)

\* Nobody but t may have begun to wait for a tick.
NoNewWait(k0, k1, t) ==
  \A u \in Task \ {t} : k1.bstate[u] = "TICKING" => k0.bstate[u] = "TICKING"

LEMMA AddTaskFrame ==
  ASSUME NEW k0 \in KernelState, NEW t \in Task
  PROVE  SameSched(k0, os_rq_add_task(k0, t)) /\ os_rq_add_task(k0, t).bstate = k0.bstate
<1> DEFINE r == os_rq_add_task(k0, t)
           p == k0.prio[t]
           q == k0.list[p]
           m1 == IF q = <<>> THEN k0.map \cup {p} ELSE k0.map
           h1 == IF q = <<>> /\ p < k0.high THEN p ELSE k0.high
           ls == [k0.list EXCEPT ![p] = IF k0.cur = NULL \/ p < k0.prio[k0.cur]
                                          THEN <<t>> \o q ELSE Append(q, t)]
           st == [k0.state EXCEPT ![t] = "READY"]
           f1 == k0.fault \/ SlotLinked(k0, t)
<1>1. r = IF k0.state[t] = "READY" THEN k0
          ELSE [k0 EXCEPT !.map = m1, !.high = h1, !.list = ls, !.state = st, !.fault = f1]
  BY DEF os_rq_add_task
<1> HIDE DEF r, m1, h1, ls, st, f1
<1>2. SameSched(k0, r) /\ r.bstate = k0.bstate
  BY <1>1 DEF KernelState, SameSched
<1>3. QED
  BY <1>2 DEF r

LEMMA UnlinkFrame ==
  ASSUME NEW k0 \in KernelState, NEW t \in Task
  PROVE  /\ SameSched(k0, UnlinkSlot(k0, t)) /\ UnlinkSlot(k0, t).bstate = k0.bstate
         /\ SameSched(k0, UnlinkTick(k0, t)) /\ UnlinkTick(k0, t).bstate = k0.bstate
BY DEF UnlinkSlot, UnlinkTick, KernelState, SameSched

LEMMA DelTaskFrame ==
  ASSUME NEW k0 \in KernelState, NEW t \in Task
  PROVE  SameSched(k0, os_rq_del_task(k0, t)) /\ os_rq_del_task(k0, t).bstate = k0.bstate
<1> DEFINE ka == LeaveSlice(k0, t)
           n == NextNode(k0, t)
           kb == UnlinkSlot(ka, t)
           p == k0.prio[t]
           m == k0.map \ {p}
           h == IF kb.high = p THEN HighestReadyPriority(m) ELSE kb.high
           r == os_rq_del_task(k0, t)
<1>1. ka \in KernelState /\ SameSched(k0, ka) /\ ka.bstate = k0.bstate
  <2>1. n \in Task \cup List \cup {NULL}
    BY NextNodeType
  <2>2. ka = IF k0.prio[t] = k0.tsPrio /\ t = k0.tsNode THEN [k0 EXCEPT !.tsNode = n] ELSE k0
    BY DEF LeaveSlice
  <2> HIDE DEF n, ka
  <2>3. QED
    BY <2>1, <2>2 DEF KernelState, SameSched
<1> HIDE DEF ka
<1>2. kb \in KernelState /\ SameSched(ka, kb) /\ kb.bstate = ka.bstate
  BY <1>1, UnlinkFrame, UnlinkSlotType
<1>3. r = IF kb.list[p] # <<>> THEN kb ELSE [kb EXCEPT !.map = m, !.high = h]
  BY DEF os_rq_del_task, ka
<1> HIDE DEF kb, m, h, r
<1>4. SameSched(kb, r) /\ r.bstate = kb.bstate
  BY <1>2, <1>3 DEF KernelState, SameSched
<1>5. QED
  BY <1>1, <1>2, <1>4 DEF SameSched, r

LEMMA AddBlockFrame ==
  ASSUME NEW k0 \in KernelState, NEW t \in Task, NEW obj \in Object
  PROVE  LET k1 == os_add_block_task(k0, t, obj)
         IN SameSched(k0, k1) /\ k1.bstate = k0.bstate
<1> DEFINE ka == os_rq_del_task(k0, t)
           ls == [ka.list EXCEPT ![obj] = BlockInsert(k0, ka.list[obj], t)]
           st == [ka.state EXCEPT ![t] = "BLOCKING"]
           f1 == ka.fault \/ SlotLinked(ka, t)
           k1 == os_add_block_task(k0, t, obj)
<1>1. ka \in KernelState /\ SameSched(k0, ka) /\ ka.bstate = k0.bstate
  BY DelTaskType, DelTaskFrame
<1>2. k1 = [ka EXCEPT !.list = ls, !.state = st, !.fault = f1]
  BY DEF os_add_block_task
<1> HIDE DEF ka, ls, st, f1, k1
<1>3. SameSched(ka, k1) /\ k1.bstate = ka.bstate
  BY <1>1, <1>2 DEF KernelState, SameSched
<1>4. QED
  BY <1>1, <1>3 DEF SameSched, k1

LEMMA AddNodeFrame ==
  ASSUME NEW k0 \in KernelState, NEW t \in Task, NEW n \in Count
  PROVE  LET k1 == os_tick_add_node(k0, t, n)
         IN SameSched(k0, k1) /\ NoNewWait(k0, k1, t)
<1> DEFINE i  == TickPosition(k0.ticks, n)
           bs == [k0.bstate EXCEPT ![t] = "TICKING"]
           ka == [k0 EXCEPT !.bstate = bs]
           kb == os_rq_del_task(ka, t)
           st == [kb.state EXCEPT ![t] = "BLOCKING"]
           f1 == kb.fault \/ TickLinked(k0, t)
           tk == IF i <= Len(k0.ticks) /\ Expiry(k0.ticks)[i] = n
                   THEN TickJoin(k0, i, t) ELSE TickSplit(k0, i, t, n)
           k1 == os_tick_add_node(k0, t, n)
<1>1. /\ bs \in [Task -> BlockState] /\ \A u \in Task \ {t} : bs[u] = k0.bstate[u]
  BY DEF KernelState, BlockState
<1>2. k1 = [kb EXCEPT !.state = st, !.fault = f1, !.ticks = tk]
  BY DEF os_tick_add_node
<1> HIDE DEF bs, st, f1, tk, k1
<1>3. ka \in KernelState /\ SameSched(k0, ka) /\ ka.bstate = bs
  BY <1>1 DEF KernelState, SameSched
<1> HIDE DEF ka
<1>4. kb \in KernelState /\ SameSched(ka, kb) /\ kb.bstate = bs
  BY <1>3, DelTaskType, DelTaskFrame
<1> HIDE DEF kb
<1>5. SameSched(kb, k1) /\ k1.bstate = bs
  BY <1>2, <1>4 DEF KernelState, SameSched
<1>6. QED
  BY <1>1, <1>3, <1>4, <1>5 DEF SameSched, NoNewWait, k1

LEMMA EndWaitFrame ==
  ASSUME NEW k0 \in KernelState, NEW t \in Task, NEW why \in {"TIMEOUT", "EARLY_WAKEUP"}
  PROVE  LET k1 == EndWait(UnlinkTick(k0, t), t, why)
         IN SameSched(k0, k1) /\ NoNewWait(k0, k1, NULL)
<1> DEFINE ka == UnlinkTick(k0, t)
           bs == [ka.bstate EXCEPT ![t] = why]
           kb == [ka EXCEPT !.bstate = bs]
           kc == UnlinkSlot(kb, t)
           k1 == os_rq_add_task(kc, t)
<1>1. ka \in KernelState /\ SameSched(k0, ka) /\ ka.bstate = k0.bstate
  BY UnlinkTickType, UnlinkFrame
<1> HIDE DEF ka
<1>2. /\ bs \in [Task -> BlockState] /\ bs[t] # "TICKING"
      /\ \A u \in Task \ {t} : bs[u] = k0.bstate[u]
  BY <1>1 DEF KernelState, BlockState
<1>e. EndWait(ka, t, why) = k1
  BY DEF EndWait
<1> HIDE DEF bs
<1>3. kb \in KernelState /\ SameSched(ka, kb) /\ kb.bstate = bs
  BY <1>1, <1>2 DEF KernelState, SameSched
<1> HIDE DEF kb
<1>4. kc \in KernelState /\ SameSched(kb, kc) /\ kc.bstate = bs
  BY <1>3, UnlinkSlotType, UnlinkFrame
<1> HIDE DEF kc
<1>5. SameSched(kc, k1) /\ k1.bstate = bs
  BY <1>4, AddTaskFrame
<1> HIDE DEF k1
<1>6. SameSched(k0, k1) /\ NoNewWait(k0, k1, NULL)
  BY <1>1, <1>2, <1>3, <1>4, <1>5 DEF SameSched, NoNewWait
<1>7. QED
  BY <1>e, <1>6 DEF ka

LEMMA CreateFrame ==
  ASSUME NEW k0 \in KernelState, NEW t \in Task, NEW p \in Prio
  PROVE  LET k1 == os_task_create(k0, t, p)
         IN SameSched(k0, k1) /\ k1.bstate = k0.bstate
<1> DEFINE ka == [k0 EXCEPT !.prio[t] = p, !.state[t] = "NEW", !.slice[t] = 0]
<1>1. ka \in KernelState /\ SameSched(k0, ka) /\ ka.bstate = k0.bstate
  BY ListNames DEF KernelState, TaskState, SameSched
<1>2. os_task_create(k0, t, p) = os_rq_add_task(ka, t)
  BY DEF os_task_create
<1> HIDE DEF ka
<1>3. SameSched(ka, os_rq_add_task(ka, t)) /\ os_rq_add_task(ka, t).bstate = ka.bstate
  BY <1>1, AddTaskFrame
<1>4. QED
  BY <1>1, <1>2, <1>3 DEF SameSched

\* The ticks that are counted.
LEMMA TakeMissedFrame ==
  ASSUME NEW k0 \in KernelState, NEW c
  PROVE  SameSched(k0, TakeMissed(k0, c)) /\ TakeMissed(k0, c).bstate = k0.bstate
<1> DEFINE less(x) == [k0.ticks EXCEPT ![1].cnt = x]
<1>1. TakeMissed(k0, c) =
        IF k0.tickMissed > c THEN [k0 EXCEPT !.ticks = less(0)]
        ELSE [k0 EXCEPT !.ticks = less(c - k0.tickMissed), !.tickMissed = 0]
  BY DEF TakeMissed
<1> HIDE DEF less
<1>2. \A tk : /\ SameSched(k0, [k0 EXCEPT !.ticks = tk])
              /\ SameSched(k0, [k0 EXCEPT !.ticks = tk, !.tickMissed = 0])
              /\ [k0 EXCEPT !.ticks = tk].bstate = k0.bstate
              /\ [k0 EXCEPT !.ticks = tk, !.tickMissed = 0].bstate = k0.bstate
  BY DEF KernelState, SameSched
<1>3. QED
  BY <1>1, <1>2

LEMMA TickFrame ==
  ASSUME NEW k0 \in KernelState
  PROVE  /\ SameSched(k0, CountTick(k0)) /\ CountTick(k0).bstate = k0.bstate
         /\ k0.ticks # <<>> =>
              SameSched(k0, DropNode(k0)) /\ DropNode(k0).bstate = k0.bstate
         /\ k0.cur \in Task =>
              SameSched(k0, UseSlice(k0)) /\ UseSlice(k0).bstate = k0.bstate
<1>1. SameSched(k0, CountTick(k0)) /\ CountTick(k0).bstate = k0.bstate
  BY TakeMissedFrame DEF CountTick, SameSched
<1>2. ASSUME k0.ticks # <<>>
      PROVE  SameSched(k0, DropNode(k0)) /\ DropNode(k0).bstate = k0.bstate
  <2> DEFINE ka == [k0 EXCEPT !.ticks = Tail(k0.ticks)]
  <2>1. ka \in KernelState /\ SameSched(k0, ka) /\ ka.bstate = k0.bstate
    <3>1. Tail(k0.ticks) \in Seq(TickNode)
      BY <1>2 DEF KernelState
    <3>2. QED
      BY <3>1 DEF KernelState, SameSched
  <2>2. DropNode(k0) = IF ka.ticks = <<>> THEN ka ELSE TakeMissed(ka, ka.ticks[1].cnt)
    BY DEF DropNode
  <2> HIDE DEF ka
  <2>3. /\ SameSched(ka, TakeMissed(ka, ka.ticks[1].cnt))
        /\ TakeMissed(ka, ka.ticks[1].cnt).bstate = ka.bstate
    BY <2>1, TakeMissedFrame
  <2>4. QED
    BY <2>1, <2>2, <2>3 DEF SameSched
<1>3. SameSched(k0, UseSlice(k0)) /\ UseSlice(k0).bstate = k0.bstate
  <2> DEFINE s == k0.slice[k0.cur]
             left == IF k0.sliceMissed >= s THEN 0 ELSE s - k0.sliceMissed - 1
             sl == [k0.slice EXCEPT ![k0.cur] = IF left > Timeslice THEN 0 ELSE left]
  <2>1. UseSlice(k0) = [k0 EXCEPT !.slice = sl, !.sliceMissed = 0]
    BY DEF UseSlice
  <2> HIDE DEF sl
  <2>2. QED
    BY <2>1 DEF KernelState, SameSched
<1>4. QED
  BY <1>1, <1>2, <1>3

\* The scheduling functions: under the lock they choose between two tasks.
LEMMA SchedFrame ==
  ASSUME NEW k0 \in KernelState, NEW by \in {"thread", "sw"}
  PROVE  LET k1 == os_sched(k0, by)
             holder == Holder(k0, by)
         IN /\ k1.lock = k0.lock /\ k1.locker = k0.locker
            /\ k1.cur = k0.cur /\ k1.bstate = k0.bstate
            /\ k0.lock = 0 => k1.lockTcb = k0.lockTcb
            /\ k0.lock > 0 /\ holder # NULL =>
                 /\ k1.lockTcb = [k0.lockTcb EXCEPT ![by] = holder]
                 /\ k1.nxt = IF k0.bstate[holder] = "TICKING" THEN Idle ELSE holder
                 /\ k1.fault = k0.fault
<1> DEFINE holder == Holder(k0, by)
           n == IF k0.bstate[holder] = "TICKING" THEN Idle ELSE holder
           lt == [k0.lockTcb EXCEPT ![by] = holder]
           kh == os_rq_get_highest_prio_task(k0)
           ka == ChooseReady(k0, by)
           st == [t \in Task |->
                    IF t = ka.nxt THEN "RUNNING"
                    ELSE IF t = ka.cur /\ ka.state[t] = "RUNNING" THEN "READY"
                    ELSE ka.state[t]]
           k1 == os_sched(k0, by)
<1>0. k0.lock \in Nat /\ ka \in KernelState
  BY ChooseReadyType DEF KernelState
<1>1. /\ kh.lock = k0.lock /\ kh.locker = k0.locker /\ kh.cur = k0.cur
      /\ kh.bstate = k0.bstate /\ kh.lockTcb = k0.lockTcb
  <2> DEFINE h  == k0.high
             n1 == SkipHead(k0, IF k0.tsPrio = h THEN k0.tsNode ELSE NextNode(k0, h))
             n2 == IF Rotates(k0, n1) THEN SkipHead(k0, NextNode(k0, n1)) ELSE n1
             sl == [k0.slice EXCEPT ![n1] = IF Rotates(k0, n1) THEN Timeslice ELSE @]
  <2>1. kh = IF n1 \notin Task THEN [k0 EXCEPT !.fault = TRUE]
             ELSE IF n2 \notin Task THEN [k0 EXCEPT !.fault = TRUE]
             ELSE [k0 EXCEPT !.tsPrio = h, !.tsNode = n2, !.nxt = n2, !.slice = sl]
    BY DEF os_rq_get_highest_prio_task
  <2> HIDE DEF h, n1, n2, sl, kh
  <2>2. QED
    BY <2>1 DEF KernelState
<1>2. ka = IF k0.lock = 0 THEN kh
           ELSE IF holder = NULL THEN [k0 EXCEPT !.fault = TRUE]
           ELSE [k0 EXCEPT !.lockTcb = lt, !.nxt = n]
  BY DEF ChooseReady, Holder
<1>3. k1 = IF ka.fault \/ ka.nxt = ka.cur THEN ka ELSE [ka EXCEPT !.state = st]
  BY DEF os_sched
<1>n. n = IF k0.bstate[holder] = "TICKING" THEN Idle ELSE holder
  OBVIOUS
<1>l. lt = [k0.lockTcb EXCEPT ![by] = holder]
  OBVIOUS
<1> HIDE DEF holder, n, lt, kh, ka, st, k1
<1>4. /\ ka.lock = k0.lock /\ ka.locker = k0.locker
      /\ ka.cur = k0.cur /\ ka.bstate = k0.bstate
      /\ k0.lock = 0 => ka.lockTcb = k0.lockTcb
      /\ k0.lock > 0 /\ holder # NULL => ka.lockTcb = lt /\ ka.nxt = n /\ ka.fault = k0.fault
  <2>1. CASE k0.lock = 0
    BY <1>1, <1>2, <2>1
  <2>2. CASE k0.lock # 0 /\ holder = NULL
    <3>1. ka = [k0 EXCEPT !.fault = TRUE]
      BY <1>2, <2>2
    <3>2. QED
      BY <2>2, <3>1 DEF KernelState
  <2>3. CASE k0.lock # 0 /\ holder # NULL
    <3>1. ka = [k0 EXCEPT !.lockTcb = lt, !.nxt = n]
      BY <1>2, <2>3
    <3>2. QED
      BY <2>3, <3>1 DEF KernelState
  <2>4. QED
    BY <2>1, <2>2, <2>3
<1>5. /\ k1.lock = ka.lock /\ k1.locker = ka.locker /\ k1.fault = ka.fault
      /\ k1.cur = ka.cur /\ k1.bstate = ka.bstate /\ k1.lockTcb = ka.lockTcb /\ k1.nxt = ka.nxt
  BY <1>0, <1>3 DEF KernelState
<1>6. QED
  BY <1>4, <1>5, <1>l, <1>n DEF holder, k1

-----------------------------------------------------------------------------
(* The steps.                                                              *)

\* A system call of a task: only the caller may begin to wait for a tick, and the
\* lock, if it is changed, is the caller's.
LEMMA CallKeepsLock ==
  ASSUME TypeInv, LockInv, NEW t \in Task \ {Idle}, Runs(t), todo[t] = <<>>,
         NEW k1, NEW rest, Then(t, k1, rest), k1 \in KernelState,
         rest \in {<<>>, <<"sched">>, <<"sched", "delayRet">>, <<"sched", "gone">>},
         NoNewWait(k, k1, t), k1.lockTcb = k.lockTcb, k1.cur = k.cur, k1.nxt = k.nxt,
         k1.lock > 0 => k1.locker = t
  PROVE  LockInv'
<1>1. /\ k.cur = t /\ irq = "none" /\ running /\ ~ k.fault /\ ~ (swEnabled /\ swPending)
      /\ k' = k1 /\ todo' = [todo EXCEPT ![t] = rest]
      /\ UNCHANGED <<running, swEnabled, swPending, irq>>
  BY DEF Runs, Then
<1>2. todo \in [Task -> Seq(Step)] /\ t # NULL /\ Idle \in Task
  BY TypeParts, ListNames
<1>3. BootInv'
  BY <1>1, <1>2 DEF LockInv, BootInv
<1>4. TodoInv'
  <2>1. \A i \in 2..Len(rest) : rest[i] \in {"delayRet", "waitRet", "gone"}
    OBVIOUS
  <2>2. todo'[t] = rest /\ \A u \in Task \ {t} : todo'[u] = todo[u]
    BY <1>1, <1>2
  <2>3. QED
    BY <1>2, <2>1, <2>2 DEF LockInv, TodoInv
<1>5. ~ CtxDue /\ ~ CtxDue'
  <2>1. todo'[t] = rest
    BY <1>1, <1>2
  <2>2. rest = <<>> \/ Head(rest) = "sched"
    OBVIOUS
  <2>3. QED
    BY <1>1, <2>1, <2>2 DEF CtxDue
<1>6. Works' => Works /\ k.nxt = t /\ ~ SwitchComing'
  BY <1>1, <1>5 DEF Works, LockInv, HolderInv, SwitchComing
<1>7. HolderInv'
  BY <1>1, <1>2, <1>6 DEF HolderInv
<1>8. IdleInv' /\ OwnInv'
  BY <1>1, <1>2, <1>6 DEF IdleInv, OwnInv
<1>9. QED
  BY <1>3, <1>4, <1>7, <1>8 DEF LockInv

LEMMA CallLock == ASSUME TypeInv, LockInv, NEW t \in Task, Call(t) PROVE LockInv'
<1>1. /\ k \in KernelState /\ alive \subseteq Task /\ k.lock \in Nat
      /\ t \in Task \ {Idle} /\ Runs(t) /\ todo[t] = <<>>
  BY TypeParts DEF Call, Create, Exit, os_task_delay_ms, os_task_yield, os_task_suspend,
     os_task_resume, WakeTick, os_sched_lock, os_sched_unlock, Invokes, KernelState
<1> DEFINE nested(n, h) == [k EXCEPT !.lock = n, !.locker = h]
<1>2. ASSUME NEW n \in Nat, NEW h \in Task \cup {NULL}
      PROVE  /\ nested(n, h) \in KernelState /\ nested(n, h).lock = n /\ nested(n, h).locker = h
             /\ nested(n, h).lockTcb = k.lockTcb /\ nested(n, h).cur = k.cur
             /\ nested(n, h).nxt = k.nxt /\ nested(n, h).bstate = k.bstate
  BY <1>1 DEF KernelState
<1>3. k.lock > 0 => k.locker = t
  BY <1>1 DEF LockInv, HolderInv, Runs
<1>s. \A rest : \A k1 \in KernelState :
        /\ SameSched(k, k1) /\ NoNewWait(k, k1, t) /\ Then(t, k1, rest)
        /\ rest \in {<<>>, <<"sched">>, <<"sched", "delayRet">>, <<"sched", "gone">>}
        => LockInv'
  BY <1>1, <1>3, CallKeepsLock DEF SameSched
<1>b. \A k1 : k1.bstate = k.bstate \/ NoNewWait(k, k1, NULL) => NoNewWait(k, k1, t)
  BY <1>1, ListNames DEF NoNewWait
<1>l. ASSUME LeakCritical PROVE LockInv'
  BY <1>l, <1>1 DEF LeakCritical, LockInv, BootInv, TodoInv, HolderInv, IdleInv, OwnInv,
     Works, Runs
<1>4. CASE Create(t)
  <2>1. PICK u \in UserTask \ alive, p \in UserPrio :
          Then(t, os_task_create(k, u, p), <<"sched">>)
    BY <1>4 DEF Create
  <2>2. u \in Task /\ p \in Prio
    BY ClientFacts
  <2>3. /\ os_task_create(k, u, p) \in KernelState
        /\ SameSched(k, os_task_create(k, u, p)) /\ os_task_create(k, u, p).bstate = k.bstate
    BY <1>1, <2>2, CreateFrame, CreateType
  <2>4. QED
    BY <1>s, <1>b, <2>1, <2>3
<1>5. CASE Exit(t)
  <2>1. /\ os_rq_del_task(k, t) \in KernelState
        /\ SameSched(k, os_rq_del_task(k, t)) /\ os_rq_del_task(k, t).bstate = k.bstate
    BY <1>1, DelTaskFrame, DelTaskType
  <2>2. QED
    BY <1>5, <1>s, <1>b, <2>1 DEF Exit
<1>6. CASE os_task_delay_ms(t)
  <2>1. PICK n \in Delays : Then(t, os_add_tick_task(k, t, n, NULL), <<"sched", "delayRet">>)
    BY <1>6 DEF os_task_delay_ms
  <2> DEFINE k1 == os_add_tick_task(k, t, n, NULL)
  <2>2. k1 = IF k.state[t] = "BLOCKING" THEN k ELSE os_tick_add_node(k, t, n)
    BY ClientAssumption, KernelAssumption DEF os_add_tick_task, Count
  <2>3. k1 \in KernelState /\ n \in Count
    BY <1>1, ClientFacts, AddTickType, ClientAssumption
  <2>4. SameSched(k, k1) /\ NoNewWait(k, k1, t)
    BY <1>1, <2>2, <2>3, AddNodeFrame DEF SameSched, NoNewWait
  <2> HIDE DEF k1
  <2>5. Then(t, k1, <<"sched", "delayRet">>)
    BY <2>1 DEF k1
  <2>6. QED
    BY <1>s, <2>3, <2>4, <2>5
<1>7. CASE os_task_yield(t)
  <2> DEFINE k1 == [k EXCEPT !.slice[t] = 0]
  <2>1. k1 \in KernelState /\ SameSched(k, k1) /\ k1.bstate = k.bstate
    BY <1>1, ListNames DEF KernelState, SameSched
  <2>2. Then(t, k1, <<"sched">>)
    BY <1>7 DEF os_task_yield
  <2> HIDE DEF k1
  <2>3. QED
    BY <1>s, <1>b, <2>1, <2>2
<1>8. CASE os_task_suspend(t)
  <2>1. PICK u \in Suspendable :
          IF k.state[u] = "BLOCKING" THEN LeakCritical
          ELSE Then(t, os_add_block_task(k, u, SysBlock), <<"sched">>)
    BY <1>8 DEF os_task_suspend
  <2>2. u \in Task
    BY <1>1 DEF Suspendable
  <2> DEFINE k1 == os_add_block_task(k, u, SysBlock)
  <2>3. k1 \in KernelState /\ SameSched(k, k1) /\ k1.bstate = k.bstate
    BY <1>1, <2>2, ListNames, AddBlockType, AddBlockFrame
  <2> HIDE DEF k1
  <2>4. QED
    BY <1>l, <1>s, <1>b, <2>1, <2>3 DEF k1
<1>9. CASE os_task_resume(t)
  <2>1. PICK u \in Resumable :
          IF k.state[u] # "BLOCKING" THEN LeakCritical
          ELSE Then(t, os_rq_add_task(UnlinkSlot(k, u), u), <<"sched">>)
    BY <1>9 DEF os_task_resume
  <2>2. u \in Task
    BY <1>1 DEF Resumable
  <2> DEFINE ka == UnlinkSlot(k, u)
             k1 == os_rq_add_task(ka, u)
  <2>3. ka \in KernelState /\ SameSched(k, ka) /\ ka.bstate = k.bstate
    BY <1>1, <2>2, UnlinkSlotType, UnlinkFrame
  <2> HIDE DEF ka
  <2>4. k1 \in KernelState /\ SameSched(ka, k1) /\ k1.bstate = ka.bstate
    BY <2>2, <2>3, AddTaskType, AddTaskFrame
  <2> HIDE DEF k1
  <2>5. SameSched(k, k1) /\ k1.bstate = k.bstate
    BY <2>3, <2>4 DEF SameSched
  <2>6. QED
    BY <1>l, <1>s, <1>b, <2>1, <2>4, <2>5 DEF k1, ka
<1>10. CASE WakeTick(t)
  <2>1. PICK u \in alive : Then(t, os_wakeup_tick_task(k, u), <<>>)
    BY <1>10 DEF WakeTick
  <2> DEFINE k1 == os_wakeup_tick_task(k, u)
  <2>2. k1 = EndWait(UnlinkTick(k, u), u, "EARLY_WAKEUP") /\ u \in Task
    BY <1>1 DEF os_wakeup_tick_task
  <2>3. k1 \in KernelState /\ SameSched(k, k1) /\ NoNewWait(k, k1, NULL)
    BY <1>1, <2>2, WakeTickType, EndWaitFrame
  <2> HIDE DEF k1
  <2>4. QED
    BY <1>s, <1>b, <2>1, <2>3 DEF k1
<1>11. CASE os_sched_lock(t)
  <2> DEFINE h == IF k.lock = 0 THEN t ELSE k.locker
             k1 == nested(k.lock + 1, h)
  <2>1. h = t /\ h \in Task \cup {NULL} /\ k.lock + 1 \in Nat
    BY <1>1, <1>3
  <2>2. Then(t, k1, <<>>)
    BY <1>11 DEF os_sched_lock
  <2> HIDE DEF h, nested
  <2>3. /\ k1 \in KernelState /\ k1.locker = t /\ NoNewWait(k, k1, t)
        /\ k1.lockTcb = k.lockTcb /\ k1.cur = k.cur /\ k1.nxt = k.nxt
    BY <1>2, <1>b, <2>1
  <2> HIDE DEF k1
  <2>4. QED
    BY <1>1, <2>2, <2>3, CallKeepsLock
<1>12. CASE os_sched_unlock(t)
  <2> DEFINE h == IF k.lock = 1 THEN NULL ELSE k.locker
             k1 == nested(k.lock - 1, h)
  <2>1. k.lock > 0 /\ Then(t, k1, <<"sched">>)
    BY <1>12 DEF os_sched_unlock
  <2>2. k.lock - 1 \in Nat /\ h \in Task \cup {NULL} /\ (k.lock - 1 > 0 => h = t)
    BY <1>1, <1>3, <2>1
  <2> HIDE DEF h, nested
  <2>3. /\ k1 \in KernelState /\ (k1.lock > 0 => k1.locker = t) /\ NoNewWait(k, k1, t)
        /\ k1.lockTcb = k.lockTcb /\ k1.cur = k.cur /\ k1.nxt = k.nxt
    BY <1>2, <1>b, <2>2
  <2> HIDE DEF k1
  <2>4. QED
    BY <1>1, <2>1, <2>3, CallKeepsLock
<1>13. QED
  BY <1>4, <1>5, <1>6, <1>7, <1>8, <1>9, <1>10, <1>11, <1>12 DEF Call

\* What an os_sched of a thread or the tick handler leaves: the holder, who is
\* current or left the processor to the idle task, or the idle task itself.
LEMMA ThreadChoice ==
  ASSUME TypeInv, LockInv, Works, k.lock > 0,
         NEW k0 \in KernelState, SameSched(k, k0), k0.bstate = k.bstate
  PROVE  LET k1 == os_sched(k0, "thread")
         IN /\ k1.lock = k.lock /\ k1.locker = k.locker /\ k1.cur = k.cur
            /\ k1.bstate = k.bstate /\ k1.lockTcb["thread"] = k.locker
            /\ k1.nxt = IF k.bstate[k.locker] = "TICKING" THEN Idle ELSE k.locker
<1>1. /\ Holder(k0, "thread") = k.locker /\ k.locker # NULL /\ k0.lock = k.lock
      /\ k0.locker = k.locker /\ k0.cur = k.cur
  BY ListNames DEF Holder, SameSched, LockInv, HolderInv, IdleInv
<1>2. /\ k0.lockTcb \in [{"thread", "sw"} -> Task \cup {NULL}]
  BY DEF KernelState
<1>3. "thread" \in {"thread", "sw"}
  OBVIOUS
<1> DEFINE k1 == os_sched(k0, "thread")
<1>4. /\ k1.lock = k0.lock /\ k1.locker = k0.locker
      /\ k1.cur = k0.cur /\ k1.bstate = k0.bstate
      /\ k1.lockTcb = [k0.lockTcb EXCEPT !["thread"] = k.locker]
      /\ k1.nxt = IF k0.bstate[k.locker] = "TICKING" THEN Idle ELSE k.locker
  BY <1>1, <1>3, SchedFrame
<1> HIDE DEF k1
<1>5. QED
  BY <1>1, <1>2, <1>4 DEF k1

LEMMA TaskStepLock == ASSUME TypeInv, LockInv, NEW t \in Task, TaskStep(t) PROVE LockInv'
<1>1. /\ k \in KernelState /\ todo \in [Task -> Seq(Step)] /\ todo[t] \in Seq(Step)
      /\ todo[t] # <<>> /\ Tail(todo[t]) \in Seq(Step) /\ k.lock \in Nat
      /\ k.cur = t /\ irq = "none" /\ running /\ ~ k.fault /\ ~ (swEnabled /\ swPending)
  <2>1. todo[t] # <<>> /\ Runs(t)
    BY DEF TaskStep, SchedStep, os_ctx_sw, DelayReturn, RunsOff, Continues
  <2>2. todo[t] \in Seq(Step) /\ k \in KernelState
    BY TypeParts
  <2>3. Tail(todo[t]) \in Seq(Step) /\ k.lock \in Nat
    BY <2>1, <2>2 DEF KernelState
  <2>4. QED
    BY <2>1, <2>2, <2>3, TypeParts DEF Runs
<1>2. t # Idle /\ t # NULL /\ Idle \in Task
  BY <1>1, ListNames DEF LockInv, TodoInv
<1>3. /\ \A i \in 1..Len(Tail(todo[t])) : Tail(todo[t])[i] \in {"delayRet", "waitRet", "gone"}
      /\ Tail(todo[t]) # <<>> => Head(Tail(todo[t])) # "ctxSw"
  <2>1. \A i \in 1..Len(Tail(todo[t])) :
          Tail(todo[t])[i] = todo[t][i + 1] /\ i + 1 \in 2..Len(todo[t])
    BY <1>1
  <2>2. \A i \in 1..Len(Tail(todo[t])) : Tail(todo[t])[i] \in {"delayRet", "waitRet", "gone"}
    BY <2>1 DEF LockInv, TodoInv
  <2>3. Tail(todo[t]) # <<>> => /\ 1 \in 1..Len(Tail(todo[t]))
                                /\ Head(Tail(todo[t])) = Tail(todo[t])[1]
    BY <1>1
  <2>4. QED
    BY <2>2, <2>3
<1>t. ASSUME NEW rest, todo' = [todo EXCEPT ![t] = rest],
             \A i \in 2..Len(rest) : rest[i] \in {"delayRet", "waitRet", "gone"}
      PROVE  TodoInv' /\ todo'[t] = rest
  <2>1. todo'[t] = rest /\ \A u \in Task \ {t} : todo'[u] = todo[u]
    BY <1>1, <1>t
  <2>2. QED
    BY <1>2, <1>t, <2>1 DEF LockInv, TodoInv
<1>r. \A i \in 2..Len(Tail(todo[t])) : Tail(todo[t])[i] \in {"delayRet", "waitRet", "gone"}
  <2>1. 2..Len(Tail(todo[t])) \subseteq 1..Len(Tail(todo[t]))
    BY <1>1
  <2>2. QED
    BY <1>3, <2>1
<1>e. \A i \in 2..Len(<<>>) : FALSE
  OBVIOUS
<1>4. CASE SchedStep(t)
  <2> DEFINE k1 == os_sched(k, "thread")
             pre == IF Switches(k1) THEN <<"ctxSw">> ELSE <<>>
             rest == pre \o Tail(todo[t])
  <2>1. /\ k' = k1 /\ todo' = [todo EXCEPT ![t] = rest]
        /\ UNCHANGED <<running, swEnabled, swPending, irq>>
    BY <1>4 DEF SchedStep, Then
  <2>2. k1.lock = k.lock /\ k1.locker = k.locker /\ k1.cur = k.cur
    BY <1>1, SchedFrame
  <2>3. Works /\ k.lock > 0 =>
          /\ k1.bstate = k.bstate /\ k1.lockTcb["thread"] = k.locker
          /\ k1.nxt = IF k.bstate[k.locker] = "TICKING" THEN Idle ELSE k.locker
    BY <1>1, ThreadChoice DEF SameSched
  <2>s. Switches(k1) <=> ~ k1.fault /\ k1.nxt # k1.cur
    BY DEF Switches
  <2> HIDE DEF k1
  <2>4. /\ \A i \in 2..Len(rest) : rest[i] \in {"delayRet", "waitRet", "gone"}
        /\ IF Switches(k1) THEN rest # <<>> /\ Head(rest) = "ctxSw"
           ELSE rest = Tail(todo[t])
    <3> DEFINE w == Tail(todo[t])
    <3>1. w \in Seq(Step)
      BY <1>1
    <3>2. \A i \in 1..Len(w) : w[i] \in {"delayRet", "waitRet", "gone"}
      BY <1>3
    <3>3. rest = pre \o w
      OBVIOUS
    <3> HIDE DEF w, rest
    <3>4. CASE Switches(k1)
      <4>1. rest = <<"ctxSw">> \o w
        BY <3>3, <3>4
      <4>2. Len(rest) = Len(w) + 1 /\ rest # <<>> /\ Head(rest) = "ctxSw"
        BY <3>1, <4>1
      <4>3. ASSUME NEW i \in 2..Len(rest) PROVE rest[i] \in {"delayRet", "waitRet", "gone"}
        <5>1. i - 1 \in 1..Len(w) /\ rest[i] = w[i - 1]
          BY <3>1, <4>1, <4>2
        <5>2. QED
          BY <3>2, <5>1
      <4>4. QED
        BY <3>4, <4>2, <4>3
    <3>5. CASE ~ Switches(k1)
      <4>1. rest = w
        BY <3>1, <3>3, <3>5
      <4>2. QED
        BY <3>1, <3>2, <3>5, <4>1 DEF w
    <3>6. QED
      BY <3>4, <3>5
  <2> HIDE DEF rest
  <2>5. TodoInv' /\ todo'[t] = rest
    BY <1>t, <2>1, <2>4
  <2>6. BootInv'
    BY <1>1, <1>2, <2>1, <2>2 DEF LockInv, BootInv
  <2>7. ~ k1.fault => (CtxDue' <=> k1.nxt # k1.cur)
    BY <1>1, <1>3, <2>1, <2>2, <2>4, <2>5, <2>s DEF CtxDue
  <2>8. Works' => Works /\ ~ k1.fault
    BY <1>1, <2>1 DEF Works
  <2>9. HolderInv'
    BY <1>1, <2>1, <2>2, <2>3, <2>7, <2>8 DEF LockInv, HolderInv, SwitchComing, CtxDue
  <2>10. IdleInv' /\ OwnInv'
    BY <1>1, <1>2, <2>1, <2>2, <2>3, <2>7, <2>8
    DEF LockInv, HolderInv, IdleInv, OwnInv, SwitchComing, Works
  <2>11. QED
    BY <2>5, <2>6, <2>9, <2>10 DEF LockInv
<1>5. CASE os_ctx_sw(t)
  <2>1. /\ Head(todo[t]) = "ctxSw" /\ swPending' = TRUE
        /\ todo' = [todo EXCEPT ![t] = Tail(todo[t])]
        /\ UNCHANGED <<k, running, alive, swEnabled, irq>>
    BY <1>5 DEF os_ctx_sw, Continues
  <2>2. TodoInv'
    BY <1>r, <1>t, <2>1
  <2>3. SwitchComing /\ SwitchComing'
    BY <1>1, <2>1 DEF SwitchComing, CtxDue
  <2>4. BootInv'
    BY <1>1, <2>1 DEF LockInv, BootInv
  <2>5. Works' <=> Works
    BY <2>1 DEF Works
  <2>6. HolderInv' /\ IdleInv' /\ OwnInv'
    BY <1>1, <1>2, <2>1, <2>3, <2>5 DEF LockInv, HolderInv, IdleInv, OwnInv
  <2>7. QED
    BY <2>2, <2>4, <2>6 DEF LockInv
<1>6. CASE DelayReturn(t)
  <2> DEFINE b == IF k.bstate[t] = "EARLY_WAKEUP" THEN "NONE" ELSE k.bstate[t]
             bs == [k.bstate EXCEPT ![t] = b]
  <2>1. /\ Head(todo[t]) = "delayRet" /\ k' = [k EXCEPT !.bstate = bs]
        /\ todo' = [todo EXCEPT ![t] = Tail(todo[t])]
        /\ UNCHANGED <<running, alive, swEnabled, swPending, irq>>
    BY <1>6 DEF DelayReturn, Continues, Then
  <2> HIDE DEF bs
  <2>2. SameSched(k, k') /\ k'.fault = k.fault
    BY <1>1, <2>1 DEF KernelState, SameSched
  <2>3. TodoInv' /\ todo'[t] = Tail(todo[t])
    BY <1>r, <1>t, <2>1
  <2>4. ~ SwitchComing' \/ ~ Works'
    BY <1>1, <1>3, <2>1, <2>2, <2>3 DEF SwitchComing, CtxDue, SameSched, Works
  <2>5. BootInv'
    BY <1>1, <1>2, <2>1, <2>2 DEF LockInv, BootInv, SameSched
  <2>6. Works' => Works /\ k.nxt = t /\ ~ SwitchComing
    BY <1>1, <2>1, <2>2 DEF Works, LockInv, HolderInv, SwitchComing, CtxDue
  <2>7. HolderInv' /\ IdleInv' /\ OwnInv'
    BY <1>1, <1>2, <2>1, <2>2, <2>4, <2>6
    DEF LockInv, HolderInv, IdleInv, OwnInv, SameSched
  <2>8. QED
    BY <2>3, <2>5, <2>7 DEF LockInv
<1>7. CASE RunsOff(t)
  <2>1. /\ k' = [k EXCEPT !.fault = TRUE] /\ todo' = [todo EXCEPT ![t] = <<>>]
        /\ UNCHANGED <<running, alive, swEnabled, swPending, irq>>
    BY <1>7 DEF RunsOff, Then
  <2>2. SameSched(k, k') /\ ~ Works'
    BY <1>1, <2>1 DEF KernelState, SameSched, Works
  <2>3. TodoInv'
    BY <1>e, <1>t, <2>1
  <2>4. BootInv' /\ HolderInv' /\ IdleInv' /\ OwnInv'
    BY <1>1, <1>2, <2>1, <2>2 DEF LockInv, BootInv, HolderInv, IdleInv, OwnInv, SameSched
  <2>5. QED
    BY <2>3, <2>4 DEF LockInv
<1>8. QED
  BY <1>4, <1>5, <1>6, <1>7 DEF TaskStep

\* A step of the tick handler that does not schedule.
LEMMA CountingLock ==
  ASSUME TypeInv, LockInv, SameSched(k, k'), NoNewWait(k, k', NULL),
         running, k.cur # NULL, ~ k.fault, irq # "sw", irq' \in {"none", "tick"},
         UNCHANGED <<running, todo, swEnabled, swPending>>
  PROVE  LockInv'
<1>1. BootInv' /\ TodoInv'
  BY DEF LockInv, BootInv, TodoInv, SameSched
<1>2. (SwitchComing' <=> SwitchComing) /\ (Works' => Works)
  BY DEF SwitchComing, CtxDue, Works, SameSched
<1>3. \A u \in Task : k.bstate[u] # "TICKING" => k'.bstate[u] # "TICKING"
  BY ListNames DEF NoNewWait
<1>4. k.cur \in Task
  BY TypeParts
<1>5. HolderInv'
  BY <1>2 DEF LockInv, HolderInv, SameSched
<1>6. IdleInv' /\ OwnInv'
  BY <1>2, <1>3, <1>4 DEF LockInv, HolderInv, IdleInv, OwnInv, SameSched
<1>7. QED
  BY <1>1, <1>5, <1>6 DEF LockInv

\* A step of the tick handler that schedules.
LEMMA TickSchedLock ==
  ASSUME TypeInv, LockInv, NEW k0 \in KernelState, NEW k1,
         SameSched(k, k0), k0.bstate = k.bstate, k1 = os_sched(k0, "thread"),
         SameSched(k1, k'), k'.bstate = k1.bstate, k'.fault = k1.fault, Pend(k1, TRUE),
         running, k.cur # NULL, ~ k.fault, irq # "sw", irq' \in {"none", "tick"},
         UNCHANGED <<running, todo, swEnabled>>
  PROVE  LockInv'
<1>1. k1.lock = k.lock /\ k1.locker = k.locker /\ k1.cur = k.cur /\ k1.bstate = k.bstate
  BY SchedFrame DEF SameSched
<1>2. Works /\ k.lock > 0 =>
        /\ k1.lockTcb["thread"] = k.locker
        /\ k1.nxt = IF k.bstate[k.locker] = "TICKING" THEN Idle ELSE k.locker
  BY ThreadChoice
<1>3. swPending' <=> swPending \/ (~ k1.fault /\ k1.nxt # k1.cur)
  BY DEF Pend, Switches
<1>4. k.cur \in Task /\ k.lock \in Nat
  BY TypeParts DEF KernelState
<1>5. /\ k'.lock = k.lock /\ k'.locker = k.locker /\ k'.cur = k.cur /\ k'.bstate = k.bstate
      /\ k'.lockTcb = k1.lockTcb /\ k'.nxt = k1.nxt /\ k'.fault = k1.fault
  BY <1>1 DEF SameSched
<1>6. BootInv' /\ TodoInv'
  BY <1>5 DEF LockInv, BootInv, TodoInv
<1>7. Works' => Works /\ ~ k1.fault
  BY <1>5 DEF Works
<1>8. HolderInv'
  BY <1>1, <1>2, <1>3, <1>4, <1>5, <1>7 DEF LockInv, HolderInv, SwitchComing
<1>9. IdleInv'
  BY <1>1, <1>2, <1>3, <1>4, <1>5, <1>7 DEF LockInv, HolderInv, IdleInv
<1>10. OwnInv'
  BY <1>1, <1>2, <1>3, <1>4, <1>5, <1>7 DEF LockInv, HolderInv, OwnInv
<1>11. QED
  BY <1>6, <1>8, <1>9, <1>10 DEF LockInv

LEMMA TickHandlerLock == ASSUME TypeInv, LockInv, TickHandler PROVE LockInv'
<1>1. /\ k \in KernelState /\ ~ k.fault /\ irq \in {"none", "tick"} /\ running
      /\ k.cur # NULL /\ k.cur \in Task /\ (irq = "tick" => k.ticks # <<>>)
      /\ UNCHANGED <<running, todo, swEnabled>> /\ irq' \in {"none", "tick"}
  <2>1. k \in KernelState /\ k.cur \in Task \cup {NULL}
    BY TypeParts
  <2>2. QED
    BY <2>1 DEF TickHandler, SysTick, TickTaken, ExpireTask, ExpireNext, ExpireLast, ExpiryDue,
       TypeInv, LockInv, BootInv
<1>2. CASE SysTick
  <2> DEFINE ka == UseSlice(k)
             k1 == os_sched_timeslice_poll(k)
             k2 == CountTick(k1)
  <2>1. k' = k2 /\ Pend(k1, SliceUsedUp(k))
    BY <1>2 DEF SysTick
  <2>2. ka \in KernelState /\ SameSched(k, ka) /\ ka.bstate = k.bstate
    BY <1>1, TickFrame, UseSliceType
  <2>3. k1 = IF SliceUsedUp(k) THEN os_sched(ka, "thread") ELSE ka
    BY DEF os_sched_timeslice_poll
  <2>4. k1 \in KernelState
    BY <1>1, PollType
  <2> HIDE DEF k1, ka
  <2>5. SameSched(k1, k2) /\ k2.bstate = k1.bstate /\ k2.fault = k1.fault
    <3>1. SameSched(k1, k2) /\ k2.bstate = k1.bstate
      BY <2>4, TickFrame
    <3>2. k2.fault = k1.fault
      BY <2>4 DEF CountTick, TakeMissed, KernelState
    <3>3. QED
      BY <3>1, <3>2
  <2> HIDE DEF k2
  <2>6. CASE SliceUsedUp(k)
    <3>1. Pend(k1, TRUE)
      BY <2>1, <2>6 DEF Pend
    <3>2. QED
      BY <1>1, <2>1, <2>2, <2>3, <2>5, <2>6, <3>1, TickSchedLock
  <2>7. CASE ~ SliceUsedUp(k)
    <3>1. SameSched(k, k') /\ NoNewWait(k, k', NULL)
      BY <2>1, <2>2, <2>3, <2>5, <2>7 DEF SameSched, NoNewWait
    <3>2. swPending' = swPending
      BY <2>1, <2>7 DEF Pend, TypeInv, TypeOK
    <3>3. QED
      BY <1>1, <3>1, <3>2, CountingLock
  <2>8. QED
    BY <2>6, <2>7
<1>3. CASE ExpireTask
  <2>1. k' = ExpireFirst(k) /\ k.ticks[1].tasks # <<>> /\ irq = "tick" /\ UNCHANGED swPending
    BY <1>3 DEF ExpireTask, ExpiryDue
  <2>2. Head(k.ticks[1].tasks) \in Task
    <3>1. k.ticks[1] \in TickNode
      BY <1>1, <2>1 DEF KernelState
    <3>2. QED
      BY <2>1, <3>1 DEF TickNode
  <2>3. SameSched(k, k') /\ NoNewWait(k, k', NULL)
    BY <1>1, <2>1, <2>2, EndWaitFrame DEF ExpireFirst
  <2>4. QED
    BY <1>1, <2>1, <2>3, CountingLock
<1>4. CASE ExpireNext
  <2>1. k' = DropNode(k) /\ irq = "tick" /\ UNCHANGED swPending
    BY <1>4 DEF ExpireNext, ExpiryDue
  <2>2. SameSched(k, k') /\ NoNewWait(k, k', NULL)
    BY <1>1, <2>1, TickFrame DEF NoNewWait
  <2>3. QED
    BY <1>1, <2>1, <2>2, CountingLock
<1>5. CASE ExpireLast
  <2> DEFINE ka == DropNode(k)
             kb == [ka EXCEPT !.tickMissed = 0]
             k1 == os_sched(kb, "thread")
  <2>1. k' = k1 /\ Pend(k1, TRUE) /\ irq = "tick"
    BY <1>5 DEF ExpireLast, ExpiryDue, AfterExpiry
  <2>2. ka \in KernelState /\ SameSched(k, ka) /\ ka.bstate = k.bstate
    BY <1>1, <2>1, TickFrame, DropNodeType
  <2> HIDE DEF ka
  <2>3. kb \in KernelState /\ SameSched(ka, kb) /\ kb.bstate = ka.bstate
    BY <2>2, ListNames DEF KernelState, SameSched
  <2> HIDE DEF kb
  <2>4. SameSched(k, kb) /\ kb.bstate = k.bstate
    BY <2>2, <2>3 DEF SameSched
  <2>5. k1 = os_sched(kb, "thread")
    OBVIOUS
  <2> HIDE DEF k1
  <2>6. QED
    BY <1>1, <2>1, <2>3, <2>4, <2>5, TickSchedLock DEF SameSched
<1>6. QED
  BY <1>2, <1>3, <1>4, <1>5 DEF TickHandler

LEMMA SwitchLock == ASSUME TypeInv, LockInv, SwEnter \/ SwLeave PROVE LockInv'
<1>0. k \in KernelState /\ k.cur \in Task \cup {NULL} /\ k.lock \in Nat /\ ~ k.fault
  BY TypeParts DEF KernelState, SwEnter, SwLeave, SwitchDue
<1>1. CASE SwEnter
  <2>1. /\ swEnabled /\ swPending /\ irq = "none" /\ ~ swPending' /\ irq' = "sw"
        /\ UNCHANGED <<k, running, todo, alive, swEnabled>> /\ running
    BY <1>1 DEF SwEnter, SwitchDue, LockInv, BootInv
  <2>2. BootInv' /\ TodoInv'
    BY <2>1 DEF LockInv, BootInv, TodoInv
  <2>3. Works /\ SwitchComing /\ SwitchComing'
    BY <1>0, <2>1 DEF Works, SwitchComing
  <2>4. HolderInv' /\ IdleInv' /\ OwnInv'
    BY <2>1, <2>3 DEF LockInv, HolderInv, IdleInv, OwnInv
  <2>5. QED
    BY <2>2, <2>4 DEF LockInv
<1>2. CASE SwLeave
  <2> DEFINE k1 == IF k.cur = NULL THEN [k EXCEPT !.cur = k.nxt] ELSE k
             k2 == IF k1.cur = k1.nxt THEN os_sched(k1, "sw") ELSE k1
             k3 == SwitchTask(k)
  <2>1. /\ irq = "sw" /\ irq' = "none" /\ k' = k3
        /\ running /\ swEnabled /\ (k.lock > 0 => ~ swPending)
        /\ UNCHANGED <<running, todo, alive, swEnabled, swPending>>
    BY <1>2 DEF SwLeave, LockInv, BootInv
  <2>2. Works /\ SwitchComing
    BY <1>0, <2>1 DEF Works, SwitchComing
  <2>3. /\ k1 \in KernelState /\ k1.lock = k.lock /\ k1.locker = k.locker /\ k1.nxt = k.nxt
        /\ k1.bstate = k.bstate /\ k1.lockTcb = k.lockTcb
        /\ k1.cur = IF k.cur = NULL THEN k.nxt ELSE k.cur
    BY <1>0 DEF KernelState
  <2> HIDE DEF k1
  <2>4. k2 \in KernelState /\ k2.lock = k.lock /\ k2.locker = k.locker /\ k2.bstate = k.bstate
        /\ k2.cur = k1.cur
    BY <2>3, SchedType, SchedFrame
  <2>5. k3 = IF k2.fault THEN k2 ELSE [k2 EXCEPT !.cur = k2.nxt]
    BY DEF SwitchTask, k1
  <2>6. k.lock > 0 => /\ k2.nxt = k.nxt /\ ~ k2.fault /\ k.cur # NULL
                      /\ k2.lockTcb["thread"] = k.lockTcb["thread"]
    <3> SUFFICES ASSUME k.lock > 0 PROVE /\ k2.nxt = k.nxt /\ ~ k2.fault /\ k.cur # NULL
                                         /\ k2.lockTcb["thread"] = k.lockTcb["thread"]
      OBVIOUS
    <3>1. k.cur # NULL /\ k1 = k
      BY <1>0 DEF LockInv, BootInv, k1
    <3>2. CASE k.cur # k.nxt
      BY <1>0, <3>1, <3>2
    <3>3. CASE k.cur = k.nxt
      <4>1. k2 = os_sched(k, "sw") /\ "sw" \in {"thread", "sw"}
        BY <3>1, <3>3
      <4>2. k.cur # Idle
        BY <2>1, <2>2, <3>3 DEF LockInv, IdleInv
      <4>3. Holder(k, "sw") = k.cur /\ k.bstate[k.cur] # "TICKING"
        BY <2>2, <3>3, <4>2 DEF Holder, LockInv, OwnInv
      <4>4. /\ k2.nxt = k.cur /\ k2.fault = k.fault
            /\ k2.lockTcb = [k.lockTcb EXCEPT !["sw"] = k.cur]
        BY <1>0, <3>1, <4>1, <4>3, SchedFrame
      <4>5. k.lockTcb \in [{"thread", "sw"} -> Task \cup {NULL}]
        BY <1>0 DEF KernelState
      <4> HIDE DEF k2
      <4>6. QED
        BY <1>0, <3>1, <3>3, <4>4, <4>5
    <3>4. QED
      BY <3>2, <3>3
  <2> HIDE DEF k2, k3
  <2>7. /\ k3.lock = k.lock /\ k3.locker = k.locker /\ k3.bstate = k.bstate
        /\ k3.cur = IF k2.fault THEN k2.cur ELSE k2.nxt
        /\ k3.nxt = k2.nxt /\ k3.lockTcb = k2.lockTcb /\ k3.fault = k2.fault
    BY <2>4, <2>5 DEF KernelState
  <2>9. Works' => ~ k2.fault /\ k'.cur = k'.nxt
    BY <2>1, <2>7 DEF Works
  <2>10. k.lock > 0 => k'.cur = k.nxt /\ k.nxt \in {k.locker, Idle} /\ k.locker # Idle
    BY <2>1, <2>2, <2>6, <2>7 DEF LockInv, HolderInv
  <2>8. BootInv' /\ TodoInv'
    BY <1>0, <2>1, <2>6, <2>7, <2>10, ListNames DEF LockInv, BootInv, TodoInv, HolderInv
  <2>11. HolderInv'
    BY <2>1, <2>2, <2>6, <2>7, <2>9, <2>10 DEF LockInv, HolderInv
  <2>12. IdleInv'
    BY <2>1, <2>2, <2>6, <2>7, <2>9, <2>10 DEF LockInv, HolderInv, IdleInv, OwnInv
  <2>13. OwnInv'
    BY <2>1, <2>2, <2>6, <2>7, <2>9, <2>10 DEF LockInv, HolderInv, IdleInv, OwnInv
  <2>14. QED
    BY <2>8, <2>11, <2>12, <2>13 DEF LockInv
<1>3. QED
  BY <1>1, <1>2

LEMMA BootLock == ASSUME TypeInv, LockInv, Boot PROVE LockInv'
<1>0. k \in KernelState /\ ~ running /\ k.lock = 0 /\ k.cur = NULL /\ irq = "none"
      /\ ~ swEnabled
  BY TypeParts DEF Boot, BootCreate, os_sys_start, LockInv, BootInv
<1>1. ASSUME NEW t \in Task, NEW p \in Prio, BootCreate(t, p) PROVE LockInv'
  <2> DEFINE ka == os_task_create(k, t, p)
             k1 == os_sched(ka, "thread")
  <2>1. ka \in KernelState /\ SameSched(k, ka)
    BY <1>0, CreateFrame, CreateType
  <2>2. k' = k1 /\ UNCHANGED <<running, todo, swEnabled, irq>>
    BY <1>1 DEF BootCreate
  <2> HIDE DEF ka
  <2>3. k1.lock = k.lock /\ k1.cur = k.cur
    BY <2>1, SchedFrame DEF SameSched
  <2> HIDE DEF k1
  <2>4. QED
    BY <1>0, <2>2, <2>3
    DEF LockInv, BootInv, TodoInv, HolderInv, IdleInv, OwnInv, Works
<1>2. ASSUME os_sys_start PROVE LockInv'
  <2> DEFINE k1 == os_rq_get_highest_prio_task(k)
             h  == k.high
             n1 == SkipHead(k, IF k.tsPrio = h THEN k.tsNode ELSE NextNode(k, h))
             n2 == IF Rotates(k, n1) THEN SkipHead(k, NextNode(k, n1)) ELSE n1
             sl == [k.slice EXCEPT ![n1] = IF Rotates(k, n1) THEN Timeslice ELSE @]
  <2>1. /\ k' = k1 /\ running' /\ swEnabled' /\ swPending' /\ UNCHANGED <<todo, alive, irq>>
    BY <1>2 DEF os_sys_start
  <2>2. k1 = IF n1 \notin Task THEN [k EXCEPT !.fault = TRUE]
             ELSE IF n2 \notin Task THEN [k EXCEPT !.fault = TRUE]
             ELSE [k EXCEPT !.tsPrio = h, !.tsNode = n2, !.nxt = n2, !.slice = sl]
    BY DEF os_rq_get_highest_prio_task
  <2> HIDE DEF h, n1, n2, sl, k1
  <2>3. k1.lock = k.lock /\ k1.cur = k.cur
    BY <1>0, <2>2 DEF KernelState
  <2>4. QED
    BY <1>0, <2>1, <2>3
    DEF LockInv, BootInv, TodoInv, HolderInv, IdleInv, OwnInv, SwitchComing
<1>3. QED
  BY <1>1, <1>2, ListNames, ClientFacts DEF Boot

LEMMA MissTickLock == ASSUME TypeInv, LockInv, MissTick PROVE LockInv'
<1>1. /\ k' = [k EXCEPT !.tickMissed = k.tickMissed + 1, !.sliceMissed = k.sliceMissed + 1]
      /\ UNCHANGED <<running, todo, alive, swEnabled, swPending, irq>> /\ k \in KernelState
  BY TypeParts DEF MissTick
<1>2. SameSched(k, k') /\ k'.bstate = k.bstate /\ k'.fault = k.fault
  BY <1>1 DEF KernelState, SameSched
<1>3. (SwitchComing' <=> SwitchComing) /\ (Works' <=> Works)
  BY <1>1, <1>2 DEF SwitchComing, CtxDue, Works, SameSched
<1>4. BootInv' /\ TodoInv' /\ HolderInv' /\ IdleInv' /\ OwnInv'
  BY <1>1, <1>2, <1>3
  DEF LockInv, BootInv, TodoInv, HolderInv, IdleInv, OwnInv, SameSched
<1>5. QED
  BY <1>4 DEF LockInv

LEMMA LockInvStep == TypeInv /\ LockInv /\ [Next]_vars => LockInv'
<1> SUFFICES ASSUME TypeInv, LockInv, [Next]_vars PROVE LockInv'
  OBVIOUS
<1>1. CASE UNCHANGED vars
  BY <1>1 DEF vars, LockInv, BootInv, TodoInv, HolderInv, IdleInv, OwnInv, Works,
     SwitchComing, CtxDue
<1>2. ASSUME NEW t \in Task, Call(t) \/ TaskStep(t) PROVE LockInv'
  BY <1>2, CallLock, TaskStepLock
<1>3. QED
  BY <1>1, <1>2, BootLock, TickHandlerLock, MissTickLock, SwitchLock DEF Next

LEMMA LockInvInit == Init => LockInv
<1> SUFFICES ASSUME Init PROVE LockInv
  OBVIOUS
<1>1. /\ k.lock = 0 /\ k.cur = NULL /\ irq = "none" /\ ~ swEnabled /\ ~ running
      /\ \A t \in Task : todo[t] = <<>>
  BY DEF Init, KernelReset
<1>2. Idle \in Task
  BY ListNames
<1>3. QED
  BY <1>1, <1>2 DEF LockInv, BootInv, TodoInv, HolderInv, IdleInv, OwnInv, Works

\* While the scheduler is locked nobody executes but the task that locked it and
\* the idle task, whatever the application calls.
THEOREM LockIsExclusive == Spec => []LockExcludes
<1>1. Init => TypeInv /\ LockInv
  BY TypeInvInit, LockInvInit
<1>2. TypeInv /\ LockInv /\ [Next]_vars => (TypeInv /\ LockInv)'
  BY TypeInvStep, LockInvStep
<1>3. LockInv => LockExcludes
  BY DEF LockInv, HolderInv, LockExcludes
<1>4. QED
  BY <1>1, <1>2, <1>3, PTL DEF Spec

-----------------------------------------------------------------------------
(* Lists, summaries, switches and memory.                                  *)

\* Task t is where it will be found, as NoTaskLost has it.
Findable(k0, t) ==
  IF k0.state[t] = "BLOCKING"
    THEN TickLinked(k0, t) \/ \E o \in Object : t \in ToSet(k0.list[o])
  ELSE t \in ToSet(k0.list[k0.prio[t]])

\* A holder of the lock that has left the processor to the idle task, or is about
\* to, waits for the clock and for nothing else.
HolderWaits(k0) ==
  /\ k0.lock > 0 /\ k0.locker \in Task /\ (k0.nxt = Idle \/ k0.cur = Idle)
  /\ k0.state[k0.locker] = "BLOCKING"
  => k0.bstate[k0.locker] = "TICKING"

Safe(k0, tasks) ==
  /\ Lists(k0) /\ HighStart(k0) /\ HolderWaits(k0)
  /\ k0.state[Idle] # "BLOCKING"
  /\ \A t \in tasks : Findable(k0, t)

\* With the idle task ready there is always a queue to take a task from; before
\* the start a control block that was not created is unused.
SafeInv ==
  /\ Safe(k, alive)
  /\ running => Idle \in alive
  /\ ~ running => \A t \in Task \ alive : k.state[t] = "NONE"
  /\ swEnabled = running

-----------------------------------------------------------------------------
(* What the operators do to it.                                            *)

LEMMA QueueThere ==
  ASSUME NEW k0 \in KernelState, NEW tasks, Safe(k0, tasks), Idle \in tasks
  PROVE  k0.map # {}
<1> DEFINE p == k0.prio[Idle]
<1>1. Idle \in ToSet(k0.list[p])
  BY DEF Safe, Findable
<1>2. p \in Prio /\ p \in List
  BY ListNames DEF KernelState
<1>3. k0.list[p] # <<>>
  BY <1>1, <1>2, TasksOfList, EmptySet
<1>4. QED
  BY <1>2, <1>3 DEF Safe, Lists, MapExact

LEMMA SafeOneTask ==
  ASSUME NEW k0 \in KernelState, NEW k1 \in KernelState, NEW tasks, NEW tasks1,
         Safe(k0, tasks), NEW t \in Task, OnlyTask(k0, k1, t), HighStart(k1),
         tasks \subseteq Task, tasks1 \subseteq tasks \cup {t},
         t \in tasks1 => Findable(k1, t),
         t = Idle => k1.state[t] # "BLOCKING",
         HolderWaits(k1) \/ k1.state[t] # "BLOCKING"
  PROVE  Safe(k1, tasks1)
<1>1. \A u \in Task \ {t} :
        /\ k1.prio[u] = k0.prio[u] /\ k1.state[u] = k0.state[u]
        /\ k1.bstate[u] = k0.bstate[u] /\ (TickLinked(k1, u) <=> TickLinked(k0, u))
        /\ \A l \in List : u \in ToSet(k1.list[l]) <=> u \in ToSet(k0.list[l])
  BY DEF OnlyTask, Untouched
<1>2. ASSUME NEW u \in tasks1, u # t PROVE Findable(k1, u)
  <2>1. u \in tasks /\ u \in Task \ {t}
    BY <1>2
  <2>2. Findable(k0, u) /\ k0.prio[u] \in List
    BY <2>1, ListNames DEF Safe, KernelState
  <2>3. QED
    BY <1>1, <2>1, <2>2, ListNames DEF Findable
<1>3. HolderWaits(k1)
  <2>1. CASE k1.state[t] # "BLOCKING"
    <3> SUFFICES ASSUME k1.lock > 0, k1.locker \in Task, k1.nxt = Idle \/ k1.cur = Idle,
                        k1.state[k1.locker] = "BLOCKING"
                 PROVE  k1.bstate[k1.locker] = "TICKING"
      BY DEF HolderWaits
    <3>1. k1.locker # t
      BY <2>1
    <3>2. k0.lock > 0 /\ (k0.nxt = Idle \/ k0.cur = Idle) /\ k1.locker = k0.locker
      BY DEF OnlyTask, SameSched
    <3>3. k0.state[k0.locker] = "BLOCKING" /\ k1.bstate[k0.locker] = k0.bstate[k0.locker]
      BY <1>1, <3>1, <3>2
    <3>4. QED
      BY <3>2, <3>3 DEF Safe, HolderWaits
  <2>2. QED
    BY <2>1
<1>4. k1.state[Idle] # "BLOCKING"
  BY <1>1, ListNames DEF Safe
<1>5. QED
  BY <1>2, <1>3, <1>4 DEF Safe, OnlyTask

\* The lists, and what the control blocks say of them, stay as they are.
SameTasks(k0, k1) ==
  /\ Lists(k1) /\ k1.list = k0.list /\ k1.prio = k0.prio /\ k1.bstate = k0.bstate
  /\ k1.map = k0.map /\ k1.high = k0.high
  /\ \A u : TickLinked(k1, u) <=> TickLinked(k0, u)

LEMMA SafeSame ==
  ASSUME NEW k0, NEW k1, NEW tasks, Safe(k0, tasks), tasks \subseteq Task,
         SameTasks(k0, k1), HolderWaits(k1),
         \A u \in Task : k1.state[u] = "BLOCKING" <=> k0.state[u] = "BLOCKING"
  PROVE  Safe(k1, tasks)
<1>1. \A u \in tasks : Findable(k1, u)
  BY DEF Safe, SameTasks, Findable
<1>2. QED
  BY <1>1, ListNames DEF Safe, SameTasks, HighStart

LEMMA SafeCounters ==
  ASSUME NEW k0, NEW k1, NEW tasks, Safe(k0, tasks), tasks \subseteq Task,
         OnlyCounters(k0, k1)
  PROVE  Safe(k1, tasks)
<1>1. HolderWaits(k1)
  BY DEF Safe, HolderWaits, OnlyCounters, SameSched
<1>2. SameTasks(k0, k1)
  BY DEF OnlyCounters, SameTasks
<1>3. QED
  BY <1>1, <1>2, SafeSame DEF OnlyCounters

\* What a scheduling function has done: it has chosen the next task.
Chosen(k0, k1) ==
  /\ SameTasks(k0, k1) /\ k1.fault = k0.fault
  /\ k1.lock = k0.lock /\ k1.locker = k0.locker /\ k1.cur = k0.cur /\ k1.nxt \in Task
  /\ k0.lock = 0 => k1.nxt \in ToSet(k0.list[k0.high])
  /\ k0.lock > 0 /\ k1.nxt = Idle => k0.bstate[k0.locker] = "TICKING"
  /\ \A u \in Task :
       /\ k1.state[u] = "BLOCKING" <=> k0.state[u] = "BLOCKING"
       /\ k1.state[u] # k0.state[u] => k1.state[u] \in {"READY", "RUNNING"}
       /\ k0.lock = 0 /\ k0.state[u] = "NONE" => k1.state[u] = "NONE"

LEMMA ChosenCounters ==
  ASSUME NEW k0, NEW k1, NEW k2, NEW k3,
         OnlyCounters(k0, k1), Chosen(k1, k2), OnlyCounters(k2, k3)
  PROVE  Chosen(k0, k3)
<1>1. SameTasks(k0, k3)
  BY DEF OnlyCounters, Chosen, SameTasks
<1>2. QED
  BY <1>1 DEF OnlyCounters, Chosen, SameTasks, SameSched

LEMMA SafeChosen ==
  ASSUME NEW k0, NEW k1, NEW tasks, Safe(k0, tasks), tasks \subseteq Task, Chosen(k0, k1)
  PROVE  Safe(k1, tasks)
<1>1. HolderWaits(k1)
  BY DEF Safe, HolderWaits, Chosen, SameTasks
<1>2. QED
  BY <1>1, SafeSame DEF Chosen

\* Whatever it takes for the holder of the lock is the holder of the lock.
LEMMA SchedChosen ==
  ASSUME NEW k0 \in KernelState, NEW tasks, Safe(k0, tasks), k0.map # {},
         NEW by \in {"thread", "sw"},
         k0.lock > 0 => /\ Holder(k0, by) = k0.locker /\ k0.locker \in Task \ {Idle}
                        /\ k0.cur \in {k0.locker, Idle}
  PROVE  os_sched(k0, by) \in KernelState /\ Chosen(k0, os_sched(k0, by))
<1> DEFINE k1 == os_sched(k0, by)
<1>1. LockSafe(k0, by)
  BY ListNames DEF LockSafe, Safe, HolderWaits
<1>2. /\ k1 \in KernelState /\ OnlyChoice(k0, k1) /\ k1.fault = k0.fault
      /\ k1.nxt \in Task
      /\ k0.lock = 0 => k1.nxt \in ToSet(k1.list[k1.high])
      /\ \A u \in Task :
           /\ k1.state[u] = "BLOCKING" <=> k0.state[u] = "BLOCKING"
           /\ k1.state[u] # k0.state[u] => k1.state[u] \in {"READY", "RUNNING"}
           /\ k0.lock = 0 /\ k0.state[u] = "NONE" => k1.state[u] = "NONE"
  <2>1. Lists(k0)
    BY DEF Safe
  <2>2. by \in {"thread", "sw"}
    OBVIOUS
  <2>3. QED
    BY <1>1, <2>1, <2>2, SchedLists
<1>3. k0.lock > 0 /\ k1.nxt = Idle => k0.bstate[k0.locker] = "TICKING"
  <2>1. ASSUME k0.lock > 0
        PROVE  k1.nxt = IF k0.bstate[k0.locker] = "TICKING" THEN Idle ELSE k0.locker
    <3>1. Holder(k0, by) = k0.locker /\ k0.locker # NULL
      BY <2>1, ListNames
    <3>2. by \in {"thread", "sw"}
      OBVIOUS
    <3>3. k1.nxt = IF k0.bstate[Holder(k0, by)] = "TICKING" THEN Idle ELSE Holder(k0, by)
      BY <2>1, <3>1, <3>2, SchedFrame
    <3>4. QED
      BY <3>1, <3>3
  <2> HIDE DEF k1
  <2>2. QED
    BY <2>1
<1> HIDE DEF k1
<1>4. SameTasks(k0, k1)
  BY <1>2 DEF OnlyChoice, SameTasks, TickLinked
<1>5. Chosen(k0, k1)
  BY <1>2, <1>3, <1>4 DEF OnlyChoice, Chosen
<1>6. QED
  BY <1>2, <1>5 DEF k1

-----------------------------------------------------------------------------
(* What the steps do, as the invariants see them.                          *)

\* A system call of task t moves one task u, which is t, another live task or a
\* new one, between the lists, and then schedules; os_wakeup_tick_task does not.
MovesTask(t, u, rest) ==
  /\ u \in Task \ {Idle} /\ (u \in alive \/ k.state[u] = "NONE")
  /\ OnlyTask(k, k', u)
  /\ alive' \subseteq alive \cup {u} /\ alive \ {u} \subseteq alive'
  /\ u \in alive' => Findable(k', u)
  /\ \/ rest \in {<<"sched">>, <<"sched", "delayRet">>}
     \/ rest = <<>> /\ "wake" \in Calls /\ TickLinked(k, u)
     \/ /\ rest = <<"sched", "gone">> /\ "exit" \in Calls /\ u = t /\ u \notin alive'
        /\ k'.state = k.state /\ k'.ticks = k.ticks
        /\ \A l \in List : t \notin ToSet(k'.list[l])

\* Or it takes the scheduler lock or gives it back.
MovesLock(rest) ==
  /\ UNCHANGED alive
  /\ SameTasks(k, k') /\ k'.state = k.state /\ k'.fault = k.fault
  /\ k'.cur = k.cur /\ k'.nxt = k.nxt
  /\ \/ rest = <<>> /\ "lock" \in Calls /\ k'.lock > 0
     \/ rest = <<"sched">> /\ k.lock > 0

\* Nobody but the task that runs is on its way to the processor.
LEMMA RunsAlone ==
  ASSUME TypeInv, LockInv, SafeInv, NEW t \in Task, Runs(t),
         todo[t] = <<>> \/ Head(todo[t]) # "ctxSw"
  PROVE  Works /\ k.cur = t /\ k.nxt = t /\ irq = "none" /\ ~ swPending
BY DEF Runs, Works, SafeInv, LockInv, HolderInv, SwitchComing, CtxDue

\* Nothing but the lock or what is executed differs.
SameFields(k0, k1) ==
  /\ k1.list = k0.list /\ k1.prio = k0.prio /\ k1.bstate = k0.bstate
  /\ k1.ticks = k0.ticks /\ k1.map = k0.map /\ k1.high = k0.high
  /\ k1.state = k0.state /\ k1.tsPrio = k0.tsPrio /\ k1.tsNode = k0.tsNode

LEMMA FieldsSame ==
  ASSUME NEW k0 \in KernelState, Lists(k0), NEW k1, SameFields(k0, k1)
  PROVE  SameTasks(k0, k1)
<1>1. k0.list \in [List -> Seq(Task)]
  BY DEF KernelState
<1>2. NodesUnique(k1.ticks) /\ \A u \in Task : OnNodes(k1.ticks, u) => OnNodes(k0.ticks, u)
  BY NodesOfLists DEF SameFields
<1>3. Lists(k1)
  BY <1>1, <1>2, SameLists DEF SameFields
<1>4. QED
  BY <1>3 DEF SameTasks, SameFields, TickLinked

LEMMA CallEffect ==
  ASSUME ~ Careless, TypeInv, LockInv, SafeInv, NEW t \in Task, Call(t)
  PROVE  /\ Runs(t) /\ t \in alive \ {Idle} /\ todo[t] = <<>>
         /\ UNCHANGED <<running, swEnabled, swPending, irq>>
         /\ \E rest : /\ todo' = [todo EXCEPT ![t] = rest]
                      /\ MovesLock(rest) \/ \E u \in Task : MovesTask(t, u, rest)
<1>1. Runs(t) /\ t \in alive \ {Idle} /\ todo[t] = <<>>
  BY DEF Call, Create, Exit, os_task_delay_ms, os_task_yield, os_task_suspend,
     os_task_resume, WakeTick, os_sched_lock, os_sched_unlock, Invokes
<1>2. /\ k \in KernelState /\ Lists(k) /\ HighStart(k) /\ k.state[Idle] # "BLOCKING"
      /\ alive \subseteq Task /\ \A u \in alive : Findable(k, u)
  BY TypeParts DEF SafeInv, Safe
<1>m. ASSUME NEW u \in Task, NEW k1, NEW rest, Then(t, k1, rest), MovesTask(t, u, rest)
      PROVE  /\ UNCHANGED <<running, swEnabled, swPending, irq>>
             /\ todo' = [todo EXCEPT ![t] = rest]
             /\ MovesLock(rest) \/ \E v \in Task : MovesTask(t, v, rest)
  BY <1>m DEF Then
<1>n. ASSUME NEW k1, NEW rest, Then(t, k1, rest), MovesLock(rest)
      PROVE  /\ UNCHANGED <<running, swEnabled, swPending, irq>>
             /\ todo' = [todo EXCEPT ![t] = rest]
             /\ MovesLock(rest) \/ \E v \in Task : MovesTask(t, v, rest)
  BY <1>n DEF Then
<1>w. WaitersBlocked(k) /\ QueuesReady(k)
  BY <1>2 DEF Lists
<1>3. CASE Create(t)
  <2>1. PICK u \in UserTask \ alive, p \in UserPrio :
          /\ k.state[u] = "NONE" /\ alive' = alive \cup {u}
          /\ Then(t, os_task_create(k, u, p), <<"sched">>)
    BY <1>3 DEF Create
  <2>2. u \in Task \ {Idle} /\ p \in Prio
    BY ClientFacts
  <2> DEFINE k1 == os_task_create(k, u, p)
  <2>3. OnlyTask(k, k1, u) /\ k1.state[u] = "READY" /\ u \in ToSet(k1.list[k1.prio[u]])
    BY <1>2, <2>1, <2>2, CreateLists
  <2> HIDE DEF k1
  <2>4. MovesTask(t, u, <<"sched">>)
    BY <2>1, <2>2, <2>3 DEF MovesTask, Then, Findable, k1
  <2>5. QED
    BY <1>1, <1>m, <2>1, <2>2, <2>4
<1>4. CASE Exit(t)
  <2> DEFINE k1 == os_rq_del_task(k, t)
  <2>1. alive' = alive \ {t} /\ Then(t, k1, <<"sched", "gone">>) /\ "exit" \in Calls
    BY <1>4 DEF Exit, Invokes
  <2>2. /\ OnlyTask(k, k1, t) /\ k1.state = k.state /\ k1.ticks = k.ticks
        /\ \A l \in List : ToSet(k1.list[l]) = ToSet(k.list[l]) \ {t}
    BY <1>2, DelTaskLists
  <2> HIDE DEF k1
  <2>3. MovesTask(t, t, <<"sched", "gone">>)
    BY <1>1, <2>1, <2>2 DEF MovesTask, Then
  <2>4. QED
    BY <1>1, <1>m, <2>1, <2>3
<1>5. CASE os_task_delay_ms(t)
  <2>1. PICK n \in Delays : Then(t, os_add_tick_task(k, t, n, NULL), <<"sched", "delayRet">>)
    BY <1>5 DEF os_task_delay_ms
  <2> DEFINE k1 == os_add_tick_task(k, t, n, NULL)
  <2>2. k1 = IF k.state[t] = "BLOCKING" THEN k ELSE os_tick_add_node(k, t, n)
    BY ClientAssumption, KernelAssumption DEF os_add_tick_task, Count
  <2>3. OnlyTask(k, k1, t) /\ Findable(k1, t)
    <3>1. CASE k.state[t] = "BLOCKING"
      BY <1>1, <1>2, <2>2, <3>1 DEF OnlyTask, SameSched, Untouched
    <3>2. CASE k.state[t] # "BLOCKING"
      <4>1. n \in Count /\ ~ TickLinked(k, t)
        BY <1>w, <3>2, ClientAssumption DEF WaitersBlocked
      <4> HIDE DEF k1
      <4>2. OnlyTask(k, k1, t) /\ k1.state[t] = "BLOCKING" /\ TickLinked(k1, t)
        BY <1>2, <2>2, <3>2, <4>1, AddNodeLists
      <4>3. QED
        BY <4>2 DEF Findable
    <3>3. QED
      BY <3>1, <3>2
  <2> HIDE DEF k1
  <2>4. Then(t, k1, <<"sched", "delayRet">>) /\ UNCHANGED alive
    BY <1>5, <2>1 DEF os_task_delay_ms, k1
  <2>5. MovesTask(t, t, <<"sched", "delayRet">>)
    BY <1>1, <2>3, <2>4 DEF MovesTask, Then
  <2>6. QED
    BY <1>1, <1>m, <2>4, <2>5
<1>6. CASE os_task_yield(t)
  <2> DEFINE k1 == [k EXCEPT !.slice[t] = 0]
  <2>1. SameFields(k, k1) /\ k1.fault = k.fault /\ SameSched(k, k1)
    BY <1>2 DEF KernelState, SameSched, SameFields
  <2>2. Then(t, k1, <<"sched">>) /\ UNCHANGED alive
    BY <1>6 DEF os_task_yield
  <2> HIDE DEF k1
  <2>3. SameTasks(k, k1) /\ k1.state = k.state
    BY <1>2, <2>1, FieldsSame DEF SameFields
  <2>4. OnlyTask(k, k1, t) /\ (Findable(k, t) => Findable(k1, t))
    BY <2>1, <2>3 DEF SameTasks, OnlyTask, Untouched, Findable
  <2>5. MovesTask(t, t, <<"sched">>)
    BY <1>1, <1>2, <2>2, <2>4 DEF MovesTask, Then
  <2>6. QED
    BY <1>1, <1>m, <2>2, <2>5
<1>7. CASE os_task_suspend(t)
  <2>1. PICK u \in Suspendable :
          IF k.state[u] = "BLOCKING" THEN LeakCritical
          ELSE Then(t, os_add_block_task(k, u, SysBlock), <<"sched">>) /\ UNCHANGED alive
    BY <1>7 DEF os_task_suspend
  <2>2. u \in alive /\ u \in Task \ {Idle} /\ k.state[u] # "BLOCKING" /\ SysBlock \in Object
    BY <1>2, ListNames DEF Suspendable
  <2> DEFINE k1 == os_add_block_task(k, u, SysBlock)
  <2>3. ~ TickLinked(k, u)
    BY <1>w, <2>2 DEF WaitersBlocked
  <2>4. /\ OnlyTask(k, k1, u) /\ k1.state[u] = "BLOCKING" /\ u \in ToSet(k1.list[SysBlock])
    BY <1>2, <2>2, <2>3, AddBlockLists
  <2>5. Then(t, k1, <<"sched">>) /\ UNCHANGED alive
    BY <2>1, <2>2
  <2> HIDE DEF k1
  <2>6. MovesTask(t, u, <<"sched">>)
    BY <2>2, <2>4, <2>5 DEF MovesTask, Then, Findable
  <2>7. QED
    BY <1>1, <1>m, <2>2, <2>5, <2>6
<1>8. CASE os_task_resume(t)
  <2>1. PICK u \in Resumable :
          IF k.state[u] # "BLOCKING" THEN LeakCritical
          ELSE Then(t, os_rq_add_task(UnlinkSlot(k, u), u), <<"sched">>) /\ UNCHANGED alive
    BY <1>8 DEF os_task_resume
  <2>2. u \in alive /\ u \in Task \ {Idle} /\ u \in ToSet(k.list[SysBlock])
    BY <1>2 DEF Resumable
  <2>3. k.state[u] = "BLOCKING"
    BY <1>w, <2>2, ListNames DEF WaitersBlocked
  <2> DEFINE k1 == os_rq_add_task(UnlinkSlot(k, u), u)
  <2>4. OnlyTask(k, k1, u) /\ k1.state[u] = "READY" /\ u \in ToSet(k1.list[k1.prio[u]])
    BY <1>2, <2>2, ResumeLists
  <2>5. Then(t, k1, <<"sched">>) /\ UNCHANGED alive
    BY <2>1, <2>3
  <2> HIDE DEF k1
  <2>6. MovesTask(t, u, <<"sched">>)
    BY <2>2, <2>4, <2>5 DEF MovesTask, Then, Findable
  <2>7. QED
    BY <1>1, <1>m, <2>2, <2>5, <2>6
<1>9. CASE WakeTick(t)
  <2>1. PICK u \in alive : TickLinked(k, u) /\ Then(t, os_wakeup_tick_task(k, u), <<>>)
    BY <1>9 DEF WakeTick
  <2>2. "wake" \in Calls /\ UNCHANGED alive
    BY <1>9 DEF WakeTick, Invokes
  <2>3. u \in Task \ {Idle}
    BY <1>2, <1>w, <2>1 DEF WaitersBlocked
  <2> DEFINE k1 == EndWait(UnlinkTick(k, u), u, "EARLY_WAKEUP")
  <2>4. OnlyTask(k, k1, u) /\ k1.state[u] = "READY" /\ u \in ToSet(k1.list[k1.prio[u]])
    <3>1. "EARLY_WAKEUP" \in BlockState
      BY DEF BlockState
    <3>2. QED
      BY <1>2, <2>1, <2>3, <3>1, EndTickLists
  <2>5. Then(t, k1, <<>>)
    BY <2>1 DEF os_wakeup_tick_task
  <2> HIDE DEF k1
  <2>6. MovesTask(t, u, <<>>)
    BY <2>1, <2>2, <2>3, <2>4, <2>5 DEF MovesTask, Then, Findable
  <2>7. QED
    BY <1>1, <1>m, <2>3, <2>5, <2>6
<1>10. CASE os_sched_lock(t)
  <2> DEFINE n == k.lock + 1
             h == IF k.lock = 0 THEN t ELSE k.locker
             k1 == [k EXCEPT !.lock = n, !.locker = h]
  <2>1. Then(t, k1, <<>>) /\ UNCHANGED alive /\ "lock" \in Calls
    BY <1>10 DEF os_sched_lock, Invokes
  <2>2. n > 0
    BY <1>2 DEF KernelState
  <2> HIDE DEF n, h
  <2>3. /\ SameFields(k, k1) /\ k1.fault = k.fault
        /\ k1.cur = k.cur /\ k1.nxt = k.nxt /\ k1.lock = n
    BY <1>2 DEF KernelState, SameFields
  <2> HIDE DEF k1
  <2>4. MovesLock(<<>>)
    BY <1>2, <2>1, <2>2, <2>3, FieldsSame DEF MovesLock, Then, SameFields
  <2>5. QED
    BY <1>1, <1>n, <2>1, <2>4
<1>11. CASE os_sched_unlock(t)
  <2> DEFINE n == k.lock - 1
             h == IF k.lock = 1 THEN NULL ELSE k.locker
             k1 == [k EXCEPT !.lock = n, !.locker = h]
  <2>1. Then(t, k1, <<"sched">>) /\ UNCHANGED alive /\ k.lock > 0
    BY <1>11 DEF os_sched_unlock
  <2> HIDE DEF n, h
  <2>2. SameFields(k, k1) /\ k1.fault = k.fault /\ k1.cur = k.cur /\ k1.nxt = k.nxt
    BY <1>2 DEF KernelState, SameFields
  <2> HIDE DEF k1
  <2>3. MovesLock(<<"sched">>)
    BY <1>2, <2>1, <2>2, FieldsSame DEF MovesLock, Then, SameFields
  <2>4. QED
    BY <1>1, <1>n, <2>1, <2>3
<1>12. QED
  BY <1>3, <1>4, <1>5, <1>6, <1>7, <1>8, <1>9, <1>10, <1>11 DEF Call

\* Outside of the software interrupt the lock's holder is known to the scheduler.
LEMMA ThreadSched ==
  ASSUME TypeInv, LockInv, SafeInv, Works, NEW k0 \in KernelState, OnlyCounters(k, k0),
         NEW k1, k1 = os_sched(k0, "thread")
  PROVE  k1 \in KernelState /\ Chosen(k, k1)
<1>1. Safe(k0, alive) /\ k0.map # {}
  BY TypeParts, SafeCounters, QueueThere DEF SafeInv, Works
<1>2. k0.lock > 0 => /\ Holder(k0, "thread") = k0.locker /\ k0.locker \in Task \ {Idle}
                     /\ k0.cur \in {k0.locker, Idle}
  BY DEF Holder, OnlyCounters, SameSched, LockInv, HolderInv, IdleInv
<1>3. "thread" \in {"thread", "sw"}
  OBVIOUS
<1>4. k1 \in KernelState /\ Chosen(k0, k1)
  BY <1>1, <1>2, <1>3, SchedChosen
<1>5. OnlyCounters(k1, k1)
  BY <1>4 DEF Chosen, SameTasks, OnlyCounters, SameSched
<1>6. QED
  BY <1>4, <1>5, ChosenCounters

LEMMA NoCounters == ASSUME Lists(k) PROVE OnlyCounters(k, k)
BY DEF OnlyCounters, SameSched

LEMMA SchedStepEffect ==
  ASSUME TypeInv, LockInv, SafeInv, NEW t \in Task, SchedStep(t)
  PROVE  /\ Chosen(k, k')
         /\ todo' = [todo EXCEPT ![t] = (IF k'.nxt # k'.cur THEN <<"ctxSw">> ELSE <<>>)
                                          \o Tail(todo[t])]
<1> DEFINE k1 == os_sched(k, "thread")
<1>1. /\ k' = k1 /\ Continues(t, "sched")
      /\ todo' = [todo EXCEPT ![t] = (IF Switches(k1) THEN <<"ctxSw">> ELSE <<>>)
                                       \o Tail(todo[t])]
  BY DEF SchedStep, Then
<1>2. k1 = os_sched(k, "thread")
  OBVIOUS
<1> HIDE DEF k1
<1>3. Works
  BY <1>1 DEF Works, Continues, Runs, SafeInv
<1>4. Chosen(k, k1)
  BY <1>2, <1>3, TypeParts, NoCounters, ThreadSched DEF SafeInv, Safe
<1>5. Switches(k1) <=> k1.nxt # k1.cur
  BY <1>1, <1>4 DEF Switches, Chosen, Continues, Runs
<1>6. QED
  BY <1>1, <1>4, <1>5

\* What a handler of ticks has chosen, it has pended the switch to.
Rescheduled == Chosen(k, k') /\ swPending' = (swPending \/ k'.nxt # k'.cur)

LEMMA PendsSwitch ==
  ASSUME NEW k1, Pend(k1, TRUE), ~ k1.fault, k'.nxt = k1.nxt, k'.cur = k1.cur
  PROVE  swPending' = (swPending \/ k'.nxt # k'.cur)
BY DEF Pend, Switches

LEMMA SysTickEffect ==
  ASSUME TypeInv, LockInv, SafeInv, SysTick
  PROVE  /\ Works /\ irq = "none" /\ k.cur \in Task /\ irq' \in {"none", "tick"}
         /\ UNCHANGED <<running, todo, alive, swEnabled>>
         /\ Rescheduled \/ (OnlyCounters(k, k') /\ UNCHANGED swPending)
<1> DEFINE ka == UseSlice(k)
           k1 == os_sched_timeslice_poll(k)
           k2 == CountTick(k1)
<1>1. /\ k' = k2 /\ Pend(k1, SliceUsedUp(k)) /\ TickTaken /\ irq' \in {"none", "tick"}
      /\ UNCHANGED <<running, todo, alive, swEnabled>>
  BY DEF SysTick
<1>2. Works /\ irq = "none" /\ k.cur \in Task /\ k \in KernelState /\ Lists(k)
  BY <1>1, TypeParts DEF Works, TickTaken, SafeInv, Safe
<1>3. ka \in KernelState /\ OnlyCounters(k, ka)
  BY <1>2, UseSliceLists
<1>4. k1 = IF SliceUsedUp(k) THEN os_sched(ka, "thread") ELSE ka
  BY DEF os_sched_timeslice_poll
<1> HIDE DEF ka, k1
<1>5. CASE SliceUsedUp(k)
  <2>1. k1 \in KernelState /\ Chosen(k, k1)
    BY <1>2, <1>3, <1>4, <1>5, ThreadSched
  <2>2. OnlyCounters(k1, k2)
    BY <2>1, CountTickLists DEF Chosen, SameTasks
  <2>3. OnlyCounters(k, k)
    BY <1>2, NoCounters
  <2>4. Chosen(k, k2)
    BY <2>1, <2>2, <2>3, ChosenCounters
  <2> HIDE DEF k2
  <2>5. Pend(k1, TRUE)
    BY <1>1, <1>5 DEF Pend
  <2>6. ~ k1.fault /\ k2.nxt = k1.nxt /\ k2.cur = k1.cur
    BY <1>2, <2>1, <2>2 DEF Works, Chosen, OnlyCounters, SameSched
  <2>7. Rescheduled
    BY <1>1, <2>4, <2>5, <2>6, PendsSwitch DEF Rescheduled
  <2>8. QED
    BY <1>1, <1>2, <2>7
<1>6. CASE ~ SliceUsedUp(k)
  <2>1. OnlyCounters(k1, k2) /\ k1 = ka
    BY <1>3, <1>4, <1>6, CountTickLists DEF OnlyCounters
  <2> HIDE DEF k2
  <2>2. OnlyCounters(k, k2)
    BY <1>3, <2>1, CountersTwice
  <2>3. swPending' = swPending
    BY <1>1, <1>6 DEF Pend, TypeInv, TypeOK
  <2>4. QED
    BY <1>1, <1>2, <2>2, <2>3
<1>7. QED
  BY <1>5, <1>6

LEMMA ExpiryEffect ==
  ASSUME TypeInv, LockInv, SafeInv, ExpireTask \/ ExpireNext \/ ExpireLast
  PROVE  /\ running /\ ~ k.fault /\ irq = "tick" /\ Works /\ k.cur \in Task
         /\ UNCHANGED <<running, todo, alive, swEnabled>>
         /\ \/ /\ UNCHANGED <<swPending, irq>>
               /\ \/ OnlyCounters(k, k')
                  \/ \E u \in Task \ {Idle} : /\ OnlyTask(k, k', u) /\ TickLinked(k, u)
                                              /\ k'.state[u] = "READY" /\ Findable(k', u)
                                              /\ k'.bstate[u] = "TIMEOUT" /\ ~ TickLinked(k', u)
            \/ irq' = "none" /\ Rescheduled
<1>1. /\ k \in KernelState /\ Lists(k) /\ HighStart(k) /\ k.state[Idle] # "BLOCKING"
      /\ running /\ ~ k.fault /\ irq = "tick" /\ Works /\ k.ticks # <<>> /\ k.cur \in Task
      /\ UNCHANGED <<running, todo, alive, swEnabled>>
  BY TypeParts DEF ExpireTask, ExpireNext, ExpireLast, ExpiryDue, TypeInv, SafeInv, Safe,
     Works, LockInv, BootInv
<1>2. CASE ExpireTask
  <2> DEFINE u == Head(k.ticks[1].tasks)
             k1 == EndWait(UnlinkTick(k, u), u, "TIMEOUT")
  <2>1. k' = k1 /\ k.ticks[1].tasks # <<>> /\ UNCHANGED <<swPending, irq>>
    BY <1>2 DEF ExpireTask, ExpireFirst
  <2>2. u \in Task /\ TickLinked(k, u)
    <3>1. k.ticks[1] \in TickNode /\ 1 \in DOMAIN k.ticks
      BY <1>1 DEF KernelState
    <3>2. k.ticks[1].tasks \in Seq(Task)
      BY <3>1 DEF TickNode
    <3>3. u \in Task /\ u \in ToSet(k.ticks[1].tasks)
      BY <2>1, <3>2 DEF ToSet
    <3>4. QED
      BY <3>1, <3>3 DEF TickLinked
  <2>3. "TIMEOUT" \in BlockState
    BY DEF BlockState
  <2> HIDE DEF u
  <2>4. /\ OnlyTask(k, k1, u) /\ k1.state[u] = "READY" /\ u \in ToSet(k1.list[k1.prio[u]])
        /\ k1.bstate[u] = "TIMEOUT" /\ ~ TickLinked(k1, u)
    BY <1>1, <2>2, <2>3, EndTickLists
  <2>5. u # Idle
    BY <1>1, <2>2 DEF Lists, WaitersBlocked
  <2> HIDE DEF k1
  <2>6. QED
    BY <1>1, <2>1, <2>2, <2>4, <2>5 DEF Findable
<1>3. CASE ExpireNext
  <2>1. OnlyCounters(k, k') /\ UNCHANGED <<swPending, irq>>
    BY <1>1, <1>3, DropNodeLists DEF ExpireNext
  <2>2. QED
    BY <1>1, <2>1
<1>4. CASE ExpireLast
  <2> DEFINE ka == DropNode(k)
             kb == [ka EXCEPT !.tickMissed = 0]
             k1 == os_sched(kb, "thread")
  <2>1. k' = k1 /\ Pend(k1, TRUE) /\ irq' = "none" /\ k.ticks[1].tasks = <<>>
    BY <1>4 DEF ExpireLast, AfterExpiry
  <2>2. ka \in KernelState /\ OnlyCounters(k, ka)
    BY <1>1, <2>1, DropNodeLists
  <2> HIDE DEF ka
  <2>3. kb \in KernelState /\ OnlyCounters(ka, kb)
    <3>1. /\ kb \in KernelState /\ SameFields(ka, kb) /\ SameSched(ka, kb)
          /\ kb.fault = ka.fault
      BY <2>2, ListNames DEF KernelState, SameSched, SameFields
    <3>2. SameTasks(ka, kb)
      BY <2>2, <3>1, FieldsSame DEF OnlyCounters
    <3> HIDE DEF kb
    <3>3. QED
      BY <3>1, <3>2 DEF SameTasks, SameFields, OnlyCounters
  <2> HIDE DEF kb
  <2>4. OnlyCounters(k, kb)
    BY <2>2, <2>3, CountersTwice
  <2>5. k1 = os_sched(kb, "thread")
    OBVIOUS
  <2> HIDE DEF k1
  <2>6. Chosen(k, k1)
    BY <1>1, <2>3, <2>4, <2>5, ThreadSched
  <2>7. ~ k1.fault
    BY <1>1, <2>6 DEF Chosen
  <2>8. Rescheduled
    BY <2>1, <2>6, <2>7, PendsSwitch DEF Rescheduled
  <2>9. QED
    BY <1>1, <2>1, <2>8
<1>5. QED
  BY <1>2, <1>3, <1>4

LEMMA MissTickEffect ==
  ASSUME TypeInv, SafeInv, MissTick
  PROVE  OnlyCounters(k, k') /\ UNCHANGED <<running, todo, alive, swEnabled, swPending, irq>>
<1> DEFINE k1 == [k EXCEPT !.tickMissed = k.tickMissed + 1, !.sliceMissed = k.sliceMissed + 1]
<1>1. k' = k1 /\ UNCHANGED <<running, todo, alive, swEnabled, swPending, irq>>
  BY DEF MissTick
<1>2. k \in KernelState /\ Lists(k)
  BY TypeParts DEF SafeInv, Safe
<1>3. SameFields(k, k1) /\ SameSched(k, k1) /\ k1.fault = k.fault
  BY <1>2 DEF KernelState, SameSched, SameFields
<1> HIDE DEF k1
<1>4. SameTasks(k, k1)
  BY <1>2, <1>3, FieldsSame
<1>5. OnlyCounters(k, k1)
  BY <1>3, <1>4 DEF SameTasks, SameFields, OnlyCounters
<1>6. QED
  BY <1>1, <1>5

\* The end of the software interrupt: what os_task_ready named is current.
LEMMA SwLeaveEffect ==
  ASSUME TypeInv, LockInv, SafeInv, SwLeave
  PROVE  /\ Works /\ irq = "sw" /\ irq' = "none"
         /\ UNCHANGED <<running, todo, alive, swEnabled, swPending>>
         /\ SameTasks(k, k') /\ HolderWaits(k')
         /\ k'.fault = k.fault /\ k'.lock = k.lock /\ k'.cur = k'.nxt
         /\ k.cur # NULL /\ k.cur # k.nxt => k'.nxt = k.nxt
         /\ k.lock = 0 /\ (k.cur = NULL \/ k.cur = k.nxt) => k'.nxt \in ToSet(k'.list[k'.high])
         /\ \A u \in Task :
              /\ k'.state[u] = "BLOCKING" <=> k.state[u] = "BLOCKING"
              /\ k'.state[u] # k.state[u] => k'.state[u] \in {"READY", "RUNNING"}
<1> DEFINE k1 == IF k.cur = NULL THEN [k EXCEPT !.cur = k.nxt] ELSE k
           k2 == IF k1.cur = k1.nxt THEN os_sched(k1, "sw") ELSE k1
           k3 == [k2 EXCEPT !.cur = k2.nxt]
<1>1. /\ irq = "sw" /\ ~ k.fault /\ irq' = "none" /\ running /\ swEnabled /\ Works
      /\ UNCHANGED <<running, todo, alive, swEnabled, swPending>>
      /\ k' = IF k2.fault THEN k2 ELSE k3
  BY DEF SwLeave, SwitchTask, LockInv, BootInv, Works
<1>2. /\ k \in KernelState /\ Lists(k) /\ Safe(k, alive) /\ alive \subseteq Task
      /\ k.map # {} /\ k.cur \in Task \cup {NULL}
  BY <1>1, TypeParts, QueueThere DEF SafeInv, Safe
<1>3. /\ k1 \in KernelState /\ SameFields(k, k1) /\ k1.fault = k.fault /\ k1.nxt = k.nxt
      /\ k1.lock = k.lock /\ k1.locker = k.locker /\ k1.lockTcb = k.lockTcb
      /\ k1.cur = IF k.cur = NULL THEN k.nxt ELSE k.cur
  BY <1>2 DEF KernelState, SameFields
<1>4. k.lock > 0 => k.cur # NULL /\ k1 = k
  BY <1>2 DEF LockInv, BootInv, KernelState
<1>e. k2 = IF k1.cur = k1.nxt THEN os_sched(k1, "sw") ELSE k1
  OBVIOUS
<1> HIDE DEF k1, k2
<1>5. HolderWaits(k1)
  BY <1>2, <1>3, <1>4 DEF HolderWaits, Safe
<1>6. SameTasks(k, k1) /\ k1.state = k.state
  BY <1>2, <1>3, FieldsSame DEF SameFields
<1>7. Safe(k1, alive) /\ k1.map # {}
  BY <1>2, <1>5, <1>6, SafeSame DEF SameTasks
<1>8. k2 \in KernelState /\ (Chosen(k1, k2) \/ (k1.cur # k1.nxt /\ k2 = k1))
  <2>1. CASE k1.cur = k1.nxt
    <3>1. k1.lock > 0 => /\ Holder(k1, "sw") = k1.locker /\ k1.locker \in Task \ {Idle}
                         /\ k1.cur \in {k1.locker, Idle}
      BY <1>1, <1>3, <1>4, <2>1 DEF Holder, LockInv, HolderInv, IdleInv
    <3>2. "sw" \in {"thread", "sw"}
      OBVIOUS
    <3>3. QED
      BY <1>3, <1>7, <1>e, <2>1, <3>1, <3>2, SchedChosen
  <2>2. CASE k1.cur # k1.nxt
    BY <1>3, <1>e, <2>2
  <2>3. QED
    BY <2>1, <2>2
<1>9. /\ SameTasks(k1, k2) /\ k2.fault = k.fault /\ k2.lock = k.lock
      /\ k2.cur = k1.cur
      /\ k.cur # NULL /\ k.cur # k.nxt => k2.nxt = k.nxt
      /\ k.lock = 0 /\ (k.cur = NULL \/ k.cur = k.nxt) => k2.nxt \in ToSet(k2.list[k2.high])
      /\ \A u \in Task :
           /\ k2.state[u] = "BLOCKING" <=> k.state[u] = "BLOCKING"
           /\ k2.state[u] # k.state[u] => k2.state[u] \in {"READY", "RUNNING"}
  <2>1. CASE Chosen(k1, k2)
    <3>1. k1.cur = k1.nxt \/ k2 = k1
      BY <1>e
    <3>2. QED
      BY <1>3, <1>6, <2>1, <3>1 DEF Chosen, SameTasks
  <2>2. CASE k1.cur # k1.nxt /\ k2 = k1
    BY <1>2, <1>3, <1>6, <2>2 DEF SameTasks
  <2>3. QED
    BY <1>8, <2>1, <2>2
<1>10. HolderWaits(k2)
  BY <1>2, <1>5, <1>7, <1>8, SafeChosen DEF Safe
<1>11. k' = k3
  BY <1>1, <1>9
<1>12. /\ SameFields(k2, k3) /\ k3.fault = k2.fault /\ k3.lock = k2.lock
       /\ k3.locker = k2.locker /\ k3.cur = k2.nxt /\ k3.nxt = k2.nxt
  BY <1>8 DEF KernelState, SameFields
<1> HIDE DEF k3
<1>13. SameTasks(k2, k3) /\ k3.state = k2.state
  <2>1. Lists(k2)
    BY <1>9 DEF SameTasks
  <2>2. QED
    BY <1>8, <1>12, <2>1, FieldsSame DEF SameFields
<1>14. HolderWaits(k3)
  BY <1>10, <1>12 DEF HolderWaits, SameFields
<1>15. SameTasks(k, k3)
  BY <1>6, <1>9, <1>13 DEF SameTasks
<1>16. QED
  BY <1>1, <1>9, <1>11, <1>12, <1>13, <1>14, <1>15 DEF SameTasks

-----------------------------------------------------------------------------
(* The invariant is kept.                                                  *)

LEMMA SafeInvCall == ASSUME ~ Careless, TypeInv, LockInv, SafeInv, NEW t \in Task, Call(t),
                            k' \in KernelState
                     PROVE  SafeInv'
<1>1. /\ Runs(t) /\ t \in alive \ {Idle} /\ todo[t] = <<>>
      /\ UNCHANGED <<running, swEnabled, swPending, irq>>
      /\ \E rest : MovesLock(rest) \/ \E u \in Task : MovesTask(t, u, rest)
  BY CallEffect
<1>2. k \in KernelState /\ Safe(k, alive) /\ alive \subseteq Task /\ running /\ Idle \in alive
  BY <1>1, TypeParts DEF SafeInv, Runs
<1>3. k.cur = t /\ k.nxt = t
  BY <1>1, RunsAlone
<1>4. ASSUME NEW rest, MovesLock(rest) PROVE SafeInv'
  <2>1. SameTasks(k, k') /\ k'.state = k.state /\ alive' = alive
    BY <1>4 DEF MovesLock
  <2>2. HolderWaits(k')
    BY <1>1, <1>3, <1>4 DEF MovesLock, HolderWaits
  <2>3. Safe(k', alive)
    BY <1>2, <2>1, <2>2, SafeSame
  <2>4. QED
    BY <1>1, <1>2, <2>1, <2>3 DEF SafeInv
<1>5. ASSUME NEW u \in Task, NEW rest, MovesTask(t, u, rest) PROVE SafeInv'
  <2>1. /\ u # Idle /\ OnlyTask(k, k', u) /\ alive' \subseteq alive \cup {u}
        /\ Idle \in alive' /\ (u \in alive' => Findable(k', u))
    BY <1>2, <1>5 DEF MovesTask
  <2>2. HighStart(k') /\ HolderWaits(k')
    <3>1. k'.prio[Idle] = k.prio[Idle] /\ k.prio[Idle] \in Prio
      BY <1>2, <2>1, ListNames DEF OnlyTask, Untouched, KernelState
    <3>2. Idle \in ToSet(k.list[k.prio[Idle]]) /\ Idle \in Task \ {u}
      BY <1>2, <2>1, ListNames DEF Safe, Findable
    <3>3. Idle \in ToSet(k'.list[k.prio[Idle]])
      BY <2>1, <3>1, <3>2, ListNames DEF OnlyTask, Untouched
    <3>4. k'.list[k.prio[Idle]] # <<>>
      BY <3>1, <3>3, ListNames, TasksOfList, EmptySet
    <3>5. k'.map # {}
      BY <2>1, <3>1, <3>4 DEF OnlyTask, Lists, MapExact
    <3>6. HolderWaits(k')
      BY <1>1, <1>3, <2>1 DEF HolderWaits, OnlyTask, SameSched
    <3>7. QED
      BY <3>5, <3>6 DEF HighStart
  <2>3. Safe(k', alive')
    BY <1>2, <2>1, <2>2, SafeOneTask
  <2>4. QED
    BY <1>1, <1>2, <2>1, <2>3 DEF SafeInv
<1>6. QED
  BY <1>1, <1>4, <1>5

LEMMA SafeInvTaskStep ==
  ASSUME TypeInv, LockInv, SafeInv, NEW t \in Task, TaskStep(t), k' \in KernelState
  PROVE  SafeInv'
<1>1. /\ Runs(t) /\ todo[t] # <<>> /\ UNCHANGED <<running, alive, swEnabled, irq>>
      /\ k \in KernelState /\ Lists(k) /\ Safe(k, alive) /\ alive \subseteq Task
      /\ running /\ Idle \in alive /\ t # Idle
  BY TypeParts DEF TaskStep, SchedStep, os_ctx_sw, DelayReturn, RunsOff, Continues, Then,
     SafeInv, Safe, Runs, LockInv, TodoInv
<1>2. ASSUME Safe(k', alive) PROVE SafeInv'
  BY <1>1, <1>2 DEF SafeInv
<1>3. CASE SchedStep(t)
  BY <1>1, <1>2, <1>3, SchedStepEffect, SafeChosen
<1>4. CASE os_ctx_sw(t)
  BY <1>1, <1>2, <1>4 DEF os_ctx_sw
<1>5. CASE DelayReturn(t)
  <2> DEFINE b == IF k.bstate[t] = "EARLY_WAKEUP" THEN "NONE" ELSE k.bstate[t]
             k1 == [k EXCEPT !.bstate[t] = b]
  <2>1. k' = k1 /\ Continues(t, "delayRet")
    BY <1>5 DEF DelayReturn, Then
  <2>2. b \in BlockState
    BY <1>1 DEF KernelState, BlockState
  <2> HIDE DEF b
  <2>3. /\ OnlyTask(k, k1, t) /\ k1.prio = k.prio /\ k1.state = k.state /\ k1.list = k.list
        /\ k1.ticks = k.ticks /\ k1.map = k.map /\ k1.high = k.high
    BY SMTT(30), <1>1, <2>2, SetBState
  <2> HIDE DEF k1
  <2>4. k.cur = t /\ k.nxt = t
    BY <2>1, RunsAlone DEF Continues
  <2>5. HolderWaits(k1) /\ HighStart(k1)
    BY <1>1, <2>3, <2>4 DEF HolderWaits, OnlyTask, SameSched, Safe, HighStart
  <2>6. t \in alive => Findable(k1, t)
    BY <1>1, <2>3 DEF Safe, Findable, TickLinked
  <2>7. Safe(k', alive)
    BY <1>1, <2>1, <2>3, <2>5, <2>6, SafeOneTask
  <2>8. QED
    BY <1>2, <2>7
<1>6. CASE RunsOff(t)
  <2> DEFINE k1 == [k EXCEPT !.fault = TRUE]
  <2>1. k' = k1
    BY <1>6 DEF RunsOff, Then
  <2>2. SameFields(k, k1) /\ SameSched(k, k1)
    BY <1>1 DEF KernelState, SameSched, SameFields
  <2> HIDE DEF k1
  <2>3. SameTasks(k, k1) /\ k1.state = k.state
    BY <1>1, <2>2, FieldsSame DEF SameFields
  <2>4. HolderWaits(k1)
    BY <1>1, <2>2 DEF Safe, HolderWaits, SameFields, SameSched
  <2>5. QED
    BY <1>1, <1>2, <2>1, <2>3, <2>4, SafeSame
<1>7. QED
  BY <1>3, <1>4, <1>5, <1>6 DEF TaskStep

LEMMA SafeInvHandlers ==
  ASSUME TypeInv, LockInv, SafeInv, TickHandler \/ MissTick \/ SwEnter \/ SwLeave,
         k' \in KernelState
  PROVE  SafeInv'
<1>1. k \in KernelState /\ alive \subseteq Task /\ Safe(k, alive)
  BY TypeParts DEF SafeInv
<1>2. ASSUME Safe(k', alive), UNCHANGED <<running, alive, swEnabled>>, running PROVE SafeInv'
  BY <1>2 DEF SafeInv
<1>3. Chosen(k, k') \/ OnlyCounters(k, k') => Safe(k', alive)
  BY <1>1, SafeChosen, SafeCounters
<1>4. CASE SysTick
  BY <1>2, <1>3, <1>4, SysTickEffect DEF Rescheduled, Works
<1>5. CASE ExpireTask \/ ExpireNext \/ ExpireLast
  <2>1. /\ running /\ UNCHANGED <<running, alive, swEnabled>>
        /\ \/ Chosen(k, k') \/ OnlyCounters(k, k')
           \/ \E u \in Task \ {Idle} : /\ OnlyTask(k, k', u) /\ TickLinked(k, u)
                                       /\ k'.state[u] = "READY" /\ Findable(k', u)
    BY <1>5, ExpiryEffect DEF Rescheduled
  <2>2. ASSUME NEW u \in Task \ {Idle}, OnlyTask(k, k', u),
               k'.state[u] = "READY", Findable(k', u)
        PROVE  Safe(k', alive)
    <3>1. HighStart(k')
      <4> DEFINE p == k'.prio[u]
      <4>1. p \in Prio /\ p \in List /\ u \in ToSet(k'.list[p])
        BY <2>2, ListNames DEF KernelState, Findable
      <4>2. k'.list[p] # <<>>
        BY <4>1, TasksOfList, EmptySet
      <4>3. QED
        BY <2>2, <4>1, <4>2 DEF HighStart, OnlyTask, Lists, MapExact
    <3>2. alive \subseteq alive \cup {u}
      OBVIOUS
    <3>3. QED
      BY <1>1, <2>2, <3>1, <3>2, SafeOneTask
  <2>3. QED
    BY <1>2, <1>3, <2>1, <2>2
<1>6. CASE MissTick
  <2>1. running /\ UNCHANGED <<running, alive, swEnabled>>
    BY <1>6 DEF MissTick
  <2>2. QED
    BY <1>2, <1>3, <1>6, <2>1, MissTickEffect
<1>7. CASE SwEnter
  BY <1>1, <1>2, <1>7 DEF SwEnter, SwitchDue, LockInv, BootInv
<1>8. CASE SwLeave
  <2>1. /\ running /\ UNCHANGED <<running, alive, swEnabled>>
        /\ SameTasks(k, k') /\ HolderWaits(k')
        /\ \A u \in Task : k'.state[u] = "BLOCKING" <=> k.state[u] = "BLOCKING"
    BY <1>8, SwLeaveEffect DEF Works
  <2>2. QED
    BY <1>1, <1>2, <2>1, SafeSame
<1>9. QED
  BY <1>4, <1>5, <1>6, <1>7, <1>8 DEF TickHandler

\* A task that main creates is ready, and the scheduler chooses among those created.
LEMMA BootCreateEffect ==
  ASSUME TypeInv, LockInv, SafeInv, NEW t \in Task, NEW p \in Prio, BootCreate(t, p)
  PROVE  /\ UNCHANGED <<running, swEnabled>> /\ alive' = alive \cup {t}
         /\ \E ka : /\ OnlyTask(k, ka, t) /\ ka.lock = 0 /\ ka.state[t] = "READY"
                    /\ ka.bstate = k.bstate /\ ~ TickLinked(ka, t)
                    /\ Safe(ka, alive') /\ Chosen(ka, k')
<1> DEFINE ka == os_task_create(k, t, p)
           k1 == os_sched(ka, "thread")
<1>1. /\ t \notin alive /\ k' = k1 /\ alive' = alive \cup {t}
      /\ UNCHANGED <<running, swEnabled>> /\ ~ running
  BY DEF BootCreate
<1>2. /\ k \in KernelState /\ alive \subseteq Task /\ Safe(k, alive)
      /\ k.lock = 0 /\ \A u \in Task \ alive : k.state[u] = "NONE"
  BY <1>1, TypeParts DEF SafeInv, LockInv, BootInv
<1>3. /\ ka \in KernelState /\ OnlyTask(k, ka, t) /\ ka.map # {}
      /\ ka.state[t] = "READY" /\ t \in ToSet(ka.list[ka.prio[t]])
      /\ ka.bstate = k.bstate /\ ~ TickLinked(ka, t)
  BY <1>1, <1>2, CreateLists DEF Safe
<1>4. k1 = os_sched(ka, "thread") /\ "thread" \in {"thread", "sw"}
  OBVIOUS
<1> HIDE DEF ka
<1>5. Safe(ka, alive')
  <2>1. HighStart(ka) /\ Findable(ka, t)
    BY <1>3 DEF HighStart, Findable
  <2>2. QED
    BY <1>1, <1>2, <1>3, <2>1, SafeOneTask
<1>6. ka.lock = 0
  BY <1>2, <1>3 DEF OnlyTask, SameSched
<1>7. Chosen(ka, k1)
  BY <1>3, <1>4, <1>5, <1>6, SchedChosen
<1> HIDE DEF k1
<1>8. QED
  BY <1>1, <1>3, <1>5, <1>6, <1>7

LEMMA SafeInvBoot == ASSUME TypeInv, LockInv, SafeInv, Boot, k' \in KernelState PROVE SafeInv'
<1>1. /\ k \in KernelState /\ alive \subseteq Task /\ Safe(k, alive) /\ ~ running
      /\ k.lock = 0 /\ \A u \in Task \ alive : k.state[u] = "NONE"
  BY TypeParts DEF Boot, BootCreate, os_sys_start, SafeInv, LockInv, BootInv
<1>2. ASSUME NEW t \in Task, NEW p \in Prio, BootCreate(t, p) PROVE SafeInv'
  <2>1. /\ UNCHANGED <<running, swEnabled>> /\ alive' = alive \cup {t}
        /\ \E ka : /\ OnlyTask(k, ka, t) /\ ka.lock = 0 /\ ka.state[t] = "READY"
                   /\ Safe(ka, alive') /\ Chosen(ka, k')
    BY <1>2, BootCreateEffect
  <2>2. PICK ka : /\ OnlyTask(k, ka, t) /\ ka.lock = 0 /\ ka.state[t] = "READY"
                  /\ Safe(ka, alive') /\ Chosen(ka, k')
    BY <2>1
  <2>3. Safe(k', alive')
    BY <1>1, <2>1, <2>2, SafeChosen
  <2>4. \A u \in Task \ alive' : k'.state[u] = "NONE"
    BY <1>1, <2>1, <2>2 DEF OnlyTask, Untouched, Chosen
  <2>5. QED
    BY <1>1, <2>1, <2>3, <2>4 DEF SafeInv
<1>3. ASSUME os_sys_start PROVE SafeInv'
  <2> DEFINE k1 == os_rq_get_highest_prio_task(k)
  <2>1. Idle \in alive /\ k' = k1 /\ running' /\ swEnabled' /\ alive' = alive
    BY <1>3 DEF os_sys_start
  <2>2. k.map # {}
    BY <1>1, <2>1, QueueThere
  <2>3. OnlyChoice(k, k1) /\ k1.state = k.state
    BY <1>1, <2>2, GetHighestLists DEF Safe
  <2> HIDE DEF k1
  <2>4. SameTasks(k, k1) /\ HolderWaits(k1)
    BY <1>1, <2>3 DEF OnlyChoice, SameTasks, TickLinked, HolderWaits
  <2>5. Safe(k', alive')
    BY <1>1, <2>1, <2>3, <2>4, SafeSame
  <2>6. QED
    BY <2>1, <2>5, TypeParts DEF SafeInv, TypeInv, TypeOK
<1>4. QED
  BY <1>2, <1>3, ListNames, ClientFacts DEF Boot

LEMMA SafeInvStep ==
  ~ Careless /\ TypeInv /\ LockInv /\ SafeInv /\ [Next]_vars => SafeInv'
<1> SUFFICES ASSUME ~ Careless, TypeInv, LockInv, SafeInv, [Next]_vars PROVE SafeInv'
  OBVIOUS
<1>1. k' \in KernelState
  BY TypeInvStep DEF TypeInv, TypeOK
<1>2. CASE UNCHANGED vars
  BY <1>2 DEF vars, SafeInv
<1>3. ASSUME NEW t \in Task, Call(t) \/ TaskStep(t) PROVE SafeInv'
  BY <1>1, <1>3, SafeInvCall, SafeInvTaskStep
<1>4. QED
  BY <1>1, <1>2, <1>3, SafeInvBoot, SafeInvHandlers DEF Next

LEMMA SafeInvInit == Init => SafeInv
<1> SUFFICES ASSUME Init PROVE SafeInv
  OBVIOUS
<1>1. /\ k = KernelReset /\ alive = {} /\ ~ running /\ swEnabled = FALSE /\ running = FALSE
  BY DEF Init
<1>2. /\ k.list = [l \in List |-> <<>>] /\ k.map = {} /\ k.high = MaxPrio
      /\ k.tsPrio = MaxPrio + 1 /\ k.ticks = <<>> /\ k.lock = 0
      /\ k.state = [t \in Task |-> "NONE"]
  BY <1>1 DEF KernelReset
<1>3. \A l \in List : k.list[l] = <<>> /\ ToSet(k.list[l]) = {} /\ IsInjective(k.list[l])
  BY <1>2 DEF ToSet, IsInjective
<1>4. \A u : ~ TickLinked(k, u)
  BY <1>2 DEF TickLinked
<1>5. Unique(k) /\ QueuesReady(k) /\ WaitersBlocked(k)
  BY <1>2, <1>3, <1>4, ListNames DEF Unique, QueuesReady, WaitersBlocked
<1>6. MapExact(k) /\ PositionKept(k)
  BY <1>2, <1>3, ListNames DEF MapExact, PositionKept, Prio
<1>7. QED
  BY <1>1, <1>2, <1>5, <1>6, ListNames
  DEF SafeInv, Safe, Lists, HighStart, HolderWaits

SafetyInv == TypeInv /\ LockInv /\ SafeInv

LEMMA SafetyInvInit == Init => SafetyInv
BY TypeInvInit, LockInvInit, SafeInvInit DEF SafetyInv

LEMMA SafetyInvStep == ~ Careless /\ SafetyInv /\ [Next]_vars => SafetyInv'
BY TypeInvStep, LockInvStep, SafeInvStep DEF SafetyInv

LEMMA SafetyInvHolds == ASSUME ~ Careless PROVE Spec => []SafetyInv
<1>1. SafetyInv /\ [Next]_vars => SafetyInv'
  BY SafetyInvStep
<1>2. QED
  BY <1>1, SafetyInvInit, PTL DEF Spec

\* Wherever tasks are moved between the lists, a live one is in the ready queue of
\* its priority or where a wakeup or the clock finds it.
THEOREM TasksAreFound == ASSUME ~ Careless PROVE Spec => []NoTaskLost
<1>1. SafetyInv => NoTaskLost
  BY DEF SafetyInv, SafeInv, Safe, Findable, NoTaskLost, Linked
<1>2. QED
  BY <1>1, SafetyInvHolds, PTL

\* The bitmap and the highest priority, updated by hand in three functions, always
\* agree with the ready queues.
THEOREM MapIsAccurate == ASSUME ~ Careless PROVE Spec => []ReadyMapAccurate
<1>1. SafetyInv => ReadyMapAccurate
  BY DEF SafetyInv, SafeInv, Safe, Lists, MapExact, ReadyMapAccurate
<1>2. QED
  BY <1>1, SafetyInvHolds, PTL

\* The round-robin position of the highest priority never points to a task that
\* has left the queue.
THEOREM PositionIsValid == ASSUME ~ Careless PROVE Spec => []RoundRobinPosition
<1>1. SafetyInv => RoundRobinPosition
  <2>1. SafetyInv => k.high \in Prio
    BY TypeParts DEF SafetyInv, KernelState
  <2>2. QED
    BY <2>1 DEF SafetyInv, SafeInv, Safe, Lists, PositionKept, RoundRobinPosition
<1>2. QED
  BY <1>1, SafetyInvHolds, PTL

-----------------------------------------------------------------------------
(* The choice of the next task.                                            *)

\* A task that a switch is on its way to is one of the highest ready priority.
SwitchInv ==
  Works /\ k.lock = 0 /\ k.cur # k.nxt /\ k.cur # NULL /\ irq # "tick"
    => k.nxt \in ToSet(k.list[k.high])

\* Nothing is due that would look for another task than the current one.
Settled ==
  /\ Works /\ k.lock = 0 /\ irq = "none" /\ ~ swPending /\ k.cur # NULL
  /\ todo[k.cur] = <<>> \/ Head(todo[k.cur]) \notin {"sched", "ctxSw"}

\* Then the current task is ready, and of the highest priority: os_wakeup_tick_task
\* alone makes a task ready and leaves it at that.
CurInv ==
  Settled => /\ k.cur \in ToSet(k.list[k.prio[k.cur]])
             /\ "wake" \notin Calls => k.prio[k.cur] = k.high

ChoiceInv == SwitchInv /\ CurInv

LEMMA ChoiceSame ==
  ASSUME ChoiceInv, SameTasks(k, k'), k'.fault = k.fault, k'.cur = k.cur, k'.nxt = k.nxt,
         k'.lock = k.lock, UNCHANGED <<running, swEnabled>>, irq = "none" \/ irq' = "tick",
         Settled' => Settled
  PROVE  ChoiceInv'
BY DEF ChoiceInv, SwitchInv, CurInv, Settled, Works, SameTasks

LEMMA ChoiceChosen ==
  ASSUME SafetyInv, Chosen(k, k'), k' \in KernelState, Settled' => k'.nxt = k'.cur
  PROVE  ChoiceInv'
<1>1. SwitchInv'
  BY DEF SwitchInv, Chosen, SameTasks
<1>2. ASSUME Settled' PROVE k'.cur \in ToSet(k'.list[k'.high]) /\ k'.prio[k'.cur] = k'.high
  <2>1. k'.cur \in ToSet(k'.list[k'.high])
    BY <1>2 DEF Settled, Chosen, SameTasks
  <2>2. k'.high \in Prio
    BY DEF KernelState
  <2>3. QED
    BY <2>1, <2>2 DEF Chosen, SameTasks, Lists, QueuesReady
<1>3. QED
  BY <1>1, <1>2 DEF ChoiceInv, CurInv

LEMMA ChoiceCall ==
  ASSUME ~ Careless, SafetyInv, ChoiceInv, NEW t \in Task, Call(t), k' \in KernelState
  PROVE  ChoiceInv'
<1>1. /\ Runs(t) /\ t \in alive \ {Idle} /\ todo[t] = <<>>
      /\ UNCHANGED <<running, swEnabled, swPending, irq>>
      /\ \E rest : /\ todo' = [todo EXCEPT ![t] = rest]
                   /\ MovesLock(rest) \/ \E u \in Task : MovesTask(t, u, rest)
  BY CallEffect DEF SafetyInv
<1>2. Works /\ k.cur = t /\ k.nxt = t /\ irq = "none" /\ ~ swPending /\ t # NULL
  BY <1>1, RunsAlone, ListNames DEF SafetyInv
<1>3. todo \in [Task -> Seq(Step)] /\ Lists(k) /\ k \in KernelState
  BY TypeParts DEF SafetyInv, SafeInv, Safe
<1>4. PICK rest : /\ todo' = [todo EXCEPT ![t] = rest]
                  /\ MovesLock(rest) \/ \E u \in Task : MovesTask(t, u, rest)
  BY <1>1
<1>5. k'.cur = t /\ k'.nxt = t /\ todo'[t] = rest
  BY <1>2, <1>3, <1>4 DEF MovesLock, MovesTask, OnlyTask, SameSched
<1>6. SwitchInv'
  BY <1>5 DEF SwitchInv
<1>7. CASE rest # <<>>
  <2>1. Head(rest) = "sched"
    BY <1>4, <1>7 DEF MovesLock, MovesTask
  <2>2. ~ Settled'
    BY <1>5, <1>7, <2>1 DEF Settled
  <2>3. QED
    BY <1>6, <2>2 DEF ChoiceInv, CurInv
<1>8. CASE rest = <<>> /\ MovesLock(rest)
  <2>1. k'.lock > 0
    BY <1>8 DEF MovesLock
  <2>2. ~ Settled'
    BY <2>1 DEF Settled
  <2>3. QED
    BY <1>6, <2>2 DEF ChoiceInv, CurInv
<1>9. CASE rest = <<>> /\ \E u \in Task : MovesTask(t, u, rest)
  <2>1. PICK u \in Task : MovesTask(t, u, rest)
    BY <1>9
  <2>2. OnlyTask(k, k', u) /\ "wake" \in Calls /\ TickLinked(k, u)
    BY <1>9, <2>1 DEF MovesTask
  <2>3. ASSUME Settled' PROVE t \in ToSet(k'.list[k'.prio[t]])
    <3>1. Settled
      BY <1>1, <1>2, <2>2, <2>3 DEF Settled, OnlyTask, SameSched
    <3>2. t \in ToSet(k.list[k.prio[t]]) /\ k.prio[t] \in Prio /\ k.prio[t] \in List
      BY <1>2, <1>3, <3>1, ListNames DEF ChoiceInv, CurInv, KernelState
    <3>3. k.state[t] # "BLOCKING" /\ k.state[u] = "BLOCKING"
      BY <1>3, <2>2, <3>2 DEF Lists, QueuesReady, WaitersBlocked
    <3>4. QED
      BY <2>2, <3>2, <3>3 DEF OnlyTask, Untouched
  <2>4. QED
    BY <1>5, <1>6, <2>2, <2>3 DEF ChoiceInv, CurInv
<1>10. QED
  BY <1>4, <1>7, <1>8, <1>9

LEMMA ChoiceTaskStep ==
  ASSUME SafetyInv, ChoiceInv, NEW t \in Task, TaskStep(t), k' \in KernelState
  PROVE  ChoiceInv'
<1>1. /\ Runs(t) /\ todo[t] # <<>> /\ UNCHANGED <<running, alive, swEnabled, irq>>
      /\ k \in KernelState /\ Lists(k) /\ k.cur = t /\ irq = "none" /\ t # NULL
      /\ todo \in [Task -> Seq(Step)]
  BY TypeParts, ListNames
  DEF TaskStep, SchedStep, os_ctx_sw, DelayReturn, RunsOff, Continues, Then, Runs,
      SafetyInv, SafeInv, Safe
<1>2. CASE SchedStep(t)
  <2> DEFINE rest == (IF k'.nxt # k'.cur THEN <<"ctxSw">> ELSE <<>>) \o Tail(todo[t])
  <2>1. Chosen(k, k') /\ todo' = [todo EXCEPT ![t] = rest]
    BY <1>2, SchedStepEffect DEF SafetyInv
  <2>2. Tail(todo[t]) \in Seq(Step)
    BY <1>1
  <2>3. k'.nxt # k'.cur => rest # <<>> /\ Head(rest) = "ctxSw"
    BY <2>2
  <2> HIDE DEF rest
  <2>4. todo'[t] = rest /\ k'.cur = t
    BY <1>1, <2>1 DEF Chosen
  <2>5. Settled' => k'.nxt = k'.cur
    BY <2>3, <2>4 DEF Settled
  <2>6. QED
    BY <2>1, <2>5, ChoiceChosen
<1>3. CASE os_ctx_sw(t)
  BY <1>1, <1>3 DEF os_ctx_sw, ChoiceInv, SwitchInv, CurInv, Settled, Works
<1>4. CASE DelayReturn(t)
  <2> DEFINE b == IF k.bstate[t] = "EARLY_WAKEUP" THEN "NONE" ELSE k.bstate[t]
             k1 == [k EXCEPT !.bstate[t] = b]
  <2>1. k' = k1 /\ Continues(t, "delayRet") /\ UNCHANGED swPending
    BY <1>4 DEF DelayReturn, Then
  <2>2. /\ k1.prio = k.prio /\ k1.list = k.list /\ k1.high = k.high /\ k1.cur = k.cur
        /\ k1.nxt = k.nxt /\ k1.lock = k.lock /\ k1.fault = k.fault
    BY <1>1 DEF KernelState
  <2> HIDE DEF k1
  <2>3. Settled' => Settled
    BY <1>1, <2>1, <2>2 DEF Settled, Works, Continues
  <2>4. QED
    BY <1>1, <2>1, <2>2, <2>3 DEF ChoiceInv, SwitchInv, CurInv, Works
<1>5. CASE RunsOff(t)
  <2>1. k'.fault
    BY <1>1, <1>5 DEF RunsOff, Then, KernelState
  <2>2. QED
    BY <2>1 DEF ChoiceInv, SwitchInv, CurInv, Settled, Works
<1>6. QED
  BY <1>2, <1>3, <1>4, <1>5 DEF TaskStep

LEMMA CountersSame ==
  ASSUME OnlyCounters(k, k')
  PROVE  /\ SameTasks(k, k') /\ k'.fault = k.fault /\ k'.cur = k.cur
         /\ k'.nxt = k.nxt /\ k'.lock = k.lock
BY DEF OnlyCounters, SameSched, SameTasks

LEMMA ChoiceHandlers ==
  ASSUME SafetyInv, ChoiceInv, TickHandler \/ MissTick \/ SwEnter \/ SwLeave,
         k' \in KernelState
  PROVE  ChoiceInv'
<1>1. TypeInv /\ LockInv /\ SafeInv
  BY DEF SafetyInv
<1>2. Rescheduled => ChoiceInv'
  BY ChoiceChosen DEF Rescheduled, Settled
<1>3. ASSUME OnlyCounters(k, k'), UNCHANGED <<running, todo, swEnabled, swPending>>,
             irq = "none" \/ irq' = "tick"
      PROVE  ChoiceInv'
  <2>1. /\ SameTasks(k, k') /\ k'.fault = k.fault /\ k'.cur = k.cur
        /\ k'.nxt = k.nxt /\ k'.lock = k.lock
    BY <1>3, CountersSame
  <2>2. Settled' => Settled
    BY <1>3, <2>1 DEF Settled, Works
  <2>3. QED
    BY <1>3, <2>1, <2>2, ChoiceSame
<1>4. CASE SysTick
  BY <1>1, <1>2, <1>3, <1>4, SysTickEffect
<1>5. CASE ExpireTask \/ ExpireNext \/ ExpireLast
  <2>1. /\ irq = "tick" /\ UNCHANGED <<running, todo, alive, swEnabled>>
        /\ UNCHANGED irq \/ Rescheduled
    BY <1>1, <1>5, ExpiryEffect
  <2>2. ASSUME UNCHANGED irq PROVE ChoiceInv'
    BY <2>1, <2>2 DEF ChoiceInv, SwitchInv, CurInv, Settled
  <2>3. QED
    BY <1>2, <2>1, <2>2
<1>6. CASE MissTick
  <2>1. OnlyCounters(k, k') /\ UNCHANGED <<running, todo, alive, swEnabled, swPending, irq>>
    BY <1>1, <1>6, MissTickEffect
  <2>2. irq = "none"
    BY <1>6 DEF MissTick
  <2>3. QED
    BY <1>3, <2>1, <2>2
<1>7. CASE SwEnter
  <2>1. irq = "none" /\ irq' = "sw" /\ UNCHANGED <<k, running, todo, swEnabled>>
    BY <1>7 DEF SwEnter, SwitchDue
  <2>2. QED
    BY <2>1 DEF ChoiceInv, SwitchInv, CurInv, Settled, Works
<1>8. CASE SwLeave
  <2>1. /\ Works /\ irq = "sw" /\ SameTasks(k, k') /\ k'.lock = k.lock /\ k'.cur = k'.nxt
        /\ k.cur # NULL /\ k.cur # k.nxt => k'.nxt = k.nxt
        /\ k.lock = 0 /\ (k.cur = NULL \/ k.cur = k.nxt) => k'.nxt \in ToSet(k'.list[k'.high])
    BY <1>1, <1>8, SwLeaveEffect
  <2>2. k'.lock = 0 => k'.cur \in ToSet(k'.list[k'.high])
    BY <2>1 DEF ChoiceInv, SwitchInv, SameTasks
  <2>3. k'.high \in Prio
    BY DEF KernelState
  <2>4. k'.lock = 0 => k'.prio[k'.cur] = k'.high
    BY <2>1, <2>2, <2>3 DEF SameTasks, Lists, QueuesReady
  <2>5. QED
    BY <2>1, <2>2, <2>4 DEF ChoiceInv, SwitchInv, CurInv, Settled
<1>9. QED
  BY <1>4, <1>5, <1>6, <1>7, <1>8 DEF TickHandler

LEMMA ChoiceBoot == ASSUME SafetyInv, Boot PROVE ChoiceInv'
<1>1. CASE os_sys_start
  <2>1. k.cur = NULL /\ k' = os_rq_get_highest_prio_task(k)
    BY <1>1 DEF os_sys_start, SafetyInv, LockInv, BootInv
  <2>2. k'.cur = k.cur
    <3>1. ~ running /\ Idle \in alive
      BY <1>1 DEF os_sys_start
    <3>2. k.map # {} /\ k \in KernelState /\ Lists(k)
      BY <3>1, TypeParts, QueueThere DEF SafetyInv, SafeInv, Safe
    <3>3. QED
      BY <2>1, <3>2, GetHighestLists DEF OnlyChoice
  <2>3. QED
    BY <2>1, <2>2 DEF ChoiceInv, SwitchInv, CurInv, Settled
<1>2. CASE UNCHANGED running /\ ~ running
  BY <1>2 DEF ChoiceInv, SwitchInv, CurInv, Settled, Works
<1>3. QED
  BY <1>1, <1>2 DEF Boot, BootCreate

LEMMA ChoiceStep == ~ Careless /\ SafetyInv /\ ChoiceInv /\ [Next]_vars => ChoiceInv'
<1> SUFFICES ASSUME ~ Careless, SafetyInv, ChoiceInv, [Next]_vars PROVE ChoiceInv'
  OBVIOUS
<1>1. k' \in KernelState
  BY SafetyInvStep DEF SafetyInv, TypeInv, TypeOK
<1>2. CASE UNCHANGED vars
  BY <1>2 DEF vars, ChoiceInv, SwitchInv, CurInv, Settled, Works
<1>3. ASSUME NEW t \in Task, Call(t) \/ TaskStep(t) PROVE ChoiceInv'
  BY <1>1, <1>3, ChoiceCall, ChoiceTaskStep
<1>4. QED
  BY <1>1, <1>2, <1>3, ChoiceBoot, ChoiceHandlers DEF Next

LEMMA ChoiceInit == Init => ChoiceInv
BY DEF Init, ChoiceInv, SwitchInv, CurInv, Settled, Works

LEMMA ChoiceHolds == ASSUME ~ Careless PROVE Spec => [](SafetyInv /\ ChoiceInv)
<1>1. SafetyInv /\ ChoiceInv /\ [Next]_vars => (SafetyInv /\ ChoiceInv)'
  BY SafetyInvStep, ChoiceStep
<1>2. QED
  BY <1>1, SafetyInvInit, ChoiceInit, PTL DEF Spec

\* Only the end of the software interrupt changes the current task.
LEMMA SwitchStep ==
  ASSUME ~ Careless, SafetyInv, ChoiceInv, [Next]_vars, k'.cur # k.cur, k'.lock = 0
  PROVE  k'.cur # NULL /\ k'.cur \in ToSet(k'.list[k'.high])
<1>1. TypeInv /\ LockInv /\ SafeInv /\ k' \in KernelState /\ k \in KernelState /\ LockInv'
  BY SafetyInvStep, TypeParts DEF SafetyInv, TypeInv, TypeOK
<1>2. CASE UNCHANGED vars
  BY <1>2 DEF vars
<1>3. CASE Boot
  <2>1. k.cur = NULL
    BY <1>1, <1>3 DEF Boot, BootCreate, os_sys_start, LockInv, BootInv
  <2>2. CASE os_sys_start
    <3>1. k.map # {} /\ Lists(k)
      BY <1>1, <2>2, QueueThere DEF os_sys_start, SafeInv, Safe
    <3>2. k'.cur = k.cur
      BY <1>1, <2>2, <3>1, GetHighestLists DEF os_sys_start, OnlyChoice
    <3>3. QED
      BY <3>2
  <2>3. CASE ~ running /\ UNCHANGED running
    BY <1>1, <2>1, <2>3 DEF LockInv, BootInv
  <2>4. QED
    BY <1>3, <2>2, <2>3 DEF Boot, BootCreate
<1>4. ASSUME NEW t \in Task, Call(t) PROVE FALSE
  <2>1. \E rest : MovesLock(rest) \/ \E u \in Task : MovesTask(t, u, rest)
    BY <1>1, <1>4, CallEffect
  <2>2. QED
    BY <2>1 DEF MovesLock, MovesTask, OnlyTask, SameSched
<1>5. ASSUME NEW t \in Task, TaskStep(t) PROVE FALSE
  <2>1. CASE SchedStep(t)
    BY <1>1, <2>1, SchedStepEffect DEF Chosen
  <2>2. CASE os_ctx_sw(t)
    BY <2>2 DEF os_ctx_sw
  <2>3. CASE DelayReturn(t)
    BY <1>1, <2>3 DEF DelayReturn, Then, KernelState
  <2>4. CASE RunsOff(t)
    BY <1>1, <2>4 DEF RunsOff, Then, KernelState
  <2>5. QED
    BY <1>5, <2>1, <2>2, <2>3, <2>4 DEF TaskStep
<1>6. CASE SysTick
  BY <1>1, <1>6, SysTickEffect DEF Rescheduled, Chosen, OnlyCounters, SameSched
<1>7. CASE ExpireTask \/ ExpireNext \/ ExpireLast
  BY <1>1, <1>7, ExpiryEffect DEF Rescheduled, Chosen, OnlyCounters, OnlyTask, SameSched
<1>8. CASE MissTick
  BY <1>1, <1>8, MissTickEffect DEF OnlyCounters, SameSched
<1>9. CASE SwEnter
  BY <1>9 DEF SwEnter
<1>10. CASE SwLeave
  <2>1. /\ Works /\ irq = "sw" /\ SameTasks(k, k') /\ k.lock = 0 /\ k'.cur = k'.nxt
        /\ k.cur # NULL /\ k.cur # k.nxt => k'.nxt = k.nxt
        /\ k.lock = 0 /\ (k.cur = NULL \/ k.cur = k.nxt) => k'.nxt \in ToSet(k'.list[k'.high])
    BY <1>1, <1>10, SwLeaveEffect
  <2>2. k'.cur \in ToSet(k'.list[k'.high])
    BY <2>1 DEF ChoiceInv, SwitchInv, SameTasks
  <2>3. k'.high \in List
    BY <1>1, ListNames DEF KernelState
  <2>4. QED
    BY <1>1, <2>2, <2>3, TasksOfList, ListNames
<1>11. QED
  BY <1>2, <1>3, <1>4, <1>5, <1>6, <1>7, <1>8, <1>9, <1>10 DEF Next, TickHandler

\* os_task_ready does not go stale between __os_sched and the software interrupt:
\* a switch leads to a task of the highest ready priority.
THEOREM SwitchesGoToReady == ASSUME ~ Careless PROVE Spec => SwitchToReady
<1>1. SafetyInv /\ ChoiceInv /\ [Next]_vars =>
        [k'.cur # k.cur /\ k'.lock = 0
           => k'.cur # NULL /\ k'.cur \in ToSet(k'.list[k'.high])]_vars
  BY SwitchStep
<1>2. QED
  BY <1>1, ChoiceHolds, PTL DEF Spec, SwitchToReady

\* A task that executes code of its own has the highest ready priority, of an
\* application that does not call os_wakeup_tick_task.
THEOREM HighestRuns ==
  ASSUME ~ Careless, "wake" \notin Calls PROVE Spec => []HighestPriorityRuns
<1>1. SafetyInv /\ ChoiceInv => HighestPriorityRuns
  <2> SUFFICES ASSUME SafetyInv, ChoiceInv, NEW t \in Task, Runs(t), todo[t] = <<>>, k.lock = 0
               PROVE  k.prio[t] = k.high
    BY DEF HighestPriorityRuns
  <2>1. Works /\ k.cur = t /\ irq = "none" /\ ~ swPending /\ t # NULL
    BY RunsAlone, ListNames DEF SafetyInv
  <2>2. Settled
    BY <2>1 DEF Settled
  <2>3. QED
    BY <2>1, <2>2 DEF ChoiceInv, CurInv
<1>2. QED
  BY <1>1, ChoiceHolds, PTL

-----------------------------------------------------------------------------
(* Memory stays sound.                                                     *)

\* What may be left of a system call.
GoneShapes == {<<"sched", "gone">>, <<"ctxSw", "gone">>, <<"gone">>}
TodoShapes == {<<>>, <<"sched">>, <<"sched", "delayRet">>,
               <<"ctxSw">>, <<"ctxSw", "delayRet">>, <<"delayRet">>} \cup GoneShapes

\* A task that has ended is in no list, and the processor leaves it for good before
\* it gets to run past its end.
LeavesForGood(t) ==
  /\ t # Idle /\ t \notin alive /\ k.state[t] # "NONE"
  /\ ~ TickLinked(k, t) /\ \A l \in List : t \notin ToSet(k.list[l])
  /\ k.cur # t \/ Head(todo[t]) # "sched" => k.nxt # t
  /\ k.cur = t /\ todo[t] = <<"gone">> => swPending \/ irq = "sw"

GoneInv ==
  /\ k.fault = FALSE
  /\ \A t \in Task : todo[t] \in TodoShapes
  /\ ~ running => \A t \in Task : todo[t] = <<>>
  /\ "lock" \notin Calls => k.lock = 0
  /\ \A t \in Task : todo[t] \in GoneShapes => "exit" \in Calls /\ LeavesForGood(t)

LEMMA PairFacts ==
  ASSUME NEW a, NEW b
  PROVE  /\ Head(<<a, b>>) = a /\ Tail(<<a, b>>) = <<b>> /\ <<"ctxSw">> \o <<b>> = <<"ctxSw", b>>
         /\ <<>> \o <<b>> = <<b>> /\ <<b>> # <<>>
         /\ \A c : <<a, b>> # <<c>> /\ (<<b>> = <<c>> <=> b = c)
         /\ \A c, d : <<a, b>> = <<c, d>> <=> a = c /\ b = d
<1>1. Head(<<a, b>>) = a /\ Tail(<<a, b>>) = <<b>>
  OBVIOUS
<1>2. <<"ctxSw">> \o <<b>> = <<"ctxSw", b>>
  <2> DEFINE S == {"ctxSw", b}
             s == <<"ctxSw">> \o <<b>>
             v == <<"ctxSw", b>>
  <2>1. <<"ctxSw">> \in Seq(S) /\ <<b>> \in Seq(S) /\ v \in Seq(S)
    OBVIOUS
  <2>2. s \in Seq(S) /\ Len(s) = 2 /\ s[1] = "ctxSw" /\ s[2] = b
    BY <2>1
  <2>3. Len(v) = 2 /\ v[1] = "ctxSw" /\ v[2] = b
    OBVIOUS
  <2> HIDE DEF s, v
  <2>4. s = v
    BY <2>1, <2>2, <2>3
  <2>5. QED
    BY <2>4 DEF s, v
<1>3. <<>> \o <<b>> = <<b>> /\ <<b>> # <<>>
  OBVIOUS
<1>4. ASSUME NEW c PROVE <<a, b>> # <<c>> /\ (<<b>> = <<c>> <=> b = c)
  <2>1. Len(<<a, b>>) = 2 /\ Len(<<c>>) = 1
    OBVIOUS
  <2>2. <<b>>[1] = b /\ <<c>>[1] = c
    OBVIOUS
  <2>3. QED
    BY <2>1, <2>2
<1>5. ASSUME NEW c, NEW d PROVE <<a, b>> = <<c, d>> <=> a = c /\ b = d
  <2>1. <<a, b>>[1] = a /\ <<a, b>>[2] = b /\ <<c, d>>[1] = c /\ <<c, d>>[2] = d
    OBVIOUS
  <2>2. QED
    BY <2>1
<1>6. QED
  BY <1>1, <1>2, <1>3, <1>4, <1>5

LEMMA ShapeFacts ==
  ASSUME NEW w \in TodoShapes, w # <<>>
  PROVE  /\ Tail(w) \in {<<>>, <<"delayRet">>, <<"gone">>}
         /\ <<"ctxSw">> \o Tail(w) \in TodoShapes /\ <<>> \o Tail(w) = Tail(w)
         /\ Tail(w) = <<"gone">> <=> w \in {<<"sched", "gone">>, <<"ctxSw", "gone">>}
         /\ <<"ctxSw">> \o Tail(w) \in GoneShapes => Tail(w) = <<"gone">>
         /\ <<"ctxSw">> \o Tail(w) # <<"gone">>
         /\ Head(<<"ctxSw">> \o Tail(w)) = "ctxSw"
         /\ Head(w) = "delayRet" => Tail(w) = <<>>
         /\ Head(w) = "gone" => w = <<"gone">>
<1>1. CASE w = <<"sched">>
  BY <1>1 DEF TodoShapes, GoneShapes
<1>2. CASE w = <<"sched", "delayRet">>
  BY <1>2, PairFacts DEF TodoShapes, GoneShapes
<1>3. CASE w = <<"ctxSw">>
  BY <1>3 DEF TodoShapes, GoneShapes
<1>4. CASE w = <<"ctxSw", "delayRet">>
  BY <1>4, PairFacts DEF TodoShapes, GoneShapes
<1>5. CASE w = <<"delayRet">>
  BY <1>5 DEF TodoShapes, GoneShapes
<1>6. CASE w = <<"sched", "gone">>
  BY <1>6, PairFacts DEF TodoShapes, GoneShapes
<1>7. CASE w = <<"ctxSw", "gone">>
  BY <1>7, PairFacts DEF TodoShapes, GoneShapes
<1>8. CASE w = <<"gone">>
  BY <1>8 DEF TodoShapes, GoneShapes
<1>9. QED
  BY <1>1, <1>2, <1>3, <1>4, <1>5, <1>6, <1>7, <1>8 DEF TodoShapes, GoneShapes

\* A step that neither concerns an ended task nor chooses it leaves it to its end.
LEMMA LeavesStill ==
  ASSUME NEW t \in Task, LeavesForGood(t), todo'[t] = todo[t], t \notin alive',
         k'.cur = k.cur, k'.nxt = k.nxt \/ k'.nxt # t, k'.state[t] # "NONE",
         ~ TickLinked(k', t), \A l \in List : t \notin ToSet(k'.list[l]),
         swPending \/ irq = "sw" => swPending' \/ irq' = "sw"
  PROVE  LeavesForGood(t)'
BY DEF LeavesForGood

\* The choice of the next task does not fall on it.
LEMMA LeavesChosen ==
  ASSUME NEW t \in Task, LeavesForGood(t), todo'[t] = todo[t], t \notin alive',
         k \in KernelState, Chosen(k, k'), k.lock = 0,
         swPending \/ irq = "sw" => swPending' \/ irq' = "sw"
  PROVE  LeavesForGood(t)'
<1>1. k.high \in List
  BY ListNames DEF KernelState
<1>2. k'.nxt # t
  BY <1>1 DEF LeavesForGood, Chosen
<1>3. /\ ~ TickLinked(k', t) /\ \A l \in List : t \notin ToSet(k'.list[l])
      /\ k'.state[t] # "NONE" /\ k'.cur = k.cur
  BY DEF LeavesForGood, Chosen, SameTasks
<1>4. QED
  BY <1>2, <1>3, LeavesStill

LEMMA LeavesCounters ==
  ASSUME NEW t \in Task, LeavesForGood(t), todo'[t] = todo[t], t \notin alive',
         OnlyCounters(k, k'), swPending \/ irq = "sw" => swPending' \/ irq' = "sw"
  PROVE  LeavesForGood(t)'
BY LeavesStill DEF LeavesForGood, OnlyCounters, SameSched

\* Nor does a step that moves another task.
LEMMA LeavesMoves ==
  ASSUME NEW t \in Task, LeavesForGood(t), todo'[t] = todo[t], t \notin alive',
         NEW u \in Task, u # t, OnlyTask(k, k', u), UNCHANGED <<swPending, irq>>
  PROVE  LeavesForGood(t)'
BY LeavesStill DEF LeavesForGood, OnlyTask, Untouched, SameSched

GoodInv == SafetyInv /\ ChoiceInv /\ GoneInv

LEMMA GoneCall ==
  ASSUME ~ Careless, ~ ("lock" \in Calls /\ "exit" \in Calls), GoodInv,
         NEW t \in Task, Call(t)
  PROVE  GoneInv'
<1>1. /\ Runs(t) /\ t \in alive \ {Idle} /\ todo[t] = <<>>
      /\ UNCHANGED <<running, swEnabled, swPending, irq>>
      /\ \E rest : /\ todo' = [todo EXCEPT ![t] = rest]
                   /\ MovesLock(rest) \/ \E u \in Task : MovesTask(t, u, rest)
  BY CallEffect DEF GoodInv, SafetyInv
<1>2. Works /\ k.cur = t /\ k.nxt = t /\ irq = "none" /\ ~ swPending /\ t # NULL
  BY <1>1, RunsAlone, ListNames DEF GoodInv, SafetyInv
<1>3. /\ todo \in [Task -> Seq(Step)] /\ Lists(k) /\ k \in KernelState
      /\ GoneInv /\ ChoiceInv
  BY TypeParts DEF GoodInv, SafetyInv, SafeInv, Safe
<1>4. PICK rest : /\ todo' = [todo EXCEPT ![t] = rest]
                  /\ MovesLock(rest) \/ \E u \in Task : MovesTask(t, u, rest)
  BY <1>1
<1>5. todo'[t] = rest /\ \A v \in Task \ {t} : todo'[v] = todo[v]
  BY <1>3, <1>4
<1>6. rest \in TodoShapes
  BY <1>4 DEF MovesLock, MovesTask, TodoShapes, GoneShapes
<1>7. k'.fault = FALSE /\ ("lock" \notin Calls => k'.lock = 0)
  <2>1. CASE MovesLock(rest)
    BY <1>3, <2>1 DEF MovesLock, GoneInv
  <2>2. CASE \E u \in Task : MovesTask(t, u, rest)
    BY <1>3, <2>2 DEF MovesTask, OnlyTask, SameSched, GoneInv
  <2>3. QED
    BY <1>4, <2>1, <2>2
<1>8. ASSUME NEW v \in Task \ {t}, todo[v] \in GoneShapes
      PROVE  "exit" \in Calls /\ LeavesForGood(v)'
  <2>1. "exit" \in Calls /\ LeavesForGood(v) /\ k.lock = 0
    BY <1>3, <1>8 DEF GoneInv
  <2>2. PICK u \in Task : MovesTask(t, u, rest)
    BY <1>3, <1>4, <2>1 DEF MovesLock
  <2>3. u # v /\ OnlyTask(k, k', u) /\ v \notin alive'
    BY <2>1, <2>2 DEF MovesTask, LeavesForGood
  <2>4. QED
    BY <1>1, <1>5, <2>1, <2>3, LeavesMoves
<1>9. ASSUME rest \in GoneShapes PROVE "exit" \in Calls /\ LeavesForGood(t)'
  <2>1. rest = <<"sched", "gone">>
    <3>1. /\ <<"sched", "delayRet">> # <<"sched", "gone">>
          /\ <<"sched", "delayRet">> # <<"ctxSw", "gone">>
          /\ <<"sched", "delayRet">> # <<"gone">> /\ <<"sched">> # <<"gone">>
          /\ <<"sched", "gone">> # <<"sched">> /\ <<"ctxSw", "gone">> # <<"sched">>
      BY PairFacts
    <3>2. rest \in {<<>>, <<"sched">>, <<"sched", "delayRet">>, <<"sched", "gone">>}
      BY <1>4 DEF MovesLock, MovesTask
    <3>3. QED
      BY <1>9, <3>1, <3>2 DEF GoneShapes
  <2>2. PICK u \in Task : MovesTask(t, u, rest)
    <3>1. <<"sched", "gone">> # <<>> /\ <<"sched", "gone">> # <<"sched">>
      BY PairFacts
    <3>2. QED
      BY <1>4, <2>1, <3>1 DEF MovesLock
  <2>3. /\ "exit" \in Calls /\ u = t /\ t \notin alive' /\ OnlyTask(k, k', t)
        /\ k'.state = k.state /\ k'.ticks = k.ticks
        /\ \A l \in List : t \notin ToSet(k'.list[l])
    <3>1. /\ <<"sched", "gone">> # <<>> /\ <<"sched", "gone">> # <<"sched">>
          /\ <<"sched", "gone">> # <<"sched", "delayRet">>
      BY PairFacts
    <3>2. QED
      BY <2>1, <2>2, <3>1 DEF MovesTask
  <2>4. t \in ToSet(k.list[k.prio[t]])
    <3>1. k.lock = 0
      BY <1>3, <2>3 DEF GoneInv
    <3>2. Settled
      BY <1>1, <1>2, <3>1 DEF Settled
    <3>3. QED
      BY <1>2, <1>3, <3>2 DEF ChoiceInv, CurInv
  <2>5. k.state[t] \in {"READY", "RUNNING"}
    <3>1. k.prio[t] \in Prio
      BY <1>3 DEF KernelState
    <3>2. QED
      BY <1>3, <2>4, <3>1 DEF Lists, QueuesReady
  <2>6. k.state[t] # "NONE" /\ ~ TickLinked(k, t)
    BY <1>3, <2>5 DEF Lists, WaitersBlocked
  <2>7. k'.state[t] # "NONE" /\ ~ TickLinked(k', t)
    BY <2>3, <2>6 DEF TickLinked
  <2>8. k'.cur = t /\ Head(todo'[t]) = "sched" /\ todo'[t] # <<"gone">>
    BY <1>2, <1>5, <2>1, <2>3, PairFacts DEF OnlyTask, SameSched
  <2>9. QED
    BY <1>1, <2>3, <2>7, <2>8 DEF LeavesForGood
<1>10. \A v \in Task : todo'[v] \in TodoShapes
  BY <1>3, <1>5, <1>6 DEF GoneInv
<1>11. \A v \in Task : todo'[v] \in GoneShapes => "exit" \in Calls /\ LeavesForGood(v)'
  BY <1>5, <1>8, <1>9
<1>12. running'
  BY <1>1, <1>2 DEF Works
<1>13. QED
  BY <1>7, <1>10, <1>11, <1>12 DEF GoneInv

LEMMA GoneTaskStep ==
  ASSUME ~ Careless, ~ ("lock" \in Calls /\ "exit" \in Calls), GoodInv,
         NEW t \in Task, TaskStep(t), k' \in KernelState
  PROVE  GoneInv'
<1>1. /\ Runs(t) /\ todo[t] # <<>> /\ UNCHANGED <<running, alive, swEnabled, irq>>
      /\ k \in KernelState /\ Lists(k) /\ running /\ k.cur = t /\ irq = "none"
      /\ todo \in [Task -> Seq(Step)] /\ GoneInv /\ todo[t] \in TodoShapes
  BY TypeParts
  DEF TaskStep, SchedStep, os_ctx_sw, DelayReturn, RunsOff, Continues, Then, Runs,
      GoodInv, SafetyInv, SafeInv, Safe, GoneInv
<1> DEFINE w == todo[t]
<1>2. /\ Tail(w) \in {<<>>, <<"delayRet">>, <<"gone">>}
      /\ <<"ctxSw">> \o Tail(w) \in TodoShapes /\ <<>> \o Tail(w) = Tail(w)
      /\ Tail(w) = <<"gone">> <=> w \in {<<"sched", "gone">>, <<"ctxSw", "gone">>}
      /\ <<"ctxSw">> \o Tail(w) \in GoneShapes => Tail(w) = <<"gone">>
      /\ <<"ctxSw">> \o Tail(w) # <<"gone">>
      /\ Head(<<"ctxSw">> \o Tail(w)) = "ctxSw"
      /\ Head(w) = "delayRet" => Tail(w) = <<>>
      /\ Head(w) = "gone" => w = <<"gone">>
  BY <1>1, ShapeFacts
<1>s. Tail(w) \in TodoShapes /\ (Tail(w) \in GoneShapes => Tail(w) = <<"gone">>)
  <2>1. <<>> \notin GoneShapes /\ <<"delayRet">> \notin GoneShapes
    BY PairFacts DEF GoneShapes
  <2>2. QED
    BY <1>2, <2>1 DEF TodoShapes, GoneShapes
<1>g. Tail(w) = <<"gone">> => "exit" \in Calls /\ LeavesForGood(t) /\ k.lock = 0
  BY <1>1, <1>2 DEF GoneInv, GoneShapes
<1>3. ASSUME NEW rest, todo' = [todo EXCEPT ![t] = rest], rest \in TodoShapes,
             k'.fault = FALSE, k'.lock = k.lock,
             rest \in GoneShapes => "exit" \in Calls /\ LeavesForGood(t)',
             \A v \in Task \ {t} : /\ k.lock = 0 /\ LeavesForGood(v)
                                   /\ todo'[v] = todo[v] /\ v \notin alive'
                                   => LeavesForGood(v)'
      PROVE  GoneInv'
  <2>1. todo'[t] = rest /\ \A v \in Task \ {t} : todo'[v] = todo[v]
    BY <1>1, <1>3
  <2>2. \A v \in Task : todo'[v] \in TodoShapes
    BY <1>1, <1>3, <2>1 DEF GoneInv
  <2>3. ASSUME NEW v \in Task \ {t}, todo'[v] \in GoneShapes
        PROVE  "exit" \in Calls /\ LeavesForGood(v)'
    <3>1. "exit" \in Calls /\ LeavesForGood(v) /\ k.lock = 0 /\ v \notin alive'
      BY <1>1, <2>1, <2>3 DEF GoneInv, LeavesForGood
    <3>2. QED
      BY <1>3, <2>1, <3>1
  <2>4. QED
    BY <1>1, <1>3, <2>1, <2>2, <2>3 DEF GoneInv
<1>4. CASE SchedStep(t)
  <2> DEFINE rest == (IF k'.nxt # k'.cur THEN <<"ctxSw">> ELSE <<>>) \o Tail(w)
  <2>1. Chosen(k, k') /\ todo' = [todo EXCEPT ![t] = rest] /\ UNCHANGED swPending
    BY <1>4, SchedStepEffect DEF GoodInv, SafetyInv, SchedStep, Then
  <2>2. rest = IF k'.nxt # k'.cur THEN <<"ctxSw">> \o Tail(w) ELSE Tail(w)
    BY <1>2
  <2> HIDE DEF rest
  <2>3. rest \in TodoShapes /\ (rest \in GoneShapes => Tail(w) = <<"gone">>)
    BY <1>2, <1>s, <2>2
  <2>4. k'.fault = FALSE /\ k'.lock = k.lock /\ k'.cur = t
    BY <1>1, <2>1 DEF Chosen, GoneInv
  <2>5. ASSUME rest \in GoneShapes PROVE "exit" \in Calls /\ LeavesForGood(t)'
    <3>1. "exit" \in Calls /\ LeavesForGood(t) /\ k.lock = 0
      BY <1>g, <2>3, <2>5
    <3>2. k.high \in List
      BY <1>1, ListNames DEF KernelState
    <3>3. k'.nxt # t
      BY <2>1, <3>1, <3>2 DEF LeavesForGood, Chosen
    <3>4. todo'[t] # <<"gone">>
      BY <1>1, <1>2, <2>1, <2>2, <2>4, <3>3
    <3>5. /\ ~ TickLinked(k', t) /\ \A l \in List : t \notin ToSet(k'.list[l])
          /\ k'.state[t] # "NONE" /\ t # Idle /\ t \notin alive'
      BY <1>1, <2>1, <3>1 DEF LeavesForGood, Chosen, SameTasks
    <3>6. QED
      BY <3>1, <3>3, <3>4, <3>5 DEF LeavesForGood
  <2>6. \A v \in Task \ {t} : /\ k.lock = 0 /\ LeavesForGood(v)
                              /\ todo'[v] = todo[v] /\ v \notin alive'
                              => LeavesForGood(v)'
    BY <1>1, <2>1, LeavesChosen
  <2>7. QED
    BY <1>3, <2>1, <2>3, <2>4, <2>5, <2>6
<1>5. CASE os_ctx_sw(t)
  <2>1. /\ todo' = [todo EXCEPT ![t] = Tail(w)] /\ swPending' = TRUE /\ k' = k
        /\ Head(w) = "ctxSw" /\ irq' = irq /\ alive' = alive
    BY <1>5 DEF os_ctx_sw, Continues
  <2>2. ASSUME Tail(w) \in GoneShapes PROVE "exit" \in Calls /\ LeavesForGood(t)'
    <3>1. "exit" \in Calls /\ LeavesForGood(t)
      BY <1>s, <1>g, <2>2
    <3>2. k.nxt # t
      BY <2>1, <3>1 DEF LeavesForGood
    <3>3. QED
      BY <2>1, <3>1, <3>2 DEF LeavesForGood
  <2>3. \A v \in Task \ {t} : LeavesForGood(v) /\ todo'[v] = todo[v] => LeavesForGood(v)'
    BY <2>1 DEF LeavesForGood
  <2>4. k'.fault = FALSE /\ k'.lock = k.lock
    BY <1>1, <2>1 DEF GoneInv
  <2>5. QED
    BY <1>3, <1>s, <2>1, <2>2, <2>3, <2>4
<1>6. CASE DelayReturn(t)
  <2> DEFINE bs == [k.bstate EXCEPT ![t] = IF @ = "EARLY_WAKEUP" THEN "NONE" ELSE @]
             k1 == [k EXCEPT !.bstate = bs]
  <2>1. /\ todo' = [todo EXCEPT ![t] = Tail(w)] /\ k' = k1 /\ Head(w) = "delayRet"
        /\ swPending' = swPending /\ irq' = irq /\ alive' = alive
    BY <1>6 DEF DelayReturn, Then, Continues
  <2> HIDE DEF bs
  <2>2. /\ k1.fault = k.fault /\ k1.lock = k.lock /\ k1.list = k.list /\ k1.ticks = k.ticks
        /\ k1.state = k.state /\ k1.cur = k.cur /\ k1.nxt = k.nxt
    BY <1>1 DEF KernelState
  <2> HIDE DEF k1
  <2>3. Tail(w) = <<>> /\ <<>> \notin GoneShapes
    BY <1>2, <2>1 DEF GoneShapes
  <2>4. \A v \in Task \ {t} : LeavesForGood(v) /\ todo'[v] = todo[v] => LeavesForGood(v)'
    BY <2>1, <2>2 DEF LeavesForGood, TickLinked
  <2>5. k'.fault = FALSE /\ k'.lock = k.lock
    BY <1>1, <2>1, <2>2 DEF GoneInv
  <2>6. QED
    BY <1>3, <1>s, <2>1, <2>3, <2>4, <2>5
<1>7. CASE RunsOff(t)
  <2>1. w = <<"gone">> /\ k.cur = t /\ ~ (swEnabled /\ swPending) /\ irq = "none"
    BY <1>1, <1>2, <1>7 DEF RunsOff, Continues, Runs
  <2>2. swEnabled
    BY <1>1 DEF GoodInv, SafetyInv, SafeInv
  <2>3. LeavesForGood(t)
    BY <1>1, <2>1 DEF GoneInv, GoneShapes
  <2>4. QED
    BY <2>1, <2>2, <2>3 DEF LeavesForGood
<1>8. QED
  BY <1>4, <1>5, <1>6, <1>7 DEF TaskStep

\* A handler that leaves the calls alone keeps what is wanted of ended tasks.
LEMMA GoneKept ==
  ASSUME GoneInv, UNCHANGED <<running, todo, alive>>, k'.fault = k.fault, k'.lock = k.lock,
         \A t \in Task : "exit" \in Calls /\ LeavesForGood(t) => LeavesForGood(t)'
  PROVE  GoneInv'
BY DEF GoneInv

LEMMA GoneHandlers ==
  ASSUME ~ Careless, ~ ("lock" \in Calls /\ "exit" \in Calls), GoodInv,
         TickHandler \/ MissTick \/ SwEnter \/ SwLeave, k' \in KernelState
  PROVE  GoneInv'
<1>1. TypeInv /\ LockInv /\ SafeInv /\ ChoiceInv /\ GoneInv /\ k \in KernelState
  BY TypeParts DEF GoodInv, SafetyInv
<1>2. "exit" \in Calls => k.lock = 0
  BY <1>1 DEF GoneInv
<1>3. ASSUME Rescheduled, UNCHANGED <<running, todo, alive>>, irq # "sw" PROVE GoneInv'
  <2>1. k'.fault = k.fault /\ k'.lock = k.lock /\ (swPending => swPending')
    BY <1>3 DEF Rescheduled, Chosen
  <2>2. ASSUME NEW t \in Task, "exit" \in Calls, LeavesForGood(t) PROVE LeavesForGood(t)'
    <3>1. t \notin alive'
      BY <1>3, <2>2 DEF LeavesForGood
    <3>2. QED
      BY <1>1, <1>2, <1>3, <2>1, <2>2, <3>1, LeavesChosen DEF Rescheduled
  <2>3. QED
    BY <1>1, <1>3, <2>1, <2>2, GoneKept
<1>4. ASSUME OnlyCounters(k, k'), UNCHANGED <<running, todo, alive, swPending>>, irq # "sw"
      PROVE  GoneInv'
  <2>1. k'.fault = k.fault /\ k'.lock = k.lock
    BY <1>4, CountersSame
  <2>2. ASSUME NEW t \in Task, "exit" \in Calls, LeavesForGood(t) PROVE LeavesForGood(t)'
    <3>1. t \notin alive'
      BY <1>4, <2>2 DEF LeavesForGood
    <3>2. QED
      BY <1>4, <2>2, <3>1, LeavesCounters
  <2>3. QED
    BY <1>1, <1>4, <2>1, <2>2, GoneKept
<1>5. CASE SysTick
  BY <1>1, <1>3, <1>4, <1>5, SysTickEffect
<1>6. CASE ExpireTask \/ ExpireNext \/ ExpireLast
  <2>1. /\ irq = "tick" /\ UNCHANGED <<running, todo, alive>>
        /\ \/ /\ UNCHANGED <<swPending, irq>>
              /\ \/ OnlyCounters(k, k')
                 \/ \E u \in Task \ {Idle} : OnlyTask(k, k', u) /\ TickLinked(k, u)
           \/ Rescheduled
    BY <1>1, <1>6, ExpiryEffect
  <2>2. ASSUME NEW u \in Task, OnlyTask(k, k', u), TickLinked(k, u),
               UNCHANGED <<swPending, irq>>
        PROVE  GoneInv'
    <3>1. k'.fault = k.fault /\ k'.lock = k.lock
      BY <2>2 DEF OnlyTask, SameSched
    <3>2. ASSUME NEW t \in Task, "exit" \in Calls, LeavesForGood(t) PROVE LeavesForGood(t)'
      <4>1. t \notin alive' /\ u # t /\ todo'[t] = todo[t]
        BY <2>1, <2>2, <3>2 DEF LeavesForGood
      <4>2. QED
        BY <2>2, <3>2, <4>1, LeavesMoves
    <3>3. QED
      BY <1>1, <2>1, <3>1, <3>2, GoneKept
  <2>3. QED
    BY <1>3, <1>4, <2>1, <2>2
<1>7. CASE MissTick
  <2>1. irq = "none"
    BY <1>7 DEF MissTick
  <2>2. QED
    BY <1>1, <1>4, <1>7, <2>1, MissTickEffect
<1>8. CASE SwEnter
  <2>1. irq' = "sw" /\ UNCHANGED <<k, running, todo, alive>>
    BY <1>8 DEF SwEnter
  <2>2. \A t \in Task : LeavesForGood(t) => LeavesForGood(t)'
    BY <2>1 DEF LeavesForGood
  <2>3. QED
    BY <1>1, <2>1, <2>2, GoneKept
<1>9. CASE SwLeave
  <2>1. /\ Works /\ irq = "sw" /\ UNCHANGED <<running, todo, alive, swPending>>
        /\ SameTasks(k, k') /\ k'.fault = k.fault /\ k'.lock = k.lock /\ k'.cur = k'.nxt
        /\ k.cur # NULL /\ k.cur # k.nxt => k'.nxt = k.nxt
        /\ k.lock = 0 /\ (k.cur = NULL \/ k.cur = k.nxt) => k'.nxt \in ToSet(k'.list[k'.high])
        /\ \A u \in Task : k'.state[u] # k.state[u] => k'.state[u] \in {"READY", "RUNNING"}
    BY <1>1, <1>9, SwLeaveEffect
  <2>2. ASSUME NEW t \in Task, "exit" \in Calls, LeavesForGood(t) PROVE LeavesForGood(t)'
    <3>1. k.lock = 0 /\ k.high \in List
      BY <1>1, <1>2, <2>2, ListNames DEF KernelState
    <3>2. k'.nxt # t
      <4>1. CASE k.cur = NULL \/ k.cur = k.nxt
        BY <2>1, <2>2, <3>1, <4>1 DEF LeavesForGood, SameTasks
      <4>2. CASE k.cur # NULL /\ k.cur # k.nxt
        <5>1. k'.nxt \in ToSet(k.list[k.high])
          BY <1>1, <2>1, <3>1, <4>2 DEF ChoiceInv, SwitchInv
        <5>2. QED
          BY <2>2, <3>1, <5>1 DEF LeavesForGood
      <4>3. QED
        BY <4>1, <4>2
    <3>3. k'.cur # t
      BY <2>1, <3>2
    <3>4. /\ ~ TickLinked(k', t) /\ \A l \in List : t \notin ToSet(k'.list[l])
          /\ k'.state[t] # "NONE" /\ t # Idle /\ t \notin alive'
      BY <2>1, <2>2 DEF LeavesForGood, SameTasks
    <3>5. QED
      BY <3>2, <3>3, <3>4 DEF LeavesForGood
  <2>3. QED
    BY <1>1, <2>1, <2>2, GoneKept
<1>10. QED
  BY <1>5, <1>6, <1>7, <1>8, <1>9 DEF TickHandler

LEMMA GoneBoot == ASSUME GoodInv, Boot, SafetyInv' PROVE GoneInv'
<1>1. /\ TypeInv /\ LockInv /\ SafeInv /\ GoneInv /\ ~ running /\ UNCHANGED todo
      /\ k \in KernelState /\ k.lock = 0
  BY TypeParts DEF GoodInv, SafetyInv, Boot, BootCreate, os_sys_start, LockInv, BootInv
<1>2. \A t \in Task : todo'[t] = <<>> /\ todo'[t] \in TodoShapes /\ todo'[t] \notin GoneShapes
  BY SMTT(30), <1>1 DEF GoneInv, TodoShapes, GoneShapes
<1>3. k'.fault = FALSE /\ k'.lock = 0
  <2>1. ASSUME NEW t \in Task, NEW p \in Prio, BootCreate(t, p)
        PROVE  k'.fault = FALSE /\ k'.lock = 0
    <3>1. PICK ka : OnlyTask(k, ka, t) /\ Chosen(ka, k')
      BY <1>1, <2>1, BootCreateEffect
    <3>2. QED
      BY <1>1, <3>1 DEF OnlyTask, SameSched, Chosen, GoneInv
  <2>2. CASE os_sys_start
    <3>1. Idle \in alive /\ k' = os_rq_get_highest_prio_task(k)
      BY <2>2 DEF os_sys_start
    <3>2. k.map # {} /\ Lists(k)
      BY <1>1, <3>1, QueueThere DEF SafeInv, Safe
    <3>3. QED
      BY <1>1, <3>1, <3>2, GetHighestLists DEF OnlyChoice, GoneInv
  <2>3. MaxPrio \in Prio /\ Idle \in Task
    BY KernelAssumption DEF Prio
  <2>4. QED
    BY <2>1, <2>2, <2>3, ClientFacts, ClientAssumption DEF Boot
<1>4. QED
  BY <1>2, <1>3 DEF GoneInv

LEMMA GoneStep ==
  ASSUME ~ Careless, ~ ("lock" \in Calls /\ "exit" \in Calls)
  PROVE  GoodInv /\ [Next]_vars => GoodInv'
<1> SUFFICES ASSUME GoodInv, [Next]_vars PROVE GoodInv'
  OBVIOUS
<1>1. (SafetyInv /\ ChoiceInv)'
  BY SafetyInvStep, ChoiceStep DEF GoodInv
<1>2. k' \in KernelState
  BY <1>1 DEF SafetyInv, TypeInv, TypeOK
<1>3. GoneInv'
  <2>1. CASE UNCHANGED vars
    BY <2>1 DEF vars, GoodInv, GoneInv, LeavesForGood
  <2>2. ASSUME NEW t \in Task, Call(t) \/ TaskStep(t) PROVE GoneInv'
    BY <1>2, <2>2, GoneCall, GoneTaskStep
  <2>3. QED
    BY <1>1, <1>2, <2>1, <2>2, GoneBoot, GoneHandlers DEF Next
<1>4. QED
  BY <1>1, <1>3 DEF GoodInv

LEMMA GoneInit == Init => GoneInv
<1> SUFFICES ASSUME Init PROVE GoneInv
  OBVIOUS
<1>1. k = KernelReset /\ todo = [t \in Task |-> <<>>]
  BY DEF Init
<1>2. k.fault = FALSE /\ k.lock = 0
  BY <1>1 DEF KernelReset
<1>3. \A t \in Task : todo[t] = <<>> /\ todo[t] \in TodoShapes /\ todo[t] \notin GoneShapes
  BY <1>1 DEF TodoShapes, GoneShapes
<1>4. QED
  BY <1>2, <1>3 DEF GoneInv

\* No sequence of calls, ticks and switches links a node twice, takes a list head
\* or NULL for a task or lets a task run past its end, of an application that does
\* not use both tasks that end and the scheduler lock: a task that ends while it
\* holds the lock is chosen again and runs past its end.
THEOREM MemoryIsSound ==
  ASSUME ~ Careless, ~ ("lock" \in Calls /\ "exit" \in Calls)
  PROVE  Spec => []NoFault
<1>1. GoodInv => NoFault
  BY DEF GoodInv, GoneInv, NoFault
<1>2. Init => GoodInv
  BY SafetyInvInit, ChoiceInit, GoneInit DEF GoodInv
<1>3. GoodInv /\ [Next]_vars => GoodInv'
  BY GoneStep
<1>4. QED
  BY <1>1, <1>2, <1>3, PTL DEF Spec

-----------------------------------------------------------------------------
(* Tasks that wait for an object, and the calls they wait in.              *)

\* A task is in the ready queue of its priority.
Ready(k0, t) == t \in ToSet(k0.list[k0.prio[t]])

\* What is left of a call that waits for an object.
Awaits(s) == \E i \in DOMAIN s : s[i] = "waitRet"

\* That is waitRet last, and before it nothing but scheduling.
Shape(s) == \A i \in DOMAIN s : s[i] = "waitRet" =>
              i = Len(s) /\ \A j \in DOMAIN s : j < i => s[j] \in {"sched", "ctxSw"}

LEMMA NotWaiting ==
  ASSUME NEW k0 \in KernelState, Lists(k0), NEW t \in Task, k0.state[t] # "BLOCKING"
  PROVE  ~ TickLinked(k0, t) /\ \A o \in Object : t \notin ToSet(k0.list[o])
BY DEF Lists, WaitersBlocked

LEMMA ReadyNotBlocked ==
  ASSUME NEW k0 \in KernelState, Lists(k0), NEW t \in Task, Ready(k0, t)
  PROVE  k0.state[t] # "BLOCKING" /\ k0.prio[t] \in Prio
<1>1. k0.prio[t] \in Prio
  BY DEF KernelState
<1>2. QED
  BY <1>1 DEF Ready, Lists, QueuesReady

\* Suspending a task concerns the list of suspended tasks alone.
LEMMA SuspendWaits ==
  ASSUME NEW k0 \in KernelState, Lists(k0), NEW t \in Task, NEW o \in Object \ {SysBlock},
         k0.state[t] # "BLOCKING"
  PROVE  t \notin ToSet(os_add_block_task(k0, t, SysBlock).list[o])
<1> DEFINE k1 == os_rq_del_task(k0, t)
           q1 == BlockInsert(k0, k1.list[SysBlock], t)
           f1 == k1.fault \/ SlotLinked(k1, t)
<1>1. k1 \in KernelState /\ \A l \in List : ToSet(k1.list[l]) = ToSet(k0.list[l]) \ {t}
  BY DelTaskLists
<1>2. os_add_block_task(k0, t, SysBlock)
        = [k1 EXCEPT !.list[SysBlock] = q1, !.state[t] = "BLOCKING", !.fault = f1]
  BY DEF os_add_block_task
<1> HIDE DEF k1, f1, q1
<1>3. os_add_block_task(k0, t, SysBlock).list = [k1.list EXCEPT ![SysBlock] = q1]
  BY <1>1, <1>2 DEF KernelState
<1>4. DOMAIN k1.list = List /\ o \in List /\ o # SysBlock
  BY <1>1, ListNames DEF KernelState
<1>5. QED
  BY <1>1, <1>3, <1>4

\* A call moves a task that waits neither for an object nor for a tick, suspended
\* ones apart, and it makes none wait but, for a tick, the one that delays itself.
CallMoves(t, u) ==
  /\ OnlyTask(k, k', u) /\ ~ TickLinked(k, u)
  /\ k.state[u] # "BLOCKING" \/ u \in ToSet(k.list[SysBlock])
  /\ \A o \in Object \ {SysBlock} : u \notin ToSet(k'.list[o])
  /\ \/ k'.bstate[u] = k.bstate[u] /\ ~ TickLinked(k', u)
     \/ u = t /\ "delay" \in Calls /\ k'.bstate[u] = "TICKING"

LEMMA CallWaits ==
  ASSUME ~ Careless, "lock" \notin Calls, "wake" \notin Calls, TypeInv, LockInv, SafeInv,
         k.lock = 0, Settled => Ready(k, k.cur), NEW t \in Task, Call(t)
  PROVE  \E u \in Task : CallMoves(t, u)
<1>1. /\ Runs(t) /\ t \in alive \ {Idle} /\ todo[t] = <<>>
      /\ ~ os_sched_lock(t) /\ ~ WakeTick(t) /\ ~ os_sched_unlock(t)
  BY DEF Call, Create, Exit, os_task_delay_ms, os_task_yield, os_task_suspend,
     os_task_resume, WakeTick, os_sched_lock, os_sched_unlock, Invokes
<1>2. /\ k \in KernelState /\ Lists(k) /\ HighStart(k)
      /\ alive \subseteq Task /\ \A u \in alive : Findable(k, u)
  BY TypeParts DEF SafeInv, Safe
<1>3. k.state[t] # "BLOCKING" /\ ~ TickLinked(k, t)
  <2>1. Settled /\ k.cur = t
    BY <1>1, RunsAlone, ListNames DEF Settled
  <2>2. QED
    BY <1>2, <2>1, ReadyNotBlocked, NotWaiting
<1>r. ASSUME NEW u \in Task, NEW k1 \in KernelState, Lists(k1), k1.state[u] # "BLOCKING"
      PROVE  /\ ~ TickLinked(k1, u)
             /\ \A o \in Object \ {SysBlock} : u \notin ToSet(k1.list[o])
  BY <1>r, NotWaiting
<1>k. k' \in KernelState
  BY CallType DEF TypeInv, TypeOK
<1>4. CASE Create(t)
  <2>1. PICK u \in UserTask \ alive, p \in UserPrio :
          /\ k.state[u] = "NONE" /\ Then(t, os_task_create(k, u, p), <<"sched">>)
    BY <1>4 DEF Create
  <2>2. u \in Task \ {Idle} /\ p \in Prio
    BY ClientFacts
  <2> DEFINE k1 == os_task_create(k, u, p)
  <2>3. OnlyTask(k, k1, u) /\ k1.state[u] = "READY" /\ k1.bstate = k.bstate
    BY <1>2, <2>1, <2>2, CreateLists
  <2> HIDE DEF k1
  <2>4. k' = k1 /\ Lists(k')
    BY <2>1, <2>3 DEF Then, OnlyTask, k1
  <2>5. QED
    BY <1>2, <1>k, <1>r, <2>1, <2>2, <2>3, <2>4 DEF CallMoves
<1>5. CASE Exit(t)
  <2> DEFINE k1 == os_rq_del_task(k, t)
  <2>1. k' = k1
    BY <1>5 DEF Exit, Then
  <2>2. /\ OnlyTask(k, k1, t) /\ k1.state = k.state /\ k1.ticks = k.ticks
        /\ k1.bstate = k.bstate
    BY <1>2, DelTaskLists
  <2> HIDE DEF k1
  <2>3. Lists(k')
    BY <2>1, <2>2 DEF OnlyTask
  <2>4. QED
    BY <1>3, <1>k, <1>r, <2>1, <2>2, <2>3 DEF CallMoves
<1>6. CASE os_task_delay_ms(t)
  <2>1. PICK n \in Delays : k' = os_add_tick_task(k, t, n, NULL) /\ "delay" \in Calls
    BY <1>6 DEF os_task_delay_ms, Then, Invokes
  <2>2. k' = os_tick_add_node(k, t, n)
    BY <1>3, <2>1, ClientAssumption, KernelAssumption DEF os_add_tick_task, Count
  <2>3. n \in Count
    BY ClientAssumption
  <2>4. /\ OnlyTask(k, k', t) /\ k'.bstate[t] = "TICKING"
        /\ \A l \in List : t \notin ToSet(k'.list[l])
    BY <1>2, <1>3, <2>2, <2>3, AddNodeLists
  <2>5. QED
    BY <1>3, <2>1, <2>4, ListNames DEF CallMoves
<1>7. CASE os_task_yield(t)
  <2> DEFINE k1 == [k EXCEPT !.slice[t] = 0]
  <2>1. SameFields(k, k1) /\ k1.fault = k.fault /\ SameSched(k, k1)
    BY <1>2 DEF KernelState, SameSched, SameFields
  <2>2. k' = k1
    BY <1>7 DEF os_task_yield, Then
  <2> HIDE DEF k1
  <2>3. SameTasks(k, k1) /\ k1.state = k.state
    BY <1>2, <2>1, FieldsSame DEF SameFields
  <2>4. OnlyTask(k, k1, t) /\ Lists(k1) /\ k1.bstate = k.bstate
    BY <2>1, <2>3 DEF SameTasks, OnlyTask, Untouched
  <2>5. QED
    BY <1>3, <1>k, <1>r, <2>2, <2>3, <2>4 DEF CallMoves
<1>8. CASE os_task_suspend(t)
  <2>1. PICK u \in Suspendable :
          IF k.state[u] = "BLOCKING" THEN LeakCritical
          ELSE Then(t, os_add_block_task(k, u, SysBlock), <<"sched">>)
    BY <1>8 DEF os_task_suspend
  <2>2. u \in Task /\ k.state[u] # "BLOCKING" /\ SysBlock \in Object
    BY <1>2, ListNames DEF Suspendable
  <2> DEFINE k1 == os_add_block_task(k, u, SysBlock)
  <2>3. ~ TickLinked(k, u)
    BY <1>2, <2>2, NotWaiting
  <2>4. OnlyTask(k, k1, u) /\ k1.bstate = k.bstate /\ k1.ticks = k.ticks
    BY <1>2, <2>2, <2>3, AddBlockLists
  <2>5. \A o \in Object \ {SysBlock} : u \notin ToSet(k1.list[o])
    BY <1>2, <2>2, SuspendWaits
  <2>6. k' = k1
    BY <2>1, <2>2 DEF Then
  <2> HIDE DEF k1
  <2>7. ~ TickLinked(k', u)
    BY <2>3, <2>4, <2>6 DEF TickLinked
  <2>8. QED
    BY <2>2, <2>3, <2>4, <2>5, <2>6, <2>7 DEF CallMoves
<1>9. CASE os_task_resume(t)
  <2>1. PICK u \in Resumable :
          IF k.state[u] # "BLOCKING" THEN LeakCritical
          ELSE Then(t, os_rq_add_task(UnlinkSlot(k, u), u), <<"sched">>)
    BY <1>9 DEF os_task_resume
  <2>2. u \in Task /\ u \in ToSet(k.list[SysBlock])
    BY <1>2 DEF Resumable
  <2>3. k.state[u] = "BLOCKING" /\ ~ TickLinked(k, u)
    BY <1>2, <2>2, ListNames DEF Lists, WaitersBlocked
  <2> DEFINE k1 == os_rq_add_task(UnlinkSlot(k, u), u)
  <2>4. OnlyTask(k, k1, u) /\ k1.state[u] = "READY" /\ k1.bstate = k.bstate
    BY <1>2, <2>2, ResumeLists
  <2>5. k' = k1
    BY <2>1, <2>3 DEF Then
  <2> HIDE DEF k1
  <2>6. Lists(k')
    BY <2>4, <2>5 DEF OnlyTask
  <2>7. QED
    BY <1>k, <1>r, <2>2, <2>3, <2>4, <2>5, <2>6 DEF CallMoves
<1>10. QED
  BY <1>1, <1>4, <1>5, <1>6, <1>7, <1>8, <1>9 DEF Call

-----------------------------------------------------------------------------
(* What is left of a call, when a step of it has been taken.               *)

LEMMA FrontSeq ==
  ASSUME NEW S, NEW s \in Seq(S), NEW e \in S
  PROVE  /\ <<e>> \o s \in Seq(S) /\ Len(<<e>> \o s) = Len(s) + 1 /\ (<<e>> \o s)[1] = e
         /\ \A i \in 2..(Len(s) + 1) : (<<e>> \o s)[i] = s[i - 1]
<1>1. <<e>> \in Seq(S) /\ Len(<<e>>) = 1 /\ <<e>>[1] = e /\ Len(s) \in Nat
  OBVIOUS
<1>2. <<e>> \o s \in Seq(S) /\ Len(<<e>> \o s) = Len(s) + 1
  BY <1>1
<1>3. (<<e>> \o s)[1] = e
  BY <1>1
<1>4. ASSUME NEW i \in 2..(Len(s) + 1) PROVE (<<e>> \o s)[i] = s[i - 1]
  BY <1>1
<1>5. QED
  BY <1>2, <1>3, <1>4

LEMMA TailFacts ==
  ASSUME NEW w \in Seq(Step), w # <<>>
  PROVE  /\ Tail(w) \in Seq(Step) /\ DOMAIN Tail(w) = 1..(Len(w) - 1)
         /\ Len(Tail(w)) = Len(w) - 1 /\ Head(w) = w[1]
         /\ \A i \in 1..(Len(w) - 1) : Tail(w)[i] = w[i + 1]
         /\ <<>> \o Tail(w) = Tail(w)
         /\ DOMAIN (<<"ctxSw">> \o Tail(w)) = 1..Len(w) /\ Len(<<"ctxSw">> \o Tail(w)) = Len(w)
         /\ (<<"ctxSw">> \o Tail(w))[1] = "ctxSw"
         /\ \A i \in 2..Len(w) : (<<"ctxSw">> \o Tail(w))[i] = w[i]
<1> DEFINE r == Tail(w)
           v == <<"ctxSw">> \o r
<1>1. r \in Seq(Step) /\ Len(r) = Len(w) - 1 /\ \A i \in 1..(Len(w) - 1) : r[i] = w[i + 1]
  OBVIOUS
<1>2. Len(w) \in Nat \ {0} /\ Head(w) = w[1] /\ "ctxSw" \in Step
  BY DEF Step
<1> HIDE DEF r
<1>3. <<>> \o r = r
  BY <1>1
<1>4. /\ v \in Seq(Step) /\ Len(v) = Len(r) + 1 /\ v[1] = "ctxSw"
      /\ \A i \in 2..(Len(r) + 1) : v[i] = r[i - 1]
  BY <1>1, <1>2, FrontSeq
<1> HIDE DEF v
<1>5. Len(r) + 1 = Len(w)
  BY <1>1, <1>2
<1>6. ASSUME NEW i \in 2..Len(w) PROVE v[i] = w[i]
  <2>1. i - 1 \in 1..(Len(w) - 1) /\ (i - 1) + 1 = i
    BY <1>2
  <2>2. v[i] = r[i - 1] /\ r[i - 1] = w[(i - 1) + 1]
    BY <1>1, <1>4, <1>5, <2>1
  <2>3. QED
    BY <2>1, <2>2
<1>7. DOMAIN v = 1..Len(w) /\ Len(v) = Len(w) /\ DOMAIN r = 1..(Len(w) - 1)
  BY <1>1, <1>4, <1>5
<1>8. QED
  BY <1>1, <1>2, <1>3, <1>4, <1>6, <1>7 DEF r, v

LEMMA AwaitTail ==
  ASSUME NEW w \in Seq(Step), w # <<>>, Shape(w)
  PROVE  /\ Shape(Tail(w))
         /\ Head(w) # "waitRet" => (Awaits(Tail(w)) <=> Awaits(w))
         /\ Head(w) = "waitRet" => ~ Awaits(Tail(w))
         /\ Head(w) \notin {"waitRet", "sched", "ctxSw"} => ~ Awaits(w)
<1> DEFINE r == Tail(w)
           n == Len(w)
<1>1. /\ DOMAIN r = 1..(n - 1) /\ Len(r) = n - 1 /\ Head(w) = w[1]
      /\ \A i \in 1..(n - 1) : r[i] = w[i + 1]
  BY TailFacts
<1>2. DOMAIN w = 1..n /\ n \in Nat \ {0}
  OBVIOUS
<1> HIDE DEF r, n
<1>3. ASSUME NEW i \in DOMAIN w, w[i] = "waitRet"
      PROVE  i = n /\ \A j \in DOMAIN w : j < i => w[j] \in {"sched", "ctxSw"}
  BY <1>3 DEF Shape, n
<1>4. ASSUME NEW i \in DOMAIN r, r[i] = "waitRet"
      PROVE  i = Len(r) /\ \A j \in DOMAIN r : j < i => r[j] \in {"sched", "ctxSw"}
  <2>1. i + 1 \in DOMAIN w /\ w[i + 1] = "waitRet"
    BY <1>1, <1>2, <1>4
  <2>2. i + 1 = n /\ \A j \in DOMAIN w : j < i + 1 => w[j] \in {"sched", "ctxSw"}
    BY <1>3, <2>1
  <2>3. ASSUME NEW j \in DOMAIN r, j < i PROVE r[j] \in {"sched", "ctxSw"}
    <3>1. j + 1 \in DOMAIN w /\ j + 1 < i + 1 /\ r[j] = w[j + 1]
      BY <1>1, <1>2, <2>1, <2>3
    <3>2. QED
      BY <2>2, <3>1
  <2>4. QED
    BY <1>1, <1>2, <2>2, <2>3
<1>5. Shape(r)
  BY <1>4 DEF Shape
<1>6. Awaits(r) => Awaits(w)
  <2>1. ASSUME NEW i \in DOMAIN r, r[i] = "waitRet" PROVE Awaits(w)
    <3>1. i + 1 \in DOMAIN w /\ w[i + 1] = "waitRet"
      BY <1>1, <1>2, <2>1
    <3>2. QED
      BY <3>1 DEF Awaits
  <2>2. QED
    BY <2>1 DEF Awaits
<1>7. ASSUME Awaits(w), Head(w) # "waitRet" PROVE Awaits(r)
  <2>1. PICK i \in DOMAIN w : w[i] = "waitRet"
    BY <1>7 DEF Awaits
  <2>2. i # 1
    BY <1>1, <1>7, <2>1
  <2>3. i - 1 \in 1..(n - 1) /\ (i - 1) + 1 = i
    BY <1>2, <2>1, <2>2
  <2>4. i - 1 \in DOMAIN r /\ r[i - 1] = "waitRet"
    BY <1>1, <2>1, <2>3
  <2>5. QED
    BY <2>4 DEF Awaits
<1>8. ASSUME Head(w) = "waitRet", Awaits(r) PROVE FALSE
  <2>1. PICK i \in DOMAIN r : r[i] = "waitRet"
    BY <1>8 DEF Awaits
  <2>2. 1 = n
    BY <1>1, <1>2, <1>3, <1>8
  <2>3. QED
    BY <1>1, <2>1, <2>2
<1>9. ASSUME Head(w) \notin {"waitRet", "sched", "ctxSw"}, Awaits(w) PROVE FALSE
  <2>1. PICK i \in DOMAIN w : w[i] = "waitRet"
    BY <1>9 DEF Awaits
  <2>2. 1 \in DOMAIN w /\ (i = 1 \/ 1 < i)
    BY <1>2, <2>1
  <2>3. QED
    BY <1>1, <1>3, <1>9, <2>1, <2>2
<1>10. QED
  BY <1>5, <1>6, <1>7, <1>8, <1>9 DEF r

LEMMA AwaitSched ==
  ASSUME NEW w \in Seq(Step), w # <<>>, Shape(w), Head(w) = "sched",
         NEW r \in {<<"ctxSw">> \o Tail(w), <<>> \o Tail(w)}
  PROVE  Shape(r) /\ (Awaits(r) <=> Awaits(w))
<1>1. CASE r = <<>> \o Tail(w)
  <2>1. r = Tail(w)
    BY <1>1, TailFacts
  <2>2. Head(w) # "waitRet"
    OBVIOUS
  <2>3. QED
    BY <2>1, <2>2, AwaitTail
<1>2. CASE r = <<"ctxSw">> \o Tail(w)
  <2>1. /\ DOMAIN r = 1..Len(w) /\ Len(r) = Len(w) /\ r[1] = "ctxSw" /\ w[1] = "sched"
        /\ \A i \in 2..Len(w) : r[i] = w[i]
    BY <1>2, TailFacts
  <2>2. DOMAIN w = 1..Len(w) /\ Len(w) \in Nat
    OBVIOUS
  <2>3. ASSUME NEW i \in DOMAIN w
        PROVE  r[i] = w[i] \/ (i = 1 /\ r[i] = "ctxSw" /\ w[i] = "sched")
    <3>1. i = 1 \/ i \in 2..Len(w)
      BY <2>2
    <3>2. QED
      BY <2>1, <3>1
  <2>4. Awaits(r) <=> Awaits(w)
    BY <2>1, <2>2, <2>3 DEF Awaits
  <2>5. Shape(r)
    BY <2>1, <2>2, <2>3 DEF Shape
  <2>6. QED
    BY <2>4, <2>5
<1>3. QED
  BY <1>1, <1>2

LEMMA AwaitNone ==
  \A r \in {<<>>, <<"sched">>, <<"sched", "delayRet">>, <<"sched", "gone">>} :
    Shape(r) /\ ~ Awaits(r)
BY DEF Shape, Awaits

LEMMA AwaitTake == Shape(<<"sched", "waitRet">>) /\ Awaits(<<"sched", "waitRet">>)
<1> DEFINE w == <<"sched", "waitRet">>
<1>1. DOMAIN w = 1..2 /\ Len(w) = 2 /\ w[1] = "sched" /\ w[2] = "waitRet"
  OBVIOUS
<1> HIDE DEF w
<1>2. Shape(w) /\ Awaits(w)
  BY <1>1 DEF Shape, Awaits
<1>3. QED
  BY <1>2 DEF w

\* A task that is ready stays so when another, a blocked one, is moved.
LEMMA ReadyOther ==
  ASSUME NEW k0 \in KernelState, NEW k1, NEW u, NEW t \in Task, OnlyTask(k0, k1, u),
         Ready(k0, t), t # u
  PROVE  Ready(k1, t)
BY ListNames DEF OnlyTask, Untouched, Ready, KernelState

\* What the two list-add functions leave in the lists of objects.
LEMMA BlockWaits ==
  ASSUME NEW k0 \in KernelState, Lists(k0), NEW t \in Task, NEW obj \in Object,
         NEW o \in Object \ {obj}, t \notin ToSet(k0.list[o])
  PROVE  t \notin ToSet(os_add_block_task(k0, t, obj).list[o])
<1> DEFINE k1 == os_rq_del_task(k0, t)
           q1 == BlockInsert(k0, k1.list[obj], t)
           f1 == k1.fault \/ SlotLinked(k1, t)
<1>1. k1 \in KernelState /\ \A l \in List : ToSet(k1.list[l]) = ToSet(k0.list[l]) \ {t}
  BY DelTaskLists
<1>2. os_add_block_task(k0, t, obj)
        = [k1 EXCEPT !.list[obj] = q1, !.state[t] = "BLOCKING", !.fault = f1]
  BY DEF os_add_block_task
<1> HIDE DEF k1, f1, q1
<1>3. os_add_block_task(k0, t, obj).list = [k1.list EXCEPT ![obj] = q1]
  BY <1>1, <1>2 DEF KernelState
<1>4. DOMAIN k1.list = List /\ o \in List /\ o # obj
  BY <1>1, ListNames DEF KernelState
<1>5. QED
  BY <1>1, <1>3, <1>4

\* os_add_tick_task for a task that waits for an object: it is put where a wakeup and,
\* if it set a limit, the clock will find it, and nowhere else.
LEMMA TakeWaits ==
  ASSUME NEW k0 \in KernelState, Lists(k0), NEW t \in Task, NEW n \in Count \cup {Never},
         NEW obj \in Object \ {SysBlock}, k0.state[t] # "BLOCKING"
  PROVE  LET k1 == os_add_tick_task(k0, t, n, obj)
         IN /\ k1 \in KernelState /\ OnlyTask(k0, k1, t) /\ k1.state[t] = "BLOCKING"
            /\ k1.prio = k0.prio /\ t \in ToSet(k1.list[obj])
            /\ \A o \in Object \ {obj} : t \notin ToSet(k1.list[o])
            /\ n # Never => k1.bstate[t] = "TICKING" /\ TickLinked(k1, t)
            /\ n = Never => k1.bstate[t] = k0.bstate[t] /\ ~ TickLinked(k1, t)
<1> DEFINE ka == os_tick_add_node(k0, t, n)
<1>1. ~ TickLinked(k0, t) /\ \A o \in Object : t \notin ToSet(k0.list[o])
  BY NotWaiting
<1>2. ASSUME NEW kb \in KernelState, OnlyTask(k0, kb, t), kb.prio = k0.prio,
             \A o \in Object : t \notin ToSet(kb.list[o])
      PROVE  LET k1 == os_add_block_task(kb, t, obj)
             IN /\ k1 \in KernelState /\ OnlyTask(k0, k1, t) /\ k1.state[t] = "BLOCKING"
                /\ t \in ToSet(k1.list[obj]) /\ k1.bstate = kb.bstate /\ k1.prio = k0.prio
                /\ \A o \in Object \ {obj} : t \notin ToSet(k1.list[o])
                /\ TickLinked(k1, t) <=> TickLinked(kb, t)
  <2> DEFINE k1 == os_add_block_task(kb, t, obj)
  <2>1. Lists(kb) /\ obj \in Object /\ obj # SysBlock
    BY <1>2 DEF OnlyTask
  <2>2. /\ k1 \in KernelState /\ OnlyTask(kb, k1, t)
        /\ k1.bstate = kb.bstate /\ k1.ticks = kb.ticks /\ k1.prio = kb.prio
        /\ k1.state[t] = "BLOCKING" /\ t \in ToSet(k1.list[obj])
    BY <2>1, AddBlockLists
  <2>3. \A o \in Object \ {obj} : t \notin ToSet(k1.list[o])
    BY <1>2, <2>1, BlockWaits
  <2> HIDE DEF k1
  <2>4. OnlyTask(k0, k1, t)
    BY <1>2, <2>2, OnlyTaskTwice
  <2>5. QED
    BY <1>2, <2>2, <2>3, <2>4 DEF TickLinked, k1
<1>3. CASE n = Never
  <2>1. os_add_tick_task(k0, t, n, obj) = os_add_block_task(k0, t, obj)
    BY <1>3, KernelAssumption, ListNames DEF os_add_tick_task, List
  <2>2. OnlyTask(k0, k0, t)
    BY DEF OnlyTask, SameSched, Untouched
  <2>3. QED
    BY <1>1, <1>2, <1>3, <2>1, <2>2
<1>4. CASE n # Never
  <2>1. os_add_tick_task(k0, t, n, obj) = os_add_block_task(ka, t, obj) /\ n \in Count
    BY <1>4, KernelAssumption, ListNames DEF os_add_tick_task, List
  <2>2. /\ ka \in KernelState /\ OnlyTask(k0, ka, t) /\ ka.prio = k0.prio
        /\ ka.bstate[t] = "TICKING" /\ TickLinked(ka, t)
        /\ \A l \in List : t \notin ToSet(ka.list[l])
    BY <1>1, <2>1, AddNodeLists
  <2> HIDE DEF ka
  <2>3. QED
    BY <1>2, <1>4, <2>1, <2>2, ListNames
<1>5. QED
  BY <1>3, <1>4

\* The order of the two steps of a wakeup does not matter.
LEMMA WakeCommutes ==
  ASSUME NEW k0 \in KernelState, NEW t \in Task, k0.state[t] # "READY"
  PROVE  UnlinkTick(os_rq_add_task(k0, t), t) = os_rq_add_task(UnlinkTick(k0, t), t)
<1> DEFINE p == k0.prio[t]
           q == k0.list[p]
           q1 == IF k0.cur = NULL \/ p < k0.prio[k0.cur] THEN <<t>> \o q ELSE Append(q, t)
           m1 == IF q = <<>> THEN k0.map \cup {p} ELSE k0.map
           h1 == IF q = <<>> /\ p < k0.high THEN p ELSE k0.high
           f1 == k0.fault \/ SlotLinked(k0, t)
           w1 == WithoutIn(k0.ticks, t)
           kt == [k0 EXCEPT !.ticks = w1]
           added(x) == [x EXCEPT !.map = m1, !.high = h1, !.list[p] = q1,
                                 !.state[t] = "READY", !.fault = f1]
<1>1. os_rq_add_task(k0, t) = added(k0)
  BY DEF os_rq_add_task
<1>2. UnlinkTick(k0, t) = kt
  BY DEF UnlinkTick
<1>3. /\ kt.prio = k0.prio /\ kt.list = k0.list /\ kt.cur = k0.cur /\ kt.map = k0.map
      /\ kt.high = k0.high /\ kt.state = k0.state /\ kt.fault = k0.fault
  BY DEF KernelState
<1>4. os_rq_add_task(kt, t) = added(kt)
  <2> HIDE DEF kt
  <2>1. QED
    BY <1>3 DEF os_rq_add_task, SlotLinked
<1>5. UnlinkTick(added(k0), t) = [added(k0) EXCEPT !.ticks = w1]
  BY DEF UnlinkTick, KernelState
<1> HIDE DEF p, q, q1, m1, h1, f1, w1
<1>6. [added(k0) EXCEPT !.ticks = w1] = added(kt)
  BY DEF KernelState
<1>7. QED
  BY <1>1, <1>2, <1>4, <1>5, <1>6

\* os_block_wakeup_first_task: the first task of the list is made ready, and the clock
\* does not wake it a second time.
LEMMA WakeFirst ==
  ASSUME NEW k0 \in KernelState, Lists(k0), HighStart(k0), NEW obj \in Object,
         k0.list[obj] # <<>>
  PROVE  LET t == Head(k0.list[obj])
             k1 == os_block_wakeup_first_task(k0, obj)
         IN /\ t \in Task /\ t \in ToSet(k0.list[obj])
            /\ k1 \in KernelState /\ OnlyTask(k0, k1, t) /\ k1.map # {}
            /\ k1.state[t] = "READY" /\ Ready(k1, t)
            /\ k1.bstate = k0.bstate /\ ~ TickLinked(k1, t) /\ k1.prio = k0.prio
<1> DEFINE t == Head(k0.list[obj])
           ka == UnlinkSlot(k0, t)
           kb == UnlinkTick(ka, t)
           k1 == os_rq_add_task(kb, t)
<1>1. t \in Task /\ t \in ToSet(k0.list[obj])
  <2>1. k0.list[obj] \in Seq(Task)
    BY ListNames DEF KernelState
  <2>2. t = k0.list[obj][1] /\ 1 \in DOMAIN k0.list[obj]
    BY <2>1
  <2>3. QED
    BY <2>1, <2>2 DEF ToSet
<1>2. k0.state[t] = "BLOCKING"
  BY <1>1 DEF Lists, WaitersBlocked
<1>3. os_block_wakeup_first_task(k0, obj) = UnlinkTick(os_rq_add_task(ka, t), t)
  BY <1>2 DEF os_block_wakeup_first_task, os_block_wakeup_task
<1> HIDE DEF t
<1>4. /\ ka \in KernelState /\ OnlyTask(k0, ka, t)
      /\ ka.prio = k0.prio /\ ka.state = k0.state /\ ka.bstate = k0.bstate
      /\ ka.ticks = k0.ticks /\ ka.map = k0.map /\ ka.high = k0.high
      /\ \A l \in List : ToSet(ka.list[l]) = ToSet(k0.list[l]) \ {t}
  BY <1>1, <1>2, UnlinkWaiterLists
<1> HIDE DEF ka
<1>5. os_block_wakeup_first_task(k0, obj) = k1
  BY <1>1, <1>2, <1>3, <1>4, WakeCommutes
<1>6. /\ kb \in KernelState /\ OnlyTask(ka, kb, t) /\ ~ TickLinked(kb, t)
      /\ kb.prio = ka.prio /\ kb.state = ka.state /\ kb.list = ka.list
      /\ kb.bstate = ka.bstate /\ kb.map = ka.map /\ kb.high = ka.high
  BY <1>1, <1>4, UnlinkTickLists DEF OnlyTask
<1> HIDE DEF kb
<1>7. Lists(kb) /\ HighStart(kb) /\ ~ SlotLinked(kb, t) /\ kb.state[t] # "READY"
  BY <1>2, <1>4, <1>6 DEF OnlyTask, HighStart, SlotLinked
<1>8. /\ k1 \in KernelState /\ OnlyTask(kb, k1, t) /\ k1.map # {}
      /\ k1.prio = kb.prio /\ k1.bstate = kb.bstate /\ k1.ticks = kb.ticks
      /\ k1.state[t] = "READY" /\ t \in ToSet(k1.list[k1.prio[t]])
  BY <1>1, <1>6, <1>7, AddTaskLists
<1> HIDE DEF k1
<1>9. OnlyTask(k0, k1, t)
  BY <1>4, <1>6, <1>8, OnlyTaskTwice
<1>10. ~ TickLinked(k1, t)
  BY <1>6, <1>8 DEF TickLinked
<1>11. QED
  BY <1>1, <1>4, <1>5, <1>6, <1>8, <1>9, <1>10 DEF Ready, t

-----------------------------------------------------------------------------
(* Steps that are not the kernel's keep what it relies on.                 *)

LEMMA LockStays ==
  ASSUME LockInv, k.lock = 0, SameSched(k, k'), k'.fault = k.fault, TodoInv',
         UNCHANGED <<running, swEnabled, irq>>, swPending => swPending',
         k.nxt = k.cur \/ todo' = todo
  PROVE  LockInv'
<1>1. /\ k'.lock = 0 /\ k'.cur = k.cur /\ k'.nxt = k.nxt
  BY DEF SameSched
<1>2. BootInv'
  BY <1>1 DEF LockInv, BootInv
<1>3. HolderInv'
  BY <1>1 DEF LockInv, HolderInv, Works, SwitchComing, CtxDue
<1>4. IdleInv' /\ OwnInv'
  BY <1>1 DEF IdleInv, OwnInv
<1>5. QED
  BY <1>2, <1>3, <1>4 DEF LockInv

LEMMA SafeMoved ==
  ASSUME SafeInv, running, k \in KernelState, k' \in KernelState, k.lock = 0,
         alive \subseteq Task, NEW u \in Task \ {Idle}, OnlyTask(k, k', u),
         UNCHANGED <<running, alive, swEnabled>>, u \in alive => Findable(k', u)
  PROVE  SafeInv'
<1>1. Safe(k, alive) /\ Idle \in alive
  BY DEF SafeInv
<1>2. HighStart(k')
  <2>1. k'.prio[Idle] = k.prio[Idle] /\ k.prio[Idle] \in Prio
    BY ListNames DEF OnlyTask, Untouched, KernelState
  <2>2. Idle \in ToSet(k.list[k.prio[Idle]]) /\ Idle \in Task \ {u}
    BY <1>1, ListNames DEF Safe, Findable
  <2>3. Idle \in ToSet(k'.list[k.prio[Idle]])
    BY <2>1, <2>2, ListNames DEF OnlyTask, Untouched
  <2>4. k'.list[k.prio[Idle]] # <<>>
    BY <2>1, <2>3, ListNames, TasksOfList, EmptySet
  <2>5. k'.map # {}
    BY <2>1, <2>4 DEF OnlyTask, Lists, MapExact
  <2>6. QED
    BY <2>5 DEF HighStart
<1>3. HolderWaits(k')
  BY DEF HolderWaits, OnlyTask, SameSched
<1>4. Safe(k', alive)
  BY <1>1, <1>2, <1>3, SafeOneTask
<1>5. QED
  BY <1>1, <1>4 DEF SafeInv

\* A call with nothing left to do but what stands behind the front.
LEMMA TodoNext ==
  ASSUME TypeInv, LockInv, NEW t \in Task \ {Idle}, NEW w \in Seq(Step),
         todo' = [todo EXCEPT ![t] = w],
         \A i \in 2..Len(w) : w[i] \in {"delayRet", "waitRet", "gone"}
  PROVE  TodoInv'
<1>1. todo \in [Task -> Seq(Step)] /\ TodoInv
  BY TypeParts DEF LockInv
<1>2. QED
  BY <1>1, ListNames DEF TodoInv

-----------------------------------------------------------------------------
(* The current task and the next one stay ready.                           *)

\* The current task and the one a switch is on its way to are ready.  The latter
\* need not be of the highest priority: a posted call may come after the choice.
ReadyInv ==
  /\ k.lock = 0
  /\ Settled => Ready(k, k.cur)
  /\ Works /\ k.cur # k.nxt /\ k.cur # NULL => k.nxt \in Task /\ Ready(k, k.nxt)
LEMMA ReadySame ==
  ASSUME ReadyInv, SameTasks(k, k'), k'.fault = k.fault, k'.cur = k.cur, k'.nxt = k.nxt,
         k'.lock = k.lock, UNCHANGED <<running, swEnabled>>, Settled' => Settled
  PROVE  ReadyInv'
BY DEF ReadyInv, Ready, Works, SameTasks

LEMMA ReadyChosen ==
  ASSUME ReadyInv, Chosen(k, k'), k' \in KernelState, Settled' => k'.nxt = k'.cur
  PROVE  ReadyInv'
<1>1. k'.nxt \in Task /\ k'.nxt \in ToSet(k'.list[k'.high]) /\ Lists(k') /\ k'.high \in Prio
      /\ k'.lock = 0
  BY DEF ReadyInv, Chosen, SameTasks, KernelState
<1>2. k'.prio[k'.nxt] = k'.high
  BY <1>1 DEF Lists, QueuesReady
<1>3. Ready(k', k'.nxt)
  BY <1>1, <1>2 DEF Ready
<1>4. QED
  BY <1>1, <1>3 DEF ReadyInv

LEMMA ReadyCall ==
  ASSUME ~ Careless, "lock" \notin Calls, "wake" \notin Calls,
         TypeInv, LockInv, SafeInv, ReadyInv, NEW t \in Task, Call(t)
  PROVE  ReadyInv'
<1>1. PICK u \in Task : CallMoves(t, u)
  BY CallWaits DEF ReadyInv
<1>2. /\ Runs(t) /\ todo[t] = <<>> /\ t # NULL
      /\ \E rest : /\ todo' = [todo EXCEPT ![t] = rest]
                   /\ MovesLock(rest) \/ \E v \in Task : MovesTask(t, v, rest)
  BY CallEffect, ListNames
<1>3. PICK rest : /\ todo' = [todo EXCEPT ![t] = rest]
                  /\ MovesLock(rest) \/ \E v \in Task : MovesTask(t, v, rest)
  BY <1>2
<1>4. k.cur = t /\ k.nxt = t
  BY <1>2, RunsAlone
<1>5. k'.cur = t /\ k'.nxt = t /\ k'.lock = 0
  BY <1>1, <1>4 DEF CallMoves, OnlyTask, SameSched, ReadyInv
<1>6. rest # <<>> /\ Head(rest) = "sched"
  <2>1. rest \in {<<"sched">>, <<"sched", "delayRet">>, <<"sched", "gone">>}
    BY <1>3 DEF MovesLock, MovesTask
  <2>2. QED
    BY <2>1
<1>7. todo'[t] = rest
  BY <1>3, TypeParts
<1>8. ~ Settled'
  BY <1>5, <1>6, <1>7 DEF Settled
<1>9. QED
  BY <1>5, <1>8 DEF ReadyInv

LEMMA ReadyTaskStep ==
  ASSUME TypeInv, LockInv, SafeInv, ReadyInv, NEW t \in Task, TaskStep(t), k' \in KernelState
  PROVE  ReadyInv'
<1>0. ReadyInv /\ TypeInv /\ LockInv /\ SafeInv
  OBVIOUS
<1>1. /\ Runs(t) /\ todo[t] # <<>> /\ UNCHANGED <<running, alive, swEnabled, irq>>
      /\ k \in KernelState /\ Lists(k) /\ k.cur = t /\ irq = "none" /\ t # NULL
      /\ todo \in [Task -> Seq(Step)]
  BY <1>0, TypeParts, ListNames
  DEF TaskStep, SchedStep, os_ctx_sw, DelayReturn, RunsOff, Continues, Then, Runs,
      SafeInv, Safe
<1>2. CASE SchedStep(t)
  <2> DEFINE rest == (IF k'.nxt # k'.cur THEN <<"ctxSw">> ELSE <<>>) \o Tail(todo[t])
  <2>1. Chosen(k, k') /\ todo' = [todo EXCEPT ![t] = rest]
    BY <1>0, <1>2, SchedStepEffect
  <2>2. Tail(todo[t]) \in Seq(Step)
    BY <1>1
  <2>3. k'.nxt # k'.cur => rest # <<>> /\ Head(rest) = "ctxSw"
    BY <2>2
  <2> HIDE DEF rest
  <2>4. todo'[t] = rest /\ k'.cur = t
    BY <1>1, <2>1 DEF Chosen
  <2>5. Settled' => k'.nxt = k'.cur
    BY <2>3, <2>4 DEF Settled
  <2>6. QED
    BY <1>0, <2>1, <2>5, ReadyChosen
<1>3. CASE os_ctx_sw(t)
  <2>1. k' = k /\ swPending'
    BY <1>3 DEF os_ctx_sw
  <2>2. QED
    BY <1>0, <1>1, <2>1 DEF ReadyInv, Settled, Works
<1>4. CASE DelayReturn(t)
  <2> DEFINE b == IF k.bstate[t] = "EARLY_WAKEUP" THEN "NONE" ELSE k.bstate[t]
             k1 == [k EXCEPT !.bstate[t] = b]
  <2>1. k' = k1 /\ Continues(t, "delayRet") /\ UNCHANGED swPending
    BY <1>4 DEF DelayReturn, Then
  <2>2. /\ k1.prio = k.prio /\ k1.list = k.list /\ k1.cur = k.cur
        /\ k1.nxt = k.nxt /\ k1.lock = k.lock /\ k1.fault = k.fault
    BY <1>1 DEF KernelState
  <2> HIDE DEF k1
  <2>3. Settled' => Settled
    BY <1>1, <2>1, <2>2 DEF Settled, Works, Continues
  <2>4. QED
    BY <1>0, <1>1, <2>1, <2>2, <2>3 DEF ReadyInv, Ready, Works
<1>5. CASE RunsOff(t)
  <2>1. k'.fault /\ k'.lock = k.lock
    BY <1>1, <1>5 DEF RunsOff, Then, KernelState
  <2>2. QED
    BY <1>0, <2>1 DEF ReadyInv, Settled, Works
<1>6. QED
  BY <1>2, <1>3, <1>4, <1>5 DEF TaskStep

LEMMA ReadyHandlers ==
  ASSUME TypeInv, LockInv, SafeInv, ReadyInv, TickHandler \/ MissTick \/ SwEnter \/ SwLeave, k' \in KernelState
  PROVE  ReadyInv'
<1>1. TypeInv /\ LockInv /\ SafeInv /\ ReadyInv /\ Lists(k) /\ k \in KernelState
  BY TypeParts DEF SafeInv, Safe
<1>2. Rescheduled => ReadyInv'
  BY <1>1, ReadyChosen DEF Rescheduled, Settled
<1>3. ASSUME OnlyCounters(k, k'), UNCHANGED <<running, todo, swEnabled, swPending>>,
             irq = "none" \/ irq' = "tick"
      PROVE  ReadyInv'
  <2>1. /\ SameTasks(k, k') /\ k'.fault = k.fault /\ k'.cur = k.cur
        /\ k'.nxt = k.nxt /\ k'.lock = k.lock
    BY <1>3, CountersSame
  <2>2. Settled' => Settled
    BY <1>3, <2>1 DEF Settled, Works
  <2>3. QED
    BY <1>1, <1>3, <2>1, <2>2, ReadySame
<1>4. CASE SysTick
  BY <1>1, <1>2, <1>3, <1>4, SysTickEffect
<1>5. CASE ExpireTask \/ ExpireNext \/ ExpireLast
  <2>1. /\ irq = "tick" /\ UNCHANGED <<running, todo, alive, swEnabled>> /\ Works
        /\ \/ /\ UNCHANGED <<swPending, irq>>
              /\ \/ OnlyCounters(k, k')
                 \/ \E u \in Task : OnlyTask(k, k', u) /\ TickLinked(k, u)
           \/ Rescheduled
    BY <1>1, <1>5, ExpiryEffect
  <2>2. ASSUME NEW u \in Task, OnlyTask(k, k', u), TickLinked(k, u), UNCHANGED irq
        PROVE  ReadyInv'
    <3>1. k.state[u] = "BLOCKING"
      BY <1>1, <2>2, NotWaiting
    <3>2. k'.cur = k.cur /\ k'.nxt = k.nxt /\ k'.lock = 0 /\ k'.fault = k.fault /\ ~ Settled'
      BY <1>1, <2>1, <2>2 DEF OnlyTask, SameSched, ReadyInv, Settled
    <3>3. ASSUME k.nxt \in Task, Ready(k, k.nxt) PROVE Ready(k', k'.nxt)
      <4>1. k.nxt # u
        BY <1>1, <3>1, <3>3, ReadyNotBlocked
      <4>2. QED
        BY <1>1, <2>2, <3>2, <3>3, <4>1, ReadyOther
    <3>4. QED
      BY <1>1, <2>1, <3>2, <3>3 DEF ReadyInv, Works
  <2>3. QED
    BY <1>2, <1>3, <2>1, <2>2
<1>6. CASE MissTick
  <2>1. OnlyCounters(k, k') /\ UNCHANGED <<running, todo, alive, swEnabled, swPending, irq>>
    BY <1>1, <1>6, MissTickEffect
  <2>2. irq = "none"
    BY <1>6 DEF MissTick
  <2>3. QED
    BY <1>3, <2>1, <2>2
<1>7. CASE SwEnter
  <2>1. irq = "none" /\ irq' = "sw" /\ UNCHANGED <<k, running, todo, swEnabled>>
    BY <1>7 DEF SwEnter, SwitchDue
  <2>2. QED
    BY <1>1, <2>1 DEF ReadyInv, Settled, Works
<1>8. CASE SwLeave
  <2>1. /\ Works /\ irq = "sw" /\ SameTasks(k, k') /\ k'.lock = k.lock /\ k'.cur = k'.nxt
        /\ k.cur # NULL /\ k.cur # k.nxt => k'.nxt = k.nxt
        /\ k.lock = 0 /\ (k.cur = NULL \/ k.cur = k.nxt) => k'.nxt \in ToSet(k'.list[k'.high])
    BY <1>1, <1>8, SwLeaveEffect
  <2>2. k.lock = 0 /\ k'.high \in Prio
    BY <1>1 DEF ReadyInv, KernelState
  <2>3. CASE k.cur # NULL /\ k.cur # k.nxt
    BY <1>1, <2>1, <2>2, <2>3 DEF ReadyInv, Ready, SameTasks
  <2>4. CASE k.cur = NULL \/ k.cur = k.nxt
    <3>1. k'.prio[k'.nxt] = k'.high
      BY <2>1, <2>2, <2>4 DEF SameTasks, Lists, QueuesReady
    <3>2. QED
      BY <2>1, <2>2, <2>4, <3>1 DEF ReadyInv, Ready
  <2>5. QED
    BY <2>3, <2>4
<1>9. QED
  BY <1>4, <1>5, <1>6, <1>7, <1>8 DEF TickHandler

LEMMA ReadyBoot == ASSUME TypeInv, LockInv, SafeInv, ReadyInv, Boot PROVE ReadyInv'
<1>1. TypeInv /\ LockInv /\ SafeInv /\ k \in KernelState /\ k.lock = 0
  BY TypeParts DEF ReadyInv
<1>2. ASSUME NEW t \in Task, NEW p \in Prio, BootCreate(t, p) PROVE ReadyInv'
  <2>1. PICK ka : ka.lock = 0 /\ Chosen(ka, k')
    BY <1>1, <1>2, BootCreateEffect
  <2>2. ~ running'
    BY <1>2 DEF BootCreate
  <2>3. QED
    BY <2>1, <2>2 DEF ReadyInv, Settled, Works, Chosen
<1>3. CASE os_sys_start
  <2>1. k.cur = NULL /\ k' = os_rq_get_highest_prio_task(k) /\ ~ running /\ Idle \in alive
    BY <1>1, <1>3 DEF os_sys_start, LockInv, BootInv
  <2>2. k.map # {} /\ Lists(k)
    BY <1>1, <2>1, QueueThere DEF SafeInv, Safe
  <2>3. k'.cur = NULL /\ k'.lock = 0
    BY <1>1, <2>1, <2>2, GetHighestLists DEF OnlyChoice
  <2>4. QED
    BY <2>3 DEF ReadyInv, Settled
<1>4. QED
  BY <1>2, <1>3, ClientFacts, ListNames DEF Boot

LEMMA ReadyKernel ==
  ASSUME ~ Careless, "lock" \notin Calls, "wake" \notin Calls,
         TypeInv, LockInv, SafeInv, ReadyInv, Next
  PROVE  ReadyInv'
<1>1. k' \in KernelState
  BY TypeInvStep DEF TypeInv, TypeOK
<1>2. QED
  BY <1>1, ReadyBoot, ReadyHandlers, ReadyTaskStep, ReadyCall DEF Next
=============================================================================
