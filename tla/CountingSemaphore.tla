--------------------------- MODULE CountingSemaphore ---------------------------
(***************************************************************************)
(* What a semaphore promises: a token that is released goes to a waiting   *)
(* task or is kept, a waiting task gets a token or, if it set a limit to   *)
(* its wait, gives up without one.                                         *)
(***************************************************************************)
EXTENDS Naturals

CONSTANT Task
VARIABLES avail,   \* tokens that nobody has
          status   \* where each task is in its call of take
vars == <<avail, status>>

Status == {"out", "waitsForever", "waitsAWhile", "granted", "gaveUp"}
Waits == {"waitsForever", "waitsAWhile"}

TypeOK == avail \in Nat /\ status \in [Task -> Status]

Init == avail \in Nat /\ status = [t \in Task |-> "out"]

Take(t) ==
  /\ status[t] = "out"
  /\ \/ avail > 0 /\ avail' = avail - 1 /\ UNCHANGED status
     \/ /\ avail = 0 /\ UNCHANGED avail
        /\ \E w \in Waits : status' = [status EXCEPT ![t] = w]

Release ==
  \/ /\ \A t \in Task : status[t] \notin Waits
     /\ avail' = avail + 1 /\ UNCHANGED status
  \/ \E t \in Task : /\ status[t] \in Waits
                     /\ status' = [status EXCEPT ![t] = "granted"]
                     /\ UNCHANGED avail

GiveUp(t) == /\ status[t] = "waitsAWhile"
             /\ status' = [status EXCEPT ![t] = "gaveUp"]
             /\ UNCHANGED avail

Return(t) == /\ status[t] \in {"granted", "gaveUp"}
             /\ status' = [status EXCEPT ![t] = "out"]
             /\ UNCHANGED avail

Next == Release \/ \E t \in Task : Take(t) \/ GiveUp(t) \/ Return(t)

Spec == Init /\ [][Next]_vars
=============================================================================
