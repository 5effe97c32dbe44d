------------------------------- MODULE SoftTimer -------------------------------
(***************************************************************************)
(* os_soft_timer.c: timers that the application polls.  The time is put    *)
(* together from the number of SysTick interrupts and the counter of the   *)
(* current tick, which are read one after the other while time passes, in  *)
(* a float, whose error grows with the time since os_soft_timer_init.  One *)
(* task calls all the functions, none of them from a callback.  A time,    *)
(* milliseconds and microseconds in the code, counts modulo Wrap when it   *)
(* is stored, and a signed difference is taken of two.                     *)
(***************************************************************************)
EXTENDS Integers, FiniteSetsExt

CONSTANTS Num,      \* SOFT_TIMER_NUM
          Tick,     \* the time between two SysTick interrupts
          Wrap,     \* 2^32 microseconds in the code
          Life,     \* the time after which the number of interrupts wraps, 2^32 ticks
          Precision,  \* the float is off by this part of the time at most: four
                      \* roundings of a 24-bit mantissa, 2^22 in the code
          Periods,  \* the arguments _period
          Slack     \* bound: the application polls before a timer is overdue by that

VARIABLES now,      \* the true time since os_soft_timer_init, up to Life
          state, mode, due, period,  \* the fields of the timers
          call,     \* what the task is doing
          waited,   \* history: the true time since the arming of each timer began
          fired     \* history: how often each has fired since it was started
timers == <<state, mode, due, period>>
vars == <<now, timers, call, waited, fired>>

Time == 0..(Wrap - 1)
Timer == 1..Num

\* The error of the float at time t.
Error(t) == t \div Precision

ASSUME TimerAssumption ==
  /\ Num \in Nat /\ Tick \in Nat \ {0}
  /\ Wrap \in Nat /\ Tick < Wrap
  /\ Life \in Nat \ {0} /\ Life % Tick = 0 /\ Life % Wrap = 0
  /\ Precision \in Nat \ {0} /\ Slack \in Nat \ {0}
  /\ \A p \in Periods :
       p \in Nat /\ 2 * (p + Slack + 2 * Tick + 2 * Error(Life + Tick) + 1) < Wrap

NotRead == Wrap
Calls == [at : {"none", "start", "update"}, id : 1..(Num + 1), counter : 0..Wrap]

TypeOK ==
  /\ now \in 0..(Life - 1)
  /\ state \in [Timer -> {"STOPPED", "RUNNING", "TIMEOUT"}]
  /\ mode \in [Timer -> {"ONE_SHOT", "CYCLE"}]
  /\ due \in [Timer -> Time] /\ period \in [Timer -> Time]
  /\ call \in Calls
  /\ waited \in [Timer -> Time] /\ fired \in [Timer -> 0..2]

None == [at |-> "none", id |-> 1, counter |-> NotRead]

\* os_soft_timer_init
Init ==
  /\ now = 0
  /\ state = [i \in Timer |-> "STOPPED"] /\ mode = [i \in Timer |-> "ONE_SHOT"]
  /\ due = [i \in Timer |-> 0] /\ period = [i \in Timer |-> 0]
  /\ call = None
  /\ waited = [i \in Timer |-> 0] /\ fired = [i \in Timer |-> 0]

-----------------------------------------------------------------------------
(* Time.                                                                   *)

\* Mutant: the difference is not taken for a signed number.
DiffUnsigned(e, s) == (e - s) % Wrap

\* soft_timer_get_2_time_diff_us, an int.
Diff(e, s) == ((e - s + Wrap \div 2) % Wrap) - Wrap \div 2

HasTime == call.counter # NotRead

\* Timer i, which has fired, is about to be armed again.
Arming(i) == call.at = "update" /\ call.id = i /\ HasTime /\ state[i] = "TIMEOUT"

\* The timers whose time of expiry has been worked out.
Armed == {i \in Timer : state[i] = "RUNNING" /\ ~ (call.at = "start" /\ call.id = i)}

\* How long timer i has been waiting a moment later; more than its period is as
\* good as its period.
Grown(i) == IF waited[i] < period[i] /\ (state[i] = "RUNNING" \/ Arming(i))
              THEN waited[i] + 1 ELSE waited[i]

\* Time passes, and with it the counter and, at every full tick, the number of
\* interrupts that os_soft_timer_systick_handle counts.
Pass ==
  /\ \A i \in Armed : Diff(now, due[i]) < Slack
  /\ now' = (now + 1) % Life
  /\ waited' = [i \in Timer |-> Grown(i)]
  /\ UNCHANGED <<timers, call, fired>>

\* soft_timer_get_time reads the counter first.
ReadCounter ==
  /\ call.at # "none" /\ call.counter = NotRead
  /\ call.at = "update" => call.id \in Timer /\ state[call.id] # "STOPPED"
  /\ call' = [call EXCEPT !.counter = now % Tick]
  /\ UNCHANGED <<now, timers, waited, fired>>

\* Then it reads the number of interrupts, and puts the two together.
TimePut == Tick * (now \div Tick) + call.counter

\* The times it may return: the float is off by its error on either side, and is
\* cut off to a whole microsecond and at the end of its range.
soft_timer_get_time ==
  (TimePut - Error(TimePut) - 1)..(TimePut + Error(TimePut)) \cap 0..(Life - 1)

soft_timer_add_us(time, n) == (time + n) % Wrap

-----------------------------------------------------------------------------
(* The functions.                                                          *)

CallStart ==
  /\ call.at = "none"
  /\ \E i \in Timer, m \in {"ONE_SHOT", "CYCLE"}, p \in Periods :
       /\ state[i] = "STOPPED"
       /\ state' = [state EXCEPT ![i] = "RUNNING"]
       /\ mode' = [mode EXCEPT ![i] = m]
       /\ period' = [period EXCEPT ![i] = p]
       /\ call' = [None EXCEPT !.at = "start", !.id = i]
       /\ waited' = [waited EXCEPT ![i] = 0] /\ fired' = [fired EXCEPT ![i] = 0]
  /\ UNCHANGED <<now, due>>

Arm(i) == \E t \in soft_timer_get_time :
            due' = [due EXCEPT ![i] = soft_timer_add_us(t, period[i])]

os_soft_timer_start ==
  /\ call.at = "start" /\ HasTime
  /\ Arm(call.id)
  /\ call' = None
  /\ UNCHANGED <<now, state, mode, period, waited, fired>>

CallUpdate ==
  /\ call.at = "none"
  /\ call' = [None EXCEPT !.at = "update"]
  /\ UNCHANGED <<now, timers, waited, fired>>

Updates(s) == call.at = "update" /\ call.id \in Timer /\ state[call.id] = s
NextTimer == call' = [call EXCEPT !.id = @ + 1, !.counter = NotRead]

UpdateStopped ==
  /\ Updates("STOPPED") /\ NextTimer
  /\ UNCHANGED <<now, timers, waited, fired>>

\* The timer fires, which calls its callback, when its time has come.
Fires(i, t) == Diff(t, due[i]) >= 0

UpdateRunning ==
  /\ Updates("RUNNING") /\ HasTime
  /\ LET i == call.id
     IN \/ /\ \E t \in soft_timer_get_time : Fires(i, t)
           /\ state' = [state EXCEPT ![i] = "TIMEOUT"]
           /\ fired' = [fired EXCEPT ![i] = IF @ < 2 THEN @ + 1 ELSE 2]
           /\ waited' = [waited EXCEPT ![i] = 0]
        \/ /\ \E t \in soft_timer_get_time : ~ Fires(i, t)
           /\ UNCHANGED <<state, fired, waited>>
  /\ NextTimer
  /\ UNCHANGED <<now, mode, due, period>>

\* Mutants: a timer is armed again whatever its mode; a timer that is armed again
\* keeps its state.
AgainAlways(i) == TRUE
RearmedNot == "TIMEOUT"

Again(i) == mode[i] = "CYCLE"
Rearmed == "RUNNING"

\* With the next poll a timer that has fired stops, or is armed again from now.
UpdateTimeout ==
  /\ Updates("TIMEOUT") /\ HasTime
  /\ LET i == call.id
     IN IF Again(i)
          THEN /\ state' = [state EXCEPT ![i] = Rearmed] /\ Arm(i)
               /\ UNCHANGED waited
          ELSE /\ state' = [state EXCEPT ![i] = "STOPPED"] /\ UNCHANGED due
               /\ waited' = [waited EXCEPT ![i] = 0]
  /\ NextTimer
  /\ UNCHANGED <<now, mode, period, fired>>

UpdateEnds ==
  /\ call.at = "update" /\ call.id \notin Timer
  /\ call' = None
  /\ UNCHANGED <<now, timers, waited, fired>>

os_soft_timer_stop ==
  /\ call.at = "none"
  /\ \E i \in Timer : /\ state' = [state EXCEPT ![i] = "STOPPED"]
                      /\ waited' = [waited EXCEPT ![i] = 0]
  /\ UNCHANGED <<now, mode, due, period, call, fired>>

Call == CallStart \/ os_soft_timer_stop
Step == \/ ReadCounter \/ os_soft_timer_start
        \/ UpdateStopped \/ UpdateRunning \/ UpdateTimeout \/ UpdateEnds

Next == Pass \/ Call \/ CallUpdate \/ Step

Spec == Init /\ [][Next]_vars

\* Time passes, calls go on, and the application goes on polling.
FairSpec == Spec /\ WF_vars(Pass) /\ WF_vars(Step) /\ SF_vars(CallUpdate)

-----------------------------------------------------------------------------
(* What the timers owe the application.                                    *)

\* The error of a time read since timer i was armed; the wait of one that was armed
\* before the time began anew is longer than that time.
Worst(i) == Error((IF waited[i] <= now THEN now ELSE Life) + Tick)

\* A timer does not fire before its time, save by the tick by which the time is ahead
\* when an interrupt comes between its two readings and by the error of the float in
\* two times.  The last grows with the uptime and comes to more than a tick.
FiresNotEarly ==
  [][\A i \in Timer :
       fired'[i] > fired[i] => period[i] <= waited[i] + Tick + 2 * Worst(i)]_vars

\* A timer in one-shot mode fires once.
OneShotOnce == \A i \in Timer : mode[i] = "ONE_SHOT" => fired[i] <= 1

\* A timer that was started fires or is stopped, and one that fired stops or is
\* armed again, although the clock wraps around and errs.
TimersFire ==
  \A i \in Timer : /\ (state[i] = "RUNNING") ~> (state[i] # "RUNNING")
                   /\ (state[i] = "TIMEOUT") ~> (state[i] # "TIMEOUT")
=============================================================================
