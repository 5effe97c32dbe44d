------------------------------ MODULE ServiceProofs ------------------------------
(***************************************************************************)
(* Proofs about the two services, which share no state.  Soft timers: the  *)
(* types, that one in one-shot mode fires once, and that none fires before *)
(* its time, but for a tick and the error of the clock, for any number of  *)
(* timers, any tick, range and precision; of an armed timer, EarlyInv      *)
(* relates the time left to the true time it has waited.  The shell: that  *)
(* what runs is what was entered, and that the history and the pointer     *)
(* into it are sound, for any lines, commands and limits; ShellInv follows *)
(* a line from the buffer it is typed into to the list.                    *)
(***************************************************************************)
EXTENDS SoftTimer, Shell, SequenceTheorems, FiniteSetTheorems, WellFoundedInduction, TLAPS

-----------------------------------------------------------------------------
(* Soft timers.                                                            *)

\* A remainder lies below its divisor.
LEMMA Remainder == ASSUME NEW a \in Int, NEW n \in Nat \ {0} PROVE a % n \in 0..(n - 1)
  OBVIOUS

\* The error of the clock is a number of microseconds.
LEMMA ErrorTyped == ASSUME NEW t \in Nat PROVE Error(t) \in Nat
<1>1. Precision \in Nat \ {0}
  BY TimerAssumption
<1> QED
  BY <1>1 DEF Error

\* The periods are times, less than half the range even with a tick and the errors.
LEMMA PeriodFacts ==
  ASSUME NEW p \in Periods
  PROVE  /\ p \in Nat /\ p \in Time /\ Error(Life + Tick) \in Nat
         /\ 2 * (p + 2 * Tick + 2 * Error(Life + Tick) + 1) < Wrap
<1>1. Life + Tick \in Nat /\ Tick \in Nat /\ Wrap \in Nat /\ Slack \in Nat
  BY TimerAssumption
<1>2. Error(Life + Tick) \in Nat
  BY <1>1, ErrorTyped
<1>3. p \in Nat /\ 2 * (p + Slack + 2 * Tick + 2 * Error(Life + Tick) + 1) < Wrap
  BY TimerAssumption
<1> QED
  BY <1>1, <1>2, <1>3 DEF Time

\* A time that is read is a time near to the one put together.
LEMMA TimeRead ==
  ASSUME TypeOK, NEW t \in soft_timer_get_time
  PROVE  /\ t \in Int /\ TimePut \in Int /\ Error(TimePut) \in Int
         /\ TimePut - Error(TimePut) - 1 <= t /\ t <= TimePut + Error(TimePut)
         /\ TimePut = Tick * (now \div Tick) + call.counter
<1>1. Tick \in Nat \ {0} /\ Precision \in Nat \ {0} /\ Life \in Nat
  BY TimerAssumption
<1>2. now \in Int /\ call.counter \in Int
  BY <1>1, TimerAssumption DEF TypeOK, Calls
<1>3. TimePut \in Int
  <2>1. now \div Tick \in Int
    BY <1>1, <1>2
  <2>2. Tick * (now \div Tick) \in Int
    BY <1>1, <2>1
  <2> QED
    BY <1>2, <2>2 DEF TimePut
<1>4. Error(TimePut) \in Int
  BY <1>1, <1>3 DEF Error
<1> QED
  BY <1>1, <1>3, <1>4 DEF soft_timer_get_time, TimePut

\* The sum of two times is a time.
LEMMA SumTyped ==
  ASSUME TypeOK, NEW a \in Int, NEW n \in Nat
  PROVE  soft_timer_add_us(a, n) \in Time
<1>1. Wrap \in Nat \ {0} /\ a + n \in Int
  BY TimerAssumption
<1> QED
  BY <1>1, Remainder DEF Time, soft_timer_add_us

\* How long a timer has waited stays below its period, which is a time.
LEMMA GrownTyped ==
  ASSUME TypeOK, NEW i \in Timer
  PROVE  Grown(i) \in Time
<1>1. waited[i] \in Time /\ period[i] \in Time
  BY DEF TypeOK
<1>2. CASE waited[i] < period[i]
  BY <1>1, <1>2, TimerAssumption DEF Grown, Time
<1>3. CASE ~ (waited[i] < period[i])
  BY <1>1, <1>3 DEF Grown
<1> QED
  BY <1>2, <1>3

\* Arming a timer stores a time.
LEMMA ArmTyped ==
  ASSUME TypeOK, NEW i, Arm(i)
  PROVE  due' \in [Timer -> Time]
<1>1. CASE i \in Timer
  <2>1. PICK t \in soft_timer_get_time :
          due' = [due EXCEPT ![i] = soft_timer_add_us(t, period[i])]
    BY DEF Arm
  <2>2. t \in Int /\ period[i] \in Nat
    BY <1>1, TimerAssumption, TimeRead DEF TypeOK, Time
  <2>3. soft_timer_add_us(t, period[i]) \in Time
    BY <2>2, SumTyped
  <2> QED
    BY <2>1, <2>3 DEF TypeOK
<1>2. CASE i \notin Timer
  BY <1>2 DEF Arm, TypeOK
<1> QED
  BY <1>1, <1>2

\* A call in progress, none, and the next round of a poll are calls.
LEMMA CallTyped ==
  ASSUME TypeOK
  PROVE  /\ None \in Calls
         /\ call.id \in 1..(Num + 1) /\ 1 \in 1..(Num + 1) /\ NotRead \in 0..Wrap
  BY TimerAssumption DEF TypeOK, None, Calls, NotRead

LEMMA NextTimerTyped ==
  ASSUME TypeOK, call.id \in Timer, NextTimer
  PROVE  call' \in Calls
<1>1. call.id + 1 \in 1..(Num + 1) /\ NotRead \in 0..Wrap
  BY TimerAssumption DEF Timer, NotRead
<1> QED
  BY <1>1 DEF TypeOK, NextTimer, Calls

\* A timer in one-shot mode that still runs has not fired.
OneShotInv ==
  \A i \in Timer : mode[i] = "ONE_SHOT" =>
    fired[i] <= 1 /\ (state[i] = "RUNNING" => fired[i] = 0)

LEMMA InitTyped == Init => TypeOK /\ OneShotInv
<1> SUFFICES ASSUME Init PROVE TypeOK /\ OneShotInv
  OBVIOUS
<1>1. 0 \in Time /\ 1 \in 1..(Num + 1) /\ NotRead \in 0..Wrap /\ 0 \in 0..(Life - 1)
  BY TimerAssumption DEF Time, NotRead
<1>2. None \in Calls
  BY <1>1 DEF None, Calls
<1> QED
  BY <1>1, <1>2 DEF Init, TypeOK, OneShotInv

\* Every step keeps the types, one action after the other.
LEMMA NextTyped == TypeOK /\ [Next]_vars => TypeOK'
<1> SUFFICES ASSUME TypeOK, [Next]_vars PROVE TypeOK'
  OBVIOUS
<1> USE DEF timers
<1>1. CASE Pass
  <2>1. now' \in 0..(Life - 1)
    <3>1. Life \in Nat \ {0} /\ now + 1 \in Int /\ now' = (now + 1) % Life
      BY <1>1, TimerAssumption DEF Pass, TypeOK
    <3> QED
      BY <3>1, Remainder
  <2>2. waited' \in [Timer -> Time]
    BY <1>1, GrownTyped DEF Pass
  <2> QED
    BY <1>1, <2>1, <2>2 DEF Pass, TypeOK
<1>2. CASE ReadCounter
  <2>1. now % Tick \in 0..Wrap
    <3>1. Tick \in Nat \ {0} /\ Tick < Wrap /\ now \in Int /\ Wrap \in Nat
      BY TimerAssumption DEF TypeOK
    <3>2. now % Tick \in 0..(Tick - 1)
      BY <3>1, Remainder
    <3> QED
      BY <3>1, <3>2
  <2>2. call' \in Calls
    BY <1>2, <2>1 DEF ReadCounter, TypeOK, Calls
  <2> QED
    BY <1>2, <2>2 DEF ReadCounter, TypeOK
<1>3. CASE CallStart
  <2>0. 0 \in Time /\ Periods \subseteq Time /\ Timer \subseteq 1..(Num + 1)
    BY TimerAssumption, PeriodFacts DEF Time, Timer
  <2>1. PICK i \in Timer, m \in {"ONE_SHOT", "CYCLE"}, p \in Periods :
          /\ state' = [state EXCEPT ![i] = "RUNNING"]
          /\ mode' = [mode EXCEPT ![i] = m]
          /\ period' = [period EXCEPT ![i] = p]
          /\ call' = [None EXCEPT !.at = "start", !.id = i]
          /\ waited' = [waited EXCEPT ![i] = 0] /\ fired' = [fired EXCEPT ![i] = 0]
    BY <1>3 DEF CallStart
  <2>2. i \in 1..(Num + 1) /\ NotRead \in 0..Wrap
    BY <2>0, TimerAssumption DEF NotRead
  <2>3. call' = [at |-> "start", id |-> i, counter |-> NotRead]
    BY <2>1 DEF None
  <2>4. call' \in Calls
    BY <2>2, <2>3 DEF Calls
  <2> QED
    BY <1>3, <2>0, <2>1, <2>4 DEF CallStart, TypeOK
<1>4. CASE os_soft_timer_start
  <2>1. due' \in [Timer -> Time]
    BY <1>4, ArmTyped DEF os_soft_timer_start
  <2> QED
    BY <1>4, <2>1, CallTyped DEF os_soft_timer_start, TypeOK
<1>5. CASE CallUpdate
  <2>1. call' = [at |-> "update", id |-> 1, counter |-> NotRead]
    BY <1>5 DEF CallUpdate, None
  <2>2. call' \in Calls
    BY <2>1, CallTyped DEF None, Calls
  <2> QED
    BY <1>5, <2>2 DEF CallUpdate, TypeOK
<1>6. CASE UpdateStopped
  BY <1>6, NextTimerTyped DEF UpdateStopped, Updates, TypeOK
<1>7. CASE UpdateRunning
  <2>1. call.id \in Timer /\ 0 \in Time
    BY <1>7, TimerAssumption DEF UpdateRunning, Updates, Time
  <2>2. call' \in Calls
    BY <1>7, <2>1, NextTimerTyped DEF UpdateRunning
  <2>3. CASE UNCHANGED <<state, fired, waited>>
    BY <1>7, <2>2, <2>3 DEF UpdateRunning, TypeOK
  <2>4. CASE ~ UNCHANGED <<state, fired, waited>>
    BY <1>7, <2>1, <2>2, <2>4 DEF UpdateRunning, TypeOK
  <2> QED
    BY <2>3, <2>4
<1>8. CASE UpdateTimeout
  <2>1. call.id \in Timer /\ 0 \in Time
    BY <1>8, TimerAssumption DEF UpdateTimeout, Updates, Time
  <2>2. call' \in Calls
    BY <1>8, <2>1, NextTimerTyped DEF UpdateTimeout
  <2>3. CASE Again(call.id)
    BY <1>8, <2>1, <2>2, <2>3, ArmTyped DEF UpdateTimeout, Rearmed, TypeOK
  <2>4. CASE ~ Again(call.id)
    BY <1>8, <2>1, <2>2, <2>4 DEF UpdateTimeout, TypeOK
  <2> QED
    BY <2>3, <2>4
<1>9. CASE UpdateEnds
  BY <1>9, CallTyped DEF UpdateEnds, TypeOK
<1>10. CASE os_soft_timer_stop
  <2>1. 0 \in Time
    BY TimerAssumption DEF Time
  <2> QED
    BY <1>10, <2>1 DEF os_soft_timer_stop, TypeOK
<1>11. CASE UNCHANGED vars
  BY <1>11 DEF vars, TypeOK
<1> QED
  BY <1>1, <1>2, <1>3, <1>4, <1>5, <1>6, <1>7, <1>8, <1>9, <1>10, <1>11
     DEF Next, Call, Step

\* A timer fires only while it runs; in one-shot mode it does not run again.
LEMMA NextOneShot == TypeOK /\ OneShotInv /\ [Next]_vars => OneShotInv'
<1> SUFFICES ASSUME TypeOK, OneShotInv, [Next]_vars,
                    NEW i \in Timer, mode'[i] = "ONE_SHOT"
             PROVE  fired'[i] <= 1 /\ (state'[i] = "RUNNING" => fired'[i] = 0)
  BY DEF OneShotInv
<1> USE DEF timers
<1>1. CASE CallStart
  <2>1. PICK j \in Timer, m \in {"ONE_SHOT", "CYCLE"} :
          /\ state' = [state EXCEPT ![j] = "RUNNING"]
          /\ mode' = [mode EXCEPT ![j] = m]
          /\ fired' = [fired EXCEPT ![j] = 0]
    BY <1>1 DEF CallStart
  <2> QED
    BY <2>1 DEF TypeOK, OneShotInv
<1>2. CASE UpdateRunning
  <2>1. call.id \in Timer /\ state[call.id] = "RUNNING" /\ mode' = mode
    BY <1>2 DEF UpdateRunning, Updates
  <2>2. CASE ~ UNCHANGED <<state, fired, waited>>
    BY <1>2, <2>1, <2>2 DEF UpdateRunning, TypeOK, OneShotInv
  <2>3. CASE UNCHANGED <<state, fired, waited>>
    BY <2>1, <2>3 DEF OneShotInv
  <2> QED
    BY <2>2, <2>3
<1>3. CASE UpdateTimeout
  <2>1. mode' = mode /\ fired' = fired
    BY <1>3 DEF UpdateTimeout
  <2>2. CASE Again(call.id)
    <3>1. /\ call.id \in Timer /\ mode[call.id] = "CYCLE"
          /\ state' = [state EXCEPT ![call.id] = Rearmed]
      BY <1>3, <2>2 DEF UpdateTimeout, Updates, Again
    <3> QED
      BY <2>1, <3>1 DEF TypeOK, OneShotInv
  <2>3. CASE ~ Again(call.id)
    BY <1>3, <2>1, <2>3 DEF UpdateTimeout, TypeOK, OneShotInv
  <2> QED
    BY <2>2, <2>3
<1>4. CASE os_soft_timer_stop
  BY <1>4 DEF os_soft_timer_stop, TypeOK, OneShotInv
<1>5. CASE \/ Pass \/ ReadCounter \/ os_soft_timer_start \/ CallUpdate
           \/ UpdateStopped \/ UpdateEnds \/ UNCHANGED vars
  <2>1. mode' = mode /\ fired' = fired /\ state' = state
    BY <1>5 DEF Pass, ReadCounter, os_soft_timer_start, CallUpdate, UpdateStopped,
                UpdateEnds, vars
  <2> QED
    BY <2>1 DEF OneShotInv
<1> QED
  BY <1>1, <1>2, <1>3, <1>4, <1>5 DEF Next, Call, Step

-----------------------------------------------------------------------------
(* Remainders, as far as the clock needs them.                             *)

\* The remainder of a sum of two numbers in range.
LEMMA ModSum ==
  ASSUME NEW n \in Nat \ {0}, NEW a \in 0..(n - 1), NEW b \in 0..(n - 1)
  PROVE  (a + b) % n = IF a + b < n THEN a + b ELSE a + b - n
  OBVIOUS

\* Quotient and remainder give the number.
LEMMA DivMod ==
  ASSUME NEW a \in Nat, NEW n \in Nat \ {0}
  PROVE  /\ a \div n \in Int /\ n * (a \div n) = a - (a % n)
         /\ a % n <= a /\ a % n \in 0..(n - 1)
  OBVIOUS

LEMMA IntDivMod ==
  ASSUME NEW a \in Int, NEW n \in Nat \ {0}
  PROVE  /\ a \div n \in Int /\ a % n \in 0..(n - 1) /\ n * (a \div n) = a - (a % n)
  OBVIOUS

LEMMA ProductGrows ==
  ASSUME NEW n \in Nat \ {0}, NEW q \in Int, q >= 1
  PROVE  n * q >= n
  OBVIOUS

\* A multiple of a number that is smaller than the number is none of it.
LEMMA SmallMultiple ==
  ASSUME NEW n \in Nat \ {0}, NEW q \in Int, n * q < n
  PROVE  q <= 0
<1>1. SUFFICES ASSUME q >= 1 PROVE FALSE
  OBVIOUS
<1> QED
  BY <1>1, ProductGrows

\* A multiple of the divisor does not change the remainder.
LEMMA ModOf ==
  ASSUME NEW n \in Nat \ {0}, NEW b \in 0..(n - 1), NEW m \in Int, NEW a \in Int,
         a = b + m * n
  PROVE  a % n = b
<1>1. PICK q \in Int, r \in 0..(n - 1) : r = a % n /\ n * q = a - r
  BY IntDivMod
<1>2. n * (q - m) = b - r /\ n * (m - q) = r - b
  <2>1. n * (q - m) = n * q - m * n /\ n * (m - q) = m * n - n * q
    BY <1>1
  <2>2. m * n \in Int /\ n * q \in Int
    BY <1>1
  <2> DEFINE x == n * q
             y == m * n
             u == n * (q - m)
             v == n * (m - q)
  <2>3. /\ u = x - y /\ v = y - x /\ x = a - r /\ a = b + y
        /\ x \in Int /\ y \in Int
    BY <1>1, <2>1, <2>2
  <2> HIDE DEF x, y, u, v
  <2>4. u = b - r /\ v = r - b
    BY <1>1, <2>3
  <2> QED
    BY <2>4 DEF u, v
<1>3. q - m \in Int /\ m - q \in Int /\ b - r < n /\ r - b < n
  BY <1>1
<1>4. q - m <= 0 /\ m - q <= 0
  BY <1>2, <1>3, SmallMultiple
<1>5. q - m = 0
  BY <1>1, <1>4
<1>6. n * (q - m) = 0
  BY <1>5
<1> QED
  BY <1>1, <1>2, <1>6

\* The signed difference of two times that are near each other.
LEMMA SignedDiff ==
  ASSUME NEW n \in Nat \ {0}, NEW k \in Int, NEW m \in Int, NEW d \in Int,
         d = k + m * n, k < 0, 2 * (-k) < n
  PROVE  ((d + n \div 2) % n) - n \div 2 < 0
<1> DEFINE h == n \div 2
           b == k + h
           a == d + h
<1>1. h \in Int /\ 2 * h <= n /\ n <= 2 * h + 1
  OBVIOUS
<1>2. b \in 0..(n - 1) /\ a \in Int /\ a = b + m * n
  <2>1. m * n \in Int
    OBVIOUS
  <2> HIDE DEF h
  <2> QED
    BY <1>1, <2>1
<1>3. a % n = b
  <2> HIDE DEF a, b
  <2> QED
    BY <1>2, ModOf
<1> QED
  BY <1>1, <1>3

\* From one number to the next a remainder grows by one at most.
LEMMA ModSucc ==
  ASSUME NEW a \in Nat, NEW n \in Nat \ {0}
  PROVE  (a + 1) % n <= (a % n) + 1 /\ 0 % n = 0
<1>1. PICK q \in Int, r \in 0..(n - 1) : r = a % n /\ n * q = a - r
  BY DivMod
<1> DEFINE b == a + 1
<1>2. \A c \in Nat : \E p \in Int, s \in 0..(n - 1) : s = c % n /\ n * p = c - s
  BY DivMod
<1>3. PICK p \in Int, s \in 0..(n - 1) : s = b % n /\ n * p = a + 1 - s
  BY <1>2
<1>4. s <= r + 1
  <2>1. SUFFICES ASSUME s > r + 1 PROVE FALSE
    BY <1>1, <1>3
  <2>2. n * (q - p) = n * q - n * p
    BY <1>1, <1>3
  <2>3. n * (q - p) = s - r - 1
    BY <1>1, <1>3, <2>2
  <2>4. CASE q - p >= 1
    <3>1. n * (q - p) >= n
      BY <2>4, <1>1, <1>3, ProductGrows
    <3> QED
      BY <3>1, <2>3, <1>1, <1>3
  <2>5. CASE q - p <= 0
    <3>1. n * (q - p) <= 0
      BY <2>5, <1>1, <1>3
    <3> QED
      BY <3>1, <2>1, <2>3, <1>1, <1>3
  <2> QED
    BY <2>4, <2>5, <1>1, <1>3
<1>5. 0 % n = 0
  OBVIOUS
<1> QED
  BY <1>1, <1>3, <1>4, <1>5

-----------------------------------------------------------------------------
(* No timer fires early.                                                   *)

\* A later time has no smaller error.
LEMMA ErrorGrows ==
  ASSUME NEW a \in Nat, NEW b \in Nat, a <= b
  PROVE  Error(a) <= Error(b)
<1> DEFINE n == Precision
           p == a \div n
           q == b \div n
<1>1. n \in Nat \ {0}
  BY TimerAssumption
<1>2. PICK r \in 0..(n - 1) : p \in Int /\ n * p = a - r
  BY <1>1, DivMod
<1>3. PICK s \in 0..(n - 1) : q \in Int /\ n * q = b - s
  BY <1>1, DivMod
<1> HIDE DEF n, p, q
<1>4. n * (p - q) < n
  <2>1. n * (p - q) = n * p - n * q
    BY <1>1, <1>2, <1>3
  <2> QED
    BY <1>1, <1>2, <1>3, <2>1
<1>5. p - q <= 0
  BY <1>1, <1>2, <1>3, <1>4, SmallMultiple
<1> QED
  BY <1>2, <1>3, <1>5 DEF Error, n, p, q

\* Two times that the clock cannot tell apart.
Congruent(a, b) == \E m \in Int : a = b + m * Wrap

\* Timer i is about to get its time of expiry.
Awaited(i) == (call.at = "start" /\ call.id = i) \/ Arming(i)

\* What timer i has waited and what is left make up its period, but for an error.
InTime(i) ==
  \E left \in Int : /\ Congruent(due[i], now + left)
                    /\ period[i] <= waited[i] + left + 1 + Worst(i)
                    /\ left < period[i] + Tick + Worst(i)

\* A timer that is armed is in time; the time that is being put together for one is
\* not behind the begin of its wait.
NotEarly(i) ==
  /\ i \in Armed => InTime(i)
  /\ HasTime /\ Awaited(i) => (now % Tick) <= waited[i] + call.counter

EarlyInv ==
  /\ \A i \in Timer : period[i] \in Periods \cup {0}
  /\ HasTime => call.counter \in 0..(Tick - 1)
  /\ call.at = "start" => call.id \in Timer /\ state[call.id] = "RUNNING"
  /\ \A i \in Timer : waited[i] < period[i] => NotEarly(i)

\* What the proofs need of the constants and of the clock.
LEMMA ClockFacts ==
  ASSUME TypeOK
  PROVE  /\ Wrap \in Nat \ {0} /\ Tick \in Nat \ {0} /\ Life \in Nat \ {0}
         /\ now \in 0..(Life - 1) /\ now \in Nat
         /\ now % Tick \in 0..(Tick - 1) /\ now % Tick <= now
<1>1. /\ Wrap \in Nat \ {0} /\ Tick \in Nat \ {0} /\ Life \in Nat \ {0}
      /\ now \in 0..(Life - 1) /\ now \in Nat
  BY TimerAssumption DEF TypeOK
<1>2. now % Tick \in 0..(Tick - 1) /\ now % Tick <= now
  BY <1>1, DivMod
<1> QED
  BY <1>1, <1>2

\* The error of a time read now, and since timer i was armed, is below the greatest.
LEMMA WorstError ==
  ASSUME TypeOK, NEW i \in Timer
  PROVE  /\ Worst(i) \in Nat /\ Worst(i) <= Error(Life + Tick)
         /\ Error(now + Tick) \in Nat /\ Error(now + Tick) <= Worst(i)
<1> DEFINE a == now + Tick
           b == Life + Tick
<1>1. a \in Nat /\ b \in Nat /\ a <= b
  BY ClockFacts
<1>2. Error(a) \in Nat /\ Error(b) \in Nat /\ Error(a) <= Error(b)
  <2> HIDE DEF a, b
  <2> QED
    BY <1>1, ErrorTyped, ErrorGrows
<1>3. Worst(i) = Error(a) \/ Worst(i) = Error(b)
  BY DEF Worst
<1> QED
  BY <1>2, <1>3

\* The difference of two times is a number.
LEMMA DiffTyped ==
  ASSUME TypeOK, NEW a \in Int, NEW b \in Int
  PROVE  Diff(a, b) \in Int
<1> DEFINE x == a - b + Wrap \div 2
<1>1. Wrap \in Nat \ {0} /\ Wrap \div 2 \in Int
  BY ClockFacts
<1>2. x \in Int
  BY <1>1
<1>3. x % Wrap \in Int
  <2> HIDE DEF x
  <2> QED
    BY <1>1, <1>2
<1> QED
  BY <1>1, <1>3 DEF Diff

\* A time that is read lies near the true time.
LEMMA TimeNear ==
  ASSUME TypeOK, call.counter \in 0..(Tick - 1), NEW i \in Timer,
         NEW t \in soft_timer_get_time
  PROVE  /\ t \in Int /\ TimePut \in Int
         /\ TimePut = now - (now % Tick) + call.counter
         /\ TimePut - Worst(i) - 1 <= t /\ t <= TimePut + Worst(i)
<1> DEFINE T == TimePut
           E == Error(TimePut)
<1>1. T = now - (now % Tick) + call.counter
  <2>1. Tick * (now \div Tick) = now - (now % Tick)
    BY ClockFacts, DivMod
  <2> QED
    BY <2>1 DEF TimePut
<1>2. T \in Nat /\ T <= now + Tick /\ now + Tick \in Nat
  BY <1>1, ClockFacts
<1>3. E <= Error(now + Tick)
  BY <1>2, ErrorGrows
<1>4. t \in Int /\ E \in Int /\ T - E - 1 <= t /\ t <= T + E
  BY TimeRead
<1>5. E <= Worst(i) /\ Worst(i) \in Int
  BY <1>3, <1>4, WorstError
<1>6. T - Worst(i) - 1 <= t /\ t <= T + Worst(i)
  <2> HIDE DEF T, E
  <2> QED
    BY <1>2, <1>4, <1>5
<1> HIDE DEF T, E
<1> QED
  BY <1>1, <1>2, <1>4, <1>5, <1>6 DEF T

\* A timer that gets its time of expiry has that much left which its wait lacks.
LEMMA ArmLeft ==
  ASSUME TypeOK, EarlyInv, HasTime, NEW i \in Timer, Awaited(i), Arm(i),
         UNCHANGED <<now, period, waited>>, waited[i] < period[i]
  PROVE  InTime(i)'
<1> DEFINE r == now % Tick
           c == call.counter
           W == Worst(i)
<1>1. /\ c \in 0..(Tick - 1) /\ r <= waited[i] + c /\ waited[i] \in Nat
      /\ period[i] \in Nat /\ r \in 0..(Tick - 1)
  BY ClockFacts DEF EarlyInv, NotEarly, TypeOK, Time
<1>2. PICK t \in soft_timer_get_time : due' = [due EXCEPT ![i] = (t + period[i]) % Wrap]
  BY DEF Arm, soft_timer_add_us
<1>3. /\ t \in Int /\ W \in Nat
      /\ TimePut \in Int /\ TimePut = now - r + c
      /\ TimePut - W - 1 <= t /\ t <= TimePut + W
  BY <1>1, TimeNear, WorstError
<1> DEFINE left == t + period[i] - now
           x == t + period[i]
<1>4. left \in Int /\ x \in Int /\ x = now + left
  BY <1>1, <1>3, ClockFacts
<1>5. Congruent(due'[i], now + left)
  <2>1. due'[i] = x % Wrap
    BY <1>2 DEF TypeOK
  <2> HIDE DEF x, left
  <2> DEFINE m == -(x \div Wrap)
  <2>2. x \div Wrap \in Int /\ Wrap * (x \div Wrap) = x - (x % Wrap) /\ x % Wrap \in Int
    <3>1. x \in Int /\ Wrap \in Nat \ {0}
      BY <1>4, ClockFacts
    <3>2. x % Wrap \in 0..(Wrap - 1)
      BY <3>1, IntDivMod
    <3> QED
      BY <3>1, <3>2, IntDivMod
  <2>3. m \in Int /\ m * Wrap = -(Wrap * (x \div Wrap))
    BY <2>2, ClockFacts
  <2>4. x % Wrap = x + m * Wrap
    BY <1>4, <2>2, <2>3
  <2> QED
    BY <1>4, <2>1, <2>3, <2>4 DEF Congruent
<1>6. period[i] <= waited[i] + left + 1 + W /\ left < period[i] + Tick + W
  <2> HIDE DEF r, c, W
  <2> QED
    BY <1>1, <1>3, ClockFacts
<1>7. Worst(i)' = W
  BY DEF Worst
<1> QED
  BY <1>4, <1>5, <1>6, <1>7 DEF InTime, Congruent

\* A timer whose time has come, as the code reads it, has waited all but a tick and
\* two errors.
LEMMA FiresInTime ==
  ASSUME TypeOK, EarlyInv, NEW i \in Timer, call.at = "update", call.id = i, HasTime,
         state[i] = "RUNNING", NEW t \in soft_timer_get_time, Fires(i, t)
  PROVE  period[i] <= waited[i] + Tick + 2 * Worst(i)
<1> DEFINE r == now % Tick
           c == call.counter
           W == Worst(i)
<1>1. /\ waited[i] \in Nat /\ period[i] \in Nat /\ due[i] \in Int /\ W \in Nat
      /\ W <= Error(Life + Tick) /\ c \in 0..(Tick - 1) /\ r \in 0..(Tick - 1)
      /\ Tick \in Nat /\ Wrap \in Nat \ {0} /\ now \in Int
  BY ClockFacts, WorstError DEF EarlyInv, TypeOK, Time
<1> SUFFICES ASSUME waited[i] + Tick + 2 * W < period[i] PROVE FALSE
  BY <1>1
<1>2. waited[i] < period[i] /\ period[i] \in Periods /\ i \in Armed
  BY <1>1 DEF EarlyInv, Armed
<1>3. 2 * (period[i] + 2 * Tick + 2 * W) < Wrap
  <2>1. /\ Error(Life + Tick) \in Nat
        /\ 2 * (period[i] + 2 * Tick + 2 * Error(Life + Tick) + 1) < Wrap
    BY <1>2, PeriodFacts
  <2> HIDE DEF W
  <2> QED
    BY <1>1, <2>1
<1>4. InTime(i)
  BY <1>2 DEF EarlyInv, NotEarly
<1>5. PICK left \in Int : /\ Congruent(due[i], now + left)
                          /\ period[i] <= waited[i] + left + 1 + W
                          /\ left < period[i] + Tick + W
  BY <1>4 DEF InTime
<1>6. PICK m \in Int : due[i] = now + left + m * Wrap
  BY <1>5 DEF Congruent
<1>7. /\ t \in Int /\ TimePut \in Int /\ TimePut = now - r + c
      /\ TimePut - W - 1 <= t /\ t <= TimePut + W
  BY <1>1, TimeNear
<1> DEFINE k == t - now - left
           n == -m
           d == t - due[i]
<1> HIDE DEF r, c, W
<1>8. k \in Int /\ k < 0 /\ 2 * (-k) < Wrap
  BY <1>1, <1>3, <1>5, <1>7
<1>9. n \in Int /\ d \in Int /\ d = k + n * Wrap
  <2>1. m * Wrap \in Int /\ n * Wrap = -(m * Wrap) /\ n \in Int
    BY <1>1
  <2> HIDE DEF n
  <2> QED
    BY <1>1, <1>5, <1>6, <1>7, <2>1
<1>10. Diff(t, due[i]) < 0
  <2>1. Diff(t, due[i]) = ((d + Wrap \div 2) % Wrap) - Wrap \div 2
    BY DEF Diff
  <2> HIDE DEF k, n, d
  <2>2. ((d + Wrap \div 2) % Wrap) - Wrap \div 2 < 0
    BY <1>1, <1>8, <1>9, SignedDiff
  <2> QED
    BY <2>1, <2>2
<1>11. Diff(t, due[i]) \in Int /\ Diff(t, due[i]) >= 0
  BY <1>1, <1>7, DiffTyped DEF Fires
<1> QED
  BY <1>10, <1>11

\* Between two calls, or two timers of a poll, only what is armed has to be looked at.
LEMMA StaysInTime ==
  ASSUME EarlyInv, NEW i \in Timer, now' = now, ~ HasTime',
         waited'[i] < period'[i],
         (i \in Armed)' => /\ i \in Armed /\ due'[i] = due[i]
                           /\ period'[i] = period[i] /\ waited'[i] = waited[i]
  PROVE  NotEarly(i)'
<1>1. ~ Arming(i)'
  BY DEF Arming
<1>2. ASSUME (i \in Armed)' PROVE InTime(i)'
  <2>1. /\ i \in Armed /\ due'[i] = due[i]
        /\ period'[i] = period[i] /\ waited'[i] = waited[i]
    BY <1>2
  <2>2. InTime(i)
    BY <2>1 DEF EarlyInv, NotEarly
  <2>3. Worst(i)' = Worst(i)
    BY <2>1 DEF Worst
  <2> QED
    BY <2>1, <2>2, <2>3 DEF InTime, Congruent
<1> QED
  BY <1>1, <1>2 DEF NotEarly

\* A moment passes: what has been waited grows as what is left shrinks.
LEMMA PassInTime ==
  ASSUME TypeOK, EarlyInv, Pass, NEW i \in Timer, waited'[i] < period'[i]
  PROVE  NotEarly(i)'
<1> DEFINE r == now % Tick
           q == now' % Tick
           c == call.counter
<1>1. /\ now' = (now + 1) % Life /\ waited'[i] = Grown(i)
      /\ state' = state /\ due' = due /\ period' = period /\ call' = call
  BY DEF Pass, timers
<1>2. waited[i] \in Nat /\ period[i] \in Nat /\ due[i] \in Int
  BY ClockFacts DEF TypeOK, Time
<1>3. waited[i] < period[i] /\ NotEarly(i)
  BY <1>1, <1>2 DEF Grown, EarlyInv
<1>4. now' = IF now + 1 < Life THEN now + 1 ELSE now + 1 - Life
  <2>1. CASE Life = 1
    <3>1. now = 0 /\ (now + 1) % 1 = 0
      BY <2>1, ClockFacts
    <3> QED
      BY <1>1, <2>1, <3>1
  <2>2. CASE Life # 1
    <3>1. 1 \in 0..(Life - 1) /\ now \in 0..(Life - 1) /\ Life \in Nat \ {0}
      BY <2>2, ClockFacts
    <3>2. (now + 1) % Life = IF now + 1 < Life THEN now + 1 ELSE now + 1 - Life
      BY <3>1, ModSum
    <3> QED
      BY <1>1, <3>1, <3>2
  <2> QED
    BY <2>1, <2>2
<1>5. q <= r + 1 /\ q \in Int /\ r \in Int
  <2>1. now \in Nat /\ Tick \in Nat \ {0}
    BY ClockFacts
  <2>2. (now + 1) % Tick <= r + 1 /\ 0 % Tick = 0
    BY <2>1, ModSucc
  <2>3. r \in Nat
    BY ClockFacts
  <2>4. (now + 1) % Tick \in Int
    BY <2>1, Remainder
  <2>5. CASE now + 1 < Life
    BY <1>4, <2>2, <2>3, <2>4, <2>5
  <2>6. CASE ~ (now + 1 < Life)
    <3>1. now' = 0
      BY <1>4, <2>6, ClockFacts
    <3> QED
      BY <2>2, <2>3, <3>1
  <2> QED
    BY <2>5, <2>6
<1>6. (i \in Armed)' <=> i \in Armed
  BY <1>1 DEF Armed
<1>7. HasTime' <=> HasTime
  BY <1>1 DEF HasTime
<1>8. Awaited(i)' <=> Awaited(i)
  BY <1>1, <1>7 DEF Awaited, Arming
<1>9. c \in Int
  BY TimerAssumption DEF TypeOK, Calls
<1>10. ASSUME i \in Armed PROVE InTime(i)'
  <2>1. waited'[i] = waited[i] + 1
    BY <1>1, <1>3, <1>10 DEF Grown, Armed
  <2>2. PICK left \in Int : /\ Congruent(due[i], now + left)
                            /\ period[i] <= waited[i] + left + 1 + Worst(i)
                            /\ left < period[i] + Tick + Worst(i)
    BY <1>3, <1>10 DEF NotEarly, InTime
  <2>3. PICK m \in Int : due[i] = now + left + m * Wrap
    BY <2>2 DEF Congruent
  <2> DEFINE rest == left - 1
  <2>4. rest \in Int
    OBVIOUS
  <2>5. Congruent(due[i], now' + rest)
    <3>1. CASE now + 1 < Life
      <4>1. now' + rest = now + left
        BY <1>4, <3>1, ClockFacts
      <4> QED
        BY <2>3, <4>1 DEF Congruent
    <3>2. CASE ~ (now + 1 < Life)
      <4>1. PICK q1 \in Int : Wrap * q1 = Life
        <5>1. Life % Wrap = 0 /\ Life \in Int /\ Wrap \in Nat \ {0}
          BY TimerAssumption, ClockFacts
        <5>2. Life \div Wrap \in Int /\ Wrap * (Life \div Wrap) = Life - (Life % Wrap)
          BY <5>1, IntDivMod
        <5> QED
          BY <5>1, <5>2
      <4>2. m + q1 \in Int /\ (m + q1) * Wrap = m * Wrap + Life
        <5>1. (m + q1) * Wrap = m * Wrap + Wrap * q1
          BY <4>1, ClockFacts
        <5> QED
          BY <4>1, <5>1
      <4>3. due[i] = now' + rest + (m + q1) * Wrap
        <5>1. m * Wrap \in Int /\ now' = now + 1 - Life
          BY <1>4, <3>2, ClockFacts
        <5> DEFINE y == m * Wrap
        <5>2. due[i] = now + left + y /\ y \in Int /\ now \in Int /\ Life \in Int
          BY <2>3, <5>1, ClockFacts
        <5> HIDE DEF y
        <5>3. due[i] = (now + 1 - Life) + (left - 1) + (y + Life)
          BY <5>2
        <5> QED
          BY <4>2, <5>1, <5>3 DEF y
      <4> QED
        BY <4>2, <4>3 DEF Congruent
    <3> QED
      BY <3>1, <3>2
  <2>6. /\ Worst(i) \in Nat /\ Worst(i)' \in Nat /\ Worst(i) <= Worst(i)'
    <3>1. Worst(i) \in Nat /\ Worst(i) <= Error(Life + Tick)
      BY WorstError
    <3>2. Error(Life + Tick) \in Nat
      <4>1. Life + Tick \in Nat
        BY ClockFacts
      <4> QED
        BY <4>1, ErrorTyped
    <3>3. CASE waited[i] <= now /\ now + 1 < Life
      <4>1. /\ now + Tick \in Nat /\ now + 1 + Tick \in Nat /\ now + Tick <= now + 1 + Tick
            /\ waited'[i] <= now'
        BY <1>2, <1>4, <2>1, <3>3, ClockFacts
      <4>2. Worst(i) = Error(now + Tick) /\ Worst(i)' = Error(now + 1 + Tick)
        BY <1>4, <3>3, <4>1 DEF Worst
      <4>3. Error(now + Tick) <= Error(now + 1 + Tick) /\ Error(now + 1 + Tick) \in Nat
        BY <4>1, ErrorGrows, ErrorTyped
      <4> QED
        BY <3>1, <4>2, <4>3
    <3>4. CASE ~ (waited[i] <= now /\ now + 1 < Life)
      <4>1. ~ (waited'[i] <= now')
        BY <1>2, <1>4, <2>1, <3>4, ClockFacts
      <4>2. Worst(i)' = Error(Life + Tick)
        BY <4>1 DEF Worst
      <4> QED
        BY <3>1, <3>2, <4>2
    <3> QED
      BY <3>3, <3>4
  <2>7. /\ period[i] <= waited'[i] + rest + 1 + Worst(i)'
        /\ rest < period[i] + Tick + Worst(i)'
    BY <1>2, <2>1, <2>2, <2>6, ClockFacts
  <2> QED
    BY <1>1, <2>4, <2>5, <2>7 DEF InTime, Congruent
<1>11. ASSUME HasTime, Awaited(i) PROVE q <= waited'[i] + c
  <2>1. waited'[i] = waited[i] + 1
    <3>1. state[i] = "RUNNING" \/ Arming(i)
      BY <1>11 DEF Awaited, EarlyInv
    <3> QED
      BY <1>1, <1>3, <3>1 DEF Grown
  <2>2. r <= waited[i] + c
    BY <1>3, <1>11 DEF NotEarly
  <2> HIDE DEF q, r, c
  <2> QED
    BY <1>2, <1>5, <1>9, <2>1, <2>2
<1> QED
  BY <1>1, <1>6, <1>7, <1>8, <1>10, <1>11 DEF NotEarly

LEMMA InitEarly == Init => EarlyInv
<1> SUFFICES ASSUME Init PROVE EarlyInv
  OBVIOUS
<1>1. \A i \in Timer : period[i] = 0 /\ waited[i] = 0
  BY DEF Init
<1>2. ~ HasTime /\ call.at = "none"
  BY DEF Init, HasTime, None
<1> QED
  BY <1>1, <1>2 DEF EarlyInv

\* Every step keeps the times of the timers apart, one action after the other.
LEMMA NextEarly == TypeOK /\ TypeOK' /\ EarlyInv /\ [Next]_vars => EarlyInv'
<1> SUFFICES ASSUME TypeOK, TypeOK', EarlyInv, [Next]_vars PROVE EarlyInv'
  OBVIOUS
<1> USE DEF timers
<1>1. CASE Pass
  <2>1. \A i \in Timer : waited'[i] < period'[i] => NotEarly(i)'
    BY <1>1, PassInTime
  <2>2. period' = period /\ call' = call /\ state' = state
    BY <1>1 DEF Pass
  <2> QED
    BY <2>1, <2>2 DEF EarlyInv, HasTime
<1>2. CASE ReadCounter
  <2>1. /\ now' = now /\ state' = state /\ due' = due /\ period' = period
        /\ waited' = waited /\ call' = [call EXCEPT !.counter = now % Tick]
    BY <1>2 DEF ReadCounter
  <2>2. call'.at = call.at /\ call'.id = call.id /\ call'.counter = now % Tick
    BY <2>1 DEF TypeOK, Calls
  <2>3. ASSUME NEW i \in Timer, waited'[i] < period'[i] PROVE NotEarly(i)'
    <3>1. NotEarly(i)
      BY <2>1, <2>3 DEF EarlyInv
    <3>2. ((i \in Armed)' <=> i \in Armed) /\ (InTime(i)' <=> InTime(i))
      BY <2>1, <2>2 DEF Armed, InTime, Worst, Congruent
    <3>3. (now % Tick) \in Int /\ waited[i] \in Nat
      BY ClockFacts DEF TypeOK, Time
    <3>4. (now % Tick) <= waited[i] + (now % Tick)
      BY <3>3
    <3> QED
      BY <2>1, <2>2, <3>1, <3>2, <3>4 DEF NotEarly
  <2>4. call'.counter \in 0..(Tick - 1)
    BY <2>2, ClockFacts
  <2>5. call'.at = "start" => call'.id \in Timer /\ state'[call'.id] = "RUNNING"
    BY <2>1, <2>2 DEF EarlyInv
  <2> QED
    BY <2>1, <2>3, <2>4, <2>5 DEF EarlyInv
<1>3. CASE CallStart
  <2>1. PICK j \in Timer, m \in {"ONE_SHOT", "CYCLE"}, p \in Periods :
          /\ state' = [state EXCEPT ![j] = "RUNNING"]
          /\ period' = [period EXCEPT ![j] = p]
          /\ call' = [None EXCEPT !.at = "start", !.id = j]
          /\ waited' = [waited EXCEPT ![j] = 0]
    BY <1>3 DEF CallStart
  <2>2. now' = now /\ due' = due /\ call.at = "none"
    BY <1>3 DEF CallStart
  <2>3. call'.at = "start" /\ call'.id = j /\ ~ HasTime'
    BY <2>1 DEF None, HasTime
  <2>4. ASSUME NEW i \in Timer, waited'[i] < period'[i] PROVE NotEarly(i)'
    <3>1. (i \in Armed)' => i # j /\ i \in Armed
      BY <2>1, <2>2, <2>3 DEF Armed, TypeOK
    <3>2. i # j => due'[i] = due[i] /\ period'[i] = period[i] /\ waited'[i] = waited[i]
      BY <2>1, <2>2 DEF TypeOK
    <3> QED
      BY <2>2, <2>3, <2>4, <3>1, <3>2, StaysInTime
  <2>5. \A i \in Timer : period'[i] \in Periods \cup {0}
    BY <2>1 DEF EarlyInv, TypeOK
  <2>6. state'[j] = "RUNNING"
    BY <2>1 DEF TypeOK
  <2> QED
    BY <2>3, <2>4, <2>5, <2>6 DEF EarlyInv
<1>4. CASE os_soft_timer_start
  <2>1. /\ call.at = "start" /\ HasTime /\ Arm(call.id) /\ call' = None
        /\ now' = now /\ state' = state /\ period' = period /\ waited' = waited
    BY <1>4 DEF os_soft_timer_start
  <2>2. call'.at = "none" /\ ~ HasTime' /\ call.id \in Timer
    BY <2>1 DEF None, HasTime, EarlyInv
  <2>3. ASSUME NEW i \in Timer, waited'[i] < period'[i] PROVE NotEarly(i)'
    <3>1. CASE i = call.id
      <4>1. Awaited(i)
        BY <2>1, <3>1 DEF Awaited
      <4>2. InTime(i)'
        BY <2>1, <2>3, <3>1, <4>1, ArmLeft
      <4>3. ~ Arming(i)'
        BY <2>2 DEF Arming
      <4> QED
        BY <2>1, <2>2, <4>2, <4>3 DEF NotEarly
    <3>2. CASE i # call.id
      <4>1. due'[i] = due[i] /\ ((i \in Armed)' => i \in Armed)
        BY <2>1, <3>2 DEF Arm, TypeOK, Armed
      <4> QED
        BY <2>1, <2>2, <2>3, <4>1, StaysInTime
    <3> QED
      BY <3>1, <3>2
  <2> QED
    BY <2>1, <2>2, <2>3 DEF EarlyInv
<1>5. CASE CallUpdate \/ UpdateStopped \/ UpdateEnds
  <2>1. /\ now' = now /\ state' = state /\ due' = due /\ period' = period
        /\ waited' = waited /\ call.at # "start"
    BY <1>5 DEF CallUpdate, UpdateStopped, UpdateEnds, Updates
  <2>2. call'.at # "start" /\ ~ HasTime'
    <3>1. CASE CallUpdate
      BY <3>1 DEF CallUpdate, None, HasTime
    <3>2. CASE UpdateStopped
      BY <3>2 DEF UpdateStopped, Updates, NextTimer, HasTime, TypeOK, Calls
    <3>3. CASE UpdateEnds
      BY <3>3 DEF UpdateEnds, None, HasTime
    <3> QED
      BY <1>5, <3>1, <3>2, <3>3
  <2>3. ASSUME NEW i \in Timer, waited'[i] < period'[i] PROVE NotEarly(i)'
    <3>1. (i \in Armed)' => i \in Armed
      BY <2>1 DEF Armed
    <3> QED
      BY <2>1, <2>2, <2>3, <3>1, StaysInTime
  <2> QED
    BY <2>1, <2>2, <2>3 DEF EarlyInv
<1>6. CASE UpdateRunning
  <2>1. /\ now' = now /\ due' = due /\ period' = period /\ call.at = "update"
        /\ call.id \in Timer /\ NextTimer
    BY <1>6 DEF UpdateRunning, Updates
  <2>2. call'.at = "update" /\ ~ HasTime'
    BY <2>1 DEF NextTimer, HasTime, TypeOK, Calls
  <2>3. ASSUME NEW i \in Timer, waited'[i] < period'[i] PROVE NotEarly(i)'
    <3>1. (i \in Armed)' => i \in Armed /\ waited'[i] = waited[i]
      <4>1. CASE ~ UNCHANGED <<state, fired, waited>>
        BY <1>6, <2>1, <4>1 DEF UpdateRunning, Armed, TypeOK
      <4>2. CASE UNCHANGED <<state, fired, waited>>
        BY <2>1, <2>2, <4>2 DEF Armed
      <4> QED
        BY <4>1, <4>2
    <3> QED
      BY <2>1, <2>2, <2>3, <3>1, StaysInTime
  <2> QED
    BY <2>1, <2>2, <2>3 DEF EarlyInv
<1>7. CASE UpdateTimeout
  <2>1. /\ now' = now /\ period' = period /\ call.at = "update"
        /\ call.id \in Timer /\ NextTimer /\ HasTime /\ state[call.id] = "TIMEOUT"
    BY <1>7 DEF UpdateTimeout, Updates
  <2>2. call'.at = "update" /\ ~ HasTime'
    BY <2>1 DEF NextTimer, HasTime, TypeOK, Calls
  <2>3. ASSUME NEW i \in Timer, waited'[i] < period'[i] PROVE NotEarly(i)'
    <3>1. CASE i = call.id /\ Again(i)
      <4>1. Arm(i) /\ waited' = waited
        BY <1>7, <3>1 DEF UpdateTimeout
      <4>2. Awaited(i)
        BY <2>1, <3>1 DEF Awaited, Arming
      <4>3. InTime(i)'
        BY <2>1, <2>3, <4>1, <4>2, ArmLeft
      <4>4. ~ Arming(i)'
        BY <2>2 DEF Arming
      <4> QED
        BY <2>1, <2>2, <4>1, <4>3, <4>4 DEF NotEarly, Awaited
    <3>2. CASE ~ (i = call.id /\ Again(i))
      <4>1. (i \in Armed)' => i \in Armed /\ due'[i] = due[i] /\ waited'[i] = waited[i]
        <5>1. CASE Again(call.id)
          BY <1>7, <2>1, <3>2, <5>1 DEF UpdateTimeout, Armed, Arm, TypeOK
        <5>2. CASE ~ Again(call.id)
          BY <1>7, <2>1, <5>2 DEF UpdateTimeout, Armed, TypeOK
        <5> QED
          BY <5>1, <5>2
      <4> QED
        BY <2>1, <2>2, <2>3, <4>1, StaysInTime
    <3> QED
      BY <3>1, <3>2
  <2> QED
    BY <2>1, <2>2, <2>3 DEF EarlyInv
<1>8. CASE os_soft_timer_stop
  <2>1. PICK j \in Timer : /\ state' = [state EXCEPT ![j] = "STOPPED"]
                           /\ waited' = [waited EXCEPT ![j] = 0]
    BY <1>8 DEF os_soft_timer_stop
  <2>2. /\ now' = now /\ due' = due /\ period' = period /\ call' = call
        /\ call.at = "none"
    BY <1>8 DEF os_soft_timer_stop
  <2>3. ASSUME NEW i \in Timer, waited'[i] < period'[i] PROVE NotEarly(i)'
    <3>1. (i \in Armed)' => i \in Armed /\ waited'[i] = waited[i]
      BY <2>1, <2>2 DEF Armed, TypeOK
    <3>2. i \in Armed => NotEarly(i) \/ ~ (waited[i] < period[i])
      BY DEF EarlyInv
    <3>3. ~ Awaited(i)' /\ call'.at # "update"
      BY <2>2 DEF Awaited, Arming
    <3>4. waited'[i] = waited[i] => (InTime(i)' <=> InTime(i))
      BY <2>2 DEF InTime, Worst, Congruent
    <3> QED
      BY <2>2, <2>3, <3>1, <3>2, <3>3, <3>4 DEF NotEarly
  <2> QED
    BY <2>2, <2>3 DEF EarlyInv, HasTime
<1>9. CASE UNCHANGED vars
  BY <1>9 DEF vars, EarlyInv, NotEarly, HasTime, Awaited, Arming, Armed, InTime,
     Worst, Congruent
<1> QED
  BY <1>1, <1>2, <1>3, <1>4, <1>5, <1>6, <1>7, <1>8, <1>9 DEF Next, Call, Step

\* A step in which a timer fires comes in time.
LEMMA FiringInTime ==
  ASSUME TypeOK, EarlyInv, [Next]_vars, NEW i \in Timer, fired'[i] > fired[i]
  PROVE  period[i] <= waited[i] + Tick + 2 * Worst(i)
<1> USE DEF timers
<1>0. fired[i] \in 0..2
  BY DEF TypeOK
<1>1. CASE UpdateRunning
  <2>1. Updates("RUNNING") /\ HasTime
    BY <1>1 DEF UpdateRunning
  <2>2. PICK t \in soft_timer_get_time : Fires(i, t) /\ i = call.id
    <3>1. CASE fired' = fired
      BY <1>0, <3>1
    <3>2. CASE fired' # fired
      BY <1>0, <1>1, <2>1, <3>2 DEF UpdateRunning, TypeOK, Updates
    <3> QED
      BY <3>1, <3>2
  <2> QED
    BY <2>1, <2>2, FiresInTime DEF Updates
<1>2. CASE CallStart
  <2>1. PICK j \in Timer : fired' = [fired EXCEPT ![j] = 0]
    BY <1>2 DEF CallStart
  <2> QED
    BY <1>0, <2>1 DEF TypeOK
<1>3. CASE \/ Pass \/ ReadCounter \/ os_soft_timer_start \/ CallUpdate \/ UpdateTimeout
           \/ UpdateStopped \/ UpdateEnds \/ os_soft_timer_stop \/ UNCHANGED vars
  <2>1. fired' = fired
    BY <1>3 DEF Pass, ReadCounter, os_soft_timer_start, CallUpdate, UpdateStopped,
                UpdateEnds, UpdateTimeout, os_soft_timer_stop, vars
  <2> QED
    BY <1>0, <2>1
<1> QED
  BY <1>1, <1>2, <1>3 DEF Next, Call, Step

-----------------------------------------------------------------------------
\* The timers keep their types, and all times stay within the range of the clock,
\* whatever the application starts, polls and stops.
THEOREM TypeCorrect == Spec => []TypeOK
<1>1. Init => TypeOK
  BY InitTyped
<1> QED
  BY <1>1, NextTyped, PTL DEF Spec

\* os_soft_timer_update calls the callback of a one-shot timer once for every start.
THEOREM OneShotFiresOnce == Spec => []OneShotOnce
<1>1. OneShotInv => OneShotOnce
  BY DEF OneShotInv, OneShotOnce
<1>2. Init => OneShotInv
  BY InitTyped
<1> QED
  BY <1>1, <1>2, NextOneShot, TypeCorrect, PTL DEF Spec

\* A timer does not fire before its period is over, save by the tick by which
\* soft_timer_get_time is ahead when a SysTick comes between its two readings and by
\* the error of its float in the times of arming and of firing, which grows with the
\* uptime; although the clock wraps around and whenever the application polls.
THEOREM NoTimerEarly == Spec => FiresNotEarly
<1>1. TypeOK /\ TypeOK' /\ EarlyInv /\ [Next]_vars => EarlyInv'
  BY NextEarly
<1>2. Spec => []EarlyInv
  BY InitEarly, <1>1, TypeCorrect, PTL DEF Spec
<1>3. TypeOK /\ EarlyInv /\ [Next]_vars =>
        [\A i \in Timer :
           fired'[i] > fired[i] => period[i] <= waited[i] + Tick + 2 * Worst(i)]_vars
  BY FiringInTime
<1> QED
  BY <1>2, <1>3, TypeCorrect, PTL DEF Spec, FiresNotEarly

-----------------------------------------------------------------------------
(* The shell.                                                              *)

Texts == Seq(Chars)

\* A line whose characters are those on the screen: the rest of the buffer is
\* cleared, and there is room for the end of the string.
Clean(l) ==
  /\ l \in Line /\ l.size < BufSize
  /\ \A i \in 1..BufSize : l.data[i] = Nul <=> i > l.size

CleanInv ==
  /\ Clean(input) /\ Clean(cache) /\ Clean(line)
  /\ \A i \in 1..Len(queue) : Clean(queue[i])
  /\ \A i \in 1..Len(history) : Clean(history[i])

\* The lines entered are, in this order, the one that the task is about to run,
\* those in the queue and the one that has been posted.
Running == IF task = "exec" THEN 1 ELSE 0
OrderInv ==
  /\ posts <= 1 /\ (posts = 1 => Len(queue) < QueueCap)
  /\ Len(entered) = Running + Len(queue) + posts
  /\ task = "exec" => entered[1] = Text(line)
  /\ \A i \in 1..Len(queue) : entered[Running + i] = Text(queue[i])
  /\ posts = 1 => entered[Len(entered)] = Text(cache)

\* The commands kept are the lines of the history, once the line that the task
\* is adding is in its place.
Matches(lines, texts) ==
  Len(texts) = Len(lines) /\ \A i \in 1..Len(lines) : texts[i] = Text(lines[i])
KeptInv ==
  /\ task \in {"receive", "exec"} => Matches(history, kept)
  /\ task = "full" => Len(history) = ListCap /\ Matches(Append(Tail(history), line), kept)
  /\ task = "add" => Len(history) < ListCap /\ Matches(Append(history, line), kept)

\* Only while the task adds a line the pointer may be to a node that is gone.
TailInv == task \in {"receive", "exec"} => tail \in 0..Len(history)

ShellInv == ShellTypeOK /\ CleanInv /\ OrderInv /\ KeptInv /\ TailInv

-----------------------------------------------------------------------------
(* Lines and texts.                                                        *)

LEMMA ShellFacts ==
  /\ BufSize \in Nat \ {0} /\ ArgMax \in Nat \ {0} /\ ListCap \in Nat \ {0}
  /\ QueueCap \in Nat \ {0} /\ Nul \notin Chars /\ Freed \notin Nat
BY ShellAssumption

LEMMA LineFacts ==
  ASSUME NEW l, Clean(l)
  PROVE  /\ l \in Line /\ l.size \in 0..(BufSize - 1)
         /\ l.data \in [1..BufSize -> Chars \cup {Nul}]
         /\ \A i \in 1..l.size : l.data[i] \in Chars /\ l.data[i] # Nul
         /\ l = [data |-> l.data, size |-> l.size]
<1>1. l \in Line /\ l.size < BufSize /\ \A i \in 1..BufSize : l.data[i] = Nul <=> i > l.size
  BY DEF Clean
<1>2. l.size \in 0..BufSize /\ l.data \in [1..BufSize -> Chars \cup {Nul}]
  BY <1>1 DEF Line
<1>3. l = [data |-> l.data, size |-> l.size]
  BY <1>1 DEF Line
<1>4. ASSUME NEW i \in 1..l.size
      PROVE  l.data[i] \in Chars /\ l.data[i] # Nul
  <2>1. i \in 1..BufSize /\ ~ (i > l.size)
    BY <1>2, ShellFacts
  <2>2. QED
    BY <1>1, <1>2, <2>1
<1>5. QED
  BY <1>1, <1>2, <1>3, <1>4, ShellFacts

LEMMA TextFacts ==
  ASSUME NEW l, Clean(l)
  PROVE  /\ Text(l) \in Texts /\ Len(Text(l)) = l.size
         /\ Text(l) = [i \in 1..l.size |-> l.data[i]]
         /\ \A i \in 1..l.size : Text(l)[i] = l.data[i]
<1>1. Text(l) = [i \in 1..l.size |-> l.data[i]]
  BY DEF Text
<1>2. l.size \in Nat /\ \A i \in 1..l.size : l.data[i] \in Chars
  BY LineFacts, ShellFacts
<1>3. Text(l) \in [1..l.size -> Chars]
  BY <1>1, <1>2
<1>4. Text(l) \in Texts
  BY <1>2, <1>3, SeqDef DEF Texts
<1>5. DOMAIN Text(l) = 1..Len(Text(l)) /\ Len(Text(l)) \in Nat
  BY <1>4, LenProperties DEF Texts
<1>6. DOMAIN Text(l) = 1..l.size
  BY <1>1
<1>7. Len(Text(l)) = l.size
  BY <1>2, <1>5, <1>6
<1>8. QED
  BY <1>1, <1>4, <1>7

\* Cutting a line into words and putting the blanks back leaves it as it was.
LEMMA RestoredIsSame == ASSUME NEW l, Clean(l) PROVE Restored(l) = l
<1> DEFINE new == [i \in 1..BufSize |->
             IF Leading(l.data) < i /\ i <= l.size /\ Cut(l)[i] = Nul THEN Blank ELSE Cut(l)[i]]
<1>1. l.data \in [1..BufSize -> Chars \cup {Nul}] /\ l = [data |-> l.data, size |-> l.size]
  BY LineFacts
<1>2. ASSUME NEW i \in 1..BufSize PROVE new[i] = l.data[i]
  <2>1. Cut(l)[i] = IF Leading(l.data) < i /\ i <= l.size /\ l.data[i] = Blank THEN Nul
                    ELSE l.data[i]
    BY DEF Cut
  <2>2. i <= l.size => l.data[i] # Nul
    BY LineFacts
  <2>3. QED
    BY <2>1, <2>2
<1>3. new = l.data
  BY <1>1, <1>2
<1>4. Restored(l) = [l EXCEPT !.data = new]
  BY DEF Restored
<1>5. QED
  BY <1>1, <1>3, <1>4

LEMMA EmptyIsClean == Clean(EmptyLine) /\ [EmptyLine EXCEPT !.size = 0] = EmptyLine
BY ShellFacts DEF Clean, EmptyLine, Line

\* The line without its last character.
LEMMA DeletedIsClean ==
  ASSUME NEW l, Clean(l), l.size > 0
  PROVE  Clean([data |-> [l.data EXCEPT ![l.size] = Nul], size |-> l.size - 1])
<1>1. /\ l.size \in 1..(BufSize - 1) /\ l.data \in [1..BufSize -> Chars \cup {Nul}]
      /\ \A i \in 1..BufSize : l.data[i] = Nul <=> i > l.size
  BY LineFacts, ShellFacts DEF Clean
<1> DEFINE d == [l.data EXCEPT ![l.size] = Nul]
<1>2. d \in [1..BufSize -> Chars \cup {Nul}] /\ l.size - 1 \in 0..BufSize /\ l.size - 1 < BufSize
  BY <1>1, ShellFacts
<1>3. \A i \in 1..BufSize : d[i] = Nul <=> i > l.size - 1
  BY <1>1, ShellFacts
<1> HIDE DEF d
<1>4. [data |-> d, size |-> l.size - 1] \in Line
  BY <1>2 DEF Line
<1>5. Clean([data |-> d, size |-> l.size - 1])
  BY <1>2, <1>3, <1>4 DEF Clean
<1>6. QED
  BY <1>5 DEF d

\* The line with one more character, where there is room for it.
LEMMA TypedIsClean ==
  ASSUME NEW l, Clean(l), NEW c \in Chars, l.size + 1 < BufSize
  PROVE  Clean([data |-> [l.data EXCEPT ![l.size + 1] = c], size |-> l.size + 1])
<1>1. /\ l.size \in 0..(BufSize - 1) /\ l.data \in [1..BufSize -> Chars \cup {Nul}]
      /\ \A i \in 1..BufSize : l.data[i] = Nul <=> i > l.size
  BY LineFacts, ShellFacts DEF Clean
<1> DEFINE d == [l.data EXCEPT ![l.size + 1] = c]
<1>2. d \in [1..BufSize -> Chars \cup {Nul}] /\ l.size + 1 \in 0..BufSize
  BY <1>1, ShellFacts
<1>3. \A i \in 1..BufSize : d[i] = Nul <=> i > l.size + 1
  <2>1. c # Nul
    BY ShellFacts
  <2>2. QED
    BY <1>1, <2>1, ShellFacts
<1> HIDE DEF d
<1>4. [data |-> d, size |-> l.size + 1] \in Line
  BY <1>2 DEF Line
<1>5. Clean([data |-> d, size |-> l.size + 1])
  BY <1>2, <1>3, <1>4 DEF Clean
<1>6. QED
  BY <1>5 DEF d

\* What the user types fits.
LEMMA TypingFits ==
  ASSUME NEW l, Clean(l), NEW c \in Chars, NEW m \in Lines, IsPrefix(Append(Text(l), c), m)
  PROVE  l.size + 1 < BufSize
<1>1. Len(m) \in Nat /\ Len(m) < BufSize
  BY ShellAssumption, LenProperties
<1>2. Len(Append(Text(l), c)) = l.size + 1
  BY TextFacts, AppendProperties DEF Texts
<1>3. Len(Append(Text(l), c)) <= Len(m)
  BY DEF IsPrefix
<1>4. l.size \in Nat
  BY LineFacts, ShellFacts
<1>5. QED
  BY <1>1, <1>2, <1>3, <1>4, ShellFacts

-----------------------------------------------------------------------------
(* Sequences of lines and of texts.                                        *)

LEMMA LastOnesFacts ==
  ASSUME NEW s \in Seq(Texts)
  PROVE  /\ LastOnes(s) \in Seq(Texts)
         /\ Len(LastOnes(s)) = IF Len(s) > ListCap THEN ListCap ELSE Len(s)
         /\ \A i \in 1..Len(LastOnes(s)) :
              LastOnes(s)[i] = s[i + Len(s) - Len(LastOnes(s))]
<1> DEFINE m == IF Len(s) > ListCap THEN Len(s) - ListCap + 1 ELSE 1
<1>1. Len(s) \in Nat /\ m \in 1..(Len(s) + 1) /\ Len(s) \in Int /\ m \in Int
  BY LenProperties, ShellFacts
<1>2. \A i \in m..Len(s) : s[i] \in Texts
  BY <1>1, LenProperties
<1>3. LastOnes(s) = SubSeq(s, m, Len(s))
  BY DEF LastOnes
<1>4. m <= Len(s) + 1 /\ Len(s) - m + 1 = IF Len(s) > ListCap THEN ListCap ELSE Len(s)
  BY <1>1, ShellFacts
<1> HIDE DEF m
<1>5. /\ LastOnes(s) \in Seq(Texts)
      /\ Len(LastOnes(s)) = IF m <= Len(s) THEN Len(s) - m + 1 ELSE 0
      /\ \A i \in 1..(Len(s) - m + 1) : LastOnes(s)[i] = s[m + i - 1]
  BY <1>1, <1>2, <1>3, SubSeqProperties
<1>6. Len(LastOnes(s)) = Len(s) - m + 1
  BY <1>1, <1>4, <1>5
<1>7. \A i \in 1..Len(LastOnes(s)) : LastOnes(s)[i] = s[i + Len(s) - Len(LastOnes(s))]
  <2> TAKE i \in 1..Len(LastOnes(s))
  <2>1. i \in 1..(Len(s) - m + 1) /\ m + i - 1 = i + Len(s) - (Len(s) - m + 1)
    BY <1>1, <1>6
  <2>2. QED
    BY <1>5, <1>6, <2>1
<1>8. QED
  BY <1>4, <1>5, <1>6, <1>7

LEMMA MatchesAppend ==
  ASSUME NEW h \in Seq(Line), NEW k \in Seq(Texts), Matches(h, k), NEW l, Clean(l)
  PROVE  Matches(Append(h, l), Append(k, Text(l)))
<1>1. l \in Line /\ Text(l) \in Texts /\ Len(h) \in Nat
  BY LineFacts, TextFacts, LenProperties
<1>2. /\ Len(Append(h, l)) = Len(h) + 1 /\ Append(h, l)[Len(h) + 1] = l
      /\ \A i \in 1..Len(h) : Append(h, l)[i] = h[i]
  BY <1>1, AppendProperties
<1>3. /\ Len(Append(k, Text(l))) = Len(h) + 1 /\ Append(k, Text(l))[Len(h) + 1] = Text(l)
      /\ \A i \in 1..Len(h) : Append(k, Text(l))[i] = k[i]
  BY <1>1, AppendProperties DEF Matches
<1>4. \A i \in 1..(Len(h) + 1) : i \in 1..Len(h) \/ i = Len(h) + 1
  BY <1>1
<1>5. QED
  BY <1>1, <1>2, <1>3, <1>4 DEF Matches

\* A list that is full loses its first line, and the texts are as many.
LEMMA MatchesFull ==
  ASSUME NEW h \in Seq(Line), NEW k \in Seq(Texts), Matches(h, k), NEW l, Clean(l),
         Len(h) = ListCap
  PROVE  Matches(Append(Tail(h), l), LastOnes(Append(k, Text(l))))
<1> DEFINE s == Append(k, Text(l))
           t == Append(h, l)
           u == Append(Tail(h), l)
<1>1. l \in Line /\ Text(l) \in Texts /\ Len(h) \in Nat \ {0}
  BY LineFacts, TextFacts, ShellFacts
<1>2. Matches(t, s)
  BY MatchesAppend
<1>3. h # <<>>
  BY <1>1, EmptySeq
<1>4. /\ Tail(h) \in Seq(Line) /\ Len(Tail(h)) = Len(h) - 1
      /\ \A i \in 1..(Len(h) - 1) : Tail(h)[i] = h[i + 1]
  BY <1>3, HeadTailProperties
<1>5. /\ t \in Seq(Line) /\ Len(t) = Len(h) + 1 /\ t[Len(h) + 1] = l
      /\ \A i \in 1..Len(h) : t[i] = h[i]
  BY <1>1, AppendProperties
<1>6. /\ u \in Seq(Line) /\ Len(u) = Len(h) /\ u[Len(h)] = l
      /\ \A i \in 1..(Len(h) - 1) : u[i] = Tail(h)[i]
  <2>1. Len(Tail(h)) + 1 = Len(h)
    BY <1>1, <1>4
  <2>2. QED
    BY <1>1, <1>4, <2>1, AppendProperties
<1>7. s \in Seq(Texts) /\ Len(s) = Len(h) + 1
  BY <1>1, AppendProperties DEF Matches
<1> HIDE DEF s, t, u
<1>8. /\ Len(LastOnes(s)) = ListCap
      /\ \A i \in 1..ListCap : LastOnes(s)[i] = s[i + Len(s) - ListCap]
  <2>1. Len(s) > ListCap
    BY <1>1, <1>7
  <2>2. QED
    BY <1>7, <2>1, LastOnesFacts
<1>9. ASSUME NEW i \in 1..Len(u)
      PROVE  LastOnes(s)[i] = Text(u[i])
  <2>1. i \in 1..ListCap /\ i + Len(s) - ListCap = i + 1 /\ i + 1 \in 1..Len(t)
    BY <1>1, <1>5, <1>6, <1>7
  <2>2. u[i] = t[i + 1]
    <3>1. CASE i = Len(h)
      BY <1>5, <1>6, <3>1
    <3>2. CASE i \in 1..(Len(h) - 1)
      <4>1. i + 1 \in 1..Len(h)
        BY <1>1, <3>2
      <4>2. QED
        BY <1>4, <1>5, <1>6, <3>2, <4>1
    <3>3. QED
      BY <1>1, <1>6, <3>1, <3>2
  <2>3. QED
    BY <1>2, <1>8, <2>1, <2>2 DEF Matches
<1>10. Matches(u, LastOnes(s))
  BY <1>6, <1>8, <1>9 DEF Matches
<1>11. QED
  BY <1>10 DEF s, u

\* A list that is not full gets one line more, and the texts one text.
LEMMA MatchesMore ==
  ASSUME NEW h \in Seq(Line), NEW k \in Seq(Texts), Matches(h, k), NEW l, Clean(l),
         Len(h) < ListCap
  PROVE  Matches(Append(h, l), LastOnes(Append(k, Text(l))))
<1> DEFINE s == Append(k, Text(l))
<1>1. Matches(Append(h, l), s)
  BY MatchesAppend
<1>2. s \in Seq(Texts) /\ Len(s) = Len(h) + 1 /\ Len(h) \in Nat
  BY TextFacts, AppendProperties, LenProperties DEF Matches
<1> HIDE DEF s
<1>3. ~ (Len(s) > ListCap)
  BY <1>2, ShellFacts
<1>4. LastOnes(s) = s
  BY <1>2, <1>3, SubSeqFull DEF LastOnes
<1>5. QED
  BY <1>1, <1>4 DEF s

-----------------------------------------------------------------------------
(* Every step keeps the invariant, of a user who is patient.               *)

LEMMA ShellInvInit == ShellInit => ShellInv
<1> SUFFICES ASSUME ShellInit PROVE ShellInv
  OBVIOUS
<1>1. Clean(EmptyLine) /\ EmptyLine \in Line
  BY EmptyIsClean, LineFacts
<1>2. ShellTypeOK
  BY <1>1, ShellFacts DEF ShellInit, ShellTypeOK
<1>3. CleanInv
  BY <1>1 DEF ShellInit, CleanInv
<1>4. OrderInv
  BY DEF ShellInit, OrderInv, Running
<1>5. KeptInv /\ TailInv
  BY DEF ShellInit, KeptInv, TailInv, Matches
<1>6. QED
  BY <1>2, <1>3, <1>4, <1>5 DEF ShellInv

LEMMA TypeFacts ==
  ASSUME ShellInv
  PROVE  /\ history \in Seq(Line) /\ queue \in Seq(Line) /\ kept \in Seq(Texts)
         /\ entered \in Seq(Texts) /\ posts \in 0..1
         /\ Len(history) \in 0..ListCap /\ Len(queue) \in 0..QueueCap
         /\ Len(entered) \in Nat
<1>1. ShellTypeOK /\ posts <= 1
  BY DEF ShellInv, OrderInv
<1>2. QED
  BY <1>1, LenProperties, ShellFacts DEF ShellTypeOK, Texts

\* What an arrow finds beside a node of the list that exists.
LEMMA ListFacts ==
  ASSUME ShellInv, tail \in 0..Len(history)
  PROVE  /\ tail # Freed /\ Beside(tail, -1) = tail - 1 /\ Beside(tail, 1) = tail + 1
         /\ \A i \in 1..Len(history) : LineAt(i) = history[i]
<1>1. tail # Freed /\ Len(history) \in Nat
  BY TypeFacts, ShellAssumption
<1>2. tail + (-1) = tail - 1
  BY <1>1
<1>3. DOMAIN history = 1..Len(history)
  BY TypeFacts, LenProperties
<1> QED
  BY <1>1, <1>2, <1>3 DEF Beside, LineAt

\* The keys that change the line that is being edited and nothing that the rest
\* of the shell knows.
LEMMA EditKeeps ==
  ASSUME ShellInv, Clean(input'), keys' \in Seq({"ESC", "[", "A", "B", "C"}),
         tail' \in 0..ListCap \cup {Freed},
         task \in {"receive", "exec"} => tail' \in 0..Len(history),
         UNCHANGED <<cache, posts, queue, taskVars, entered>>
  PROVE  ShellInv'
<1>1. input' \in Line
  BY LineFacts
<1>2. ShellTypeOK'
  BY <1>1 DEF ShellInv, ShellTypeOK, taskVars
<1>3. CleanInv'
  BY DEF ShellInv, CleanInv, taskVars
<1>4. OrderInv'
  BY DEF ShellInv, OrderInv, Running, taskVars
<1>5. KeptInv' /\ TailInv'
  BY DEF ShellInv, KeptInv, TailInv, taskVars
<1>6. QED
  BY <1>2, <1>3, <1>4, <1>5 DEF ShellInv

LEMMA KeyKeeps ==
  ASSUME Patient, ShellInv, Escape \/ Bracket \/ ArrowUp \/ ArrowDown \/ ArrowAside
                            \/ Delete \/ Type
  PROVE  ShellInv'
<1> DEFINE Keys == {"ESC", "[", "A", "B", "C"}
<1>1. /\ Clean(input) /\ tail \in 0..ListCap \cup {Freed}
      /\ task \in {"receive", "exec"} => tail \in 0..Len(history)
      /\ \A i \in 1..Len(history) : Clean(history[i])
  BY DEF ShellInv, CleanInv, ShellTypeOK, TailInv
<1>2. <<>> \in Seq(Keys) /\ <<"ESC">> \in Seq(Keys) /\ <<"ESC", "[">> \in Seq(Keys)
  OBVIOUS
<1> HIDE DEF Keys
<1>3. CASE Escape
  <2>1. Clean(input') /\ keys' \in Seq(Keys) /\ tail' = tail
    BY <1>1, <1>2, <1>3 DEF Escape
  <2>2. QED
    BY <1>1, <1>3, <2>1, EditKeeps DEF Escape, Keys
<1>4. CASE Bracket
  <2>1. Clean(input') /\ keys' \in Seq(Keys) /\ tail' = tail
    BY <1>1, <1>2, <1>4 DEF Bracket
  <2>2. QED
    BY <1>1, <1>4, <2>1, EditKeeps DEF Bracket, Keys
<1>5. CASE ArrowUp
  <2>1. task \in {"receive", "exec"} /\ (input = EmptyLine \/ tail # 0)
    BY <1>5 DEF ArrowUp, ArrowsAllowed, Recalls, BetweenCommands
  <2>2. tail \in 0..Len(history) /\ Len(history) \in 0..ListCap
    BY <1>1, <2>1, TypeFacts
  <2>3. CASE tail = 0
    <3>1. input' = EmptyLine /\ tail' = tail
      BY <1>5, <2>1, <2>3, EmptyIsClean DEF ArrowUp, os_fish_clear_input_buffer
    <3>2. Clean(input') /\ keys' \in Seq(Keys)
      BY <1>2, <1>5, <3>1, EmptyIsClean DEF ArrowUp
    <3>3. QED
      BY <1>1, <1>5, <3>1, <3>2, EditKeeps DEF ArrowUp, Keys
  <2>4. CASE tail # 0
    <3>1. input' = history[tail] /\ tail' = tail - 1
      BY <1>5, <2>2, <2>4, ListFacts DEF ArrowUp
    <3>2. Clean(input') /\ keys' \in Seq(Keys) /\ tail' \in 0..Len(history)
      BY <1>1, <1>2, <1>5, <2>2, <2>4, <3>1 DEF ArrowUp
    <3>3. tail' \in 0..ListCap
      BY <2>2, <3>2, ShellFacts
    <3>4. QED
      BY <1>5, <3>2, <3>3, EditKeeps DEF ArrowUp, Keys
  <2>5. QED
    BY <2>3, <2>4
<1>6. CASE ArrowDown
  <2>1. task \in {"receive", "exec"} /\ (input = EmptyLine \/ tail # Len(history))
    BY <1>6 DEF ArrowDown, ArrowsAllowed, Recalls, BetweenCommands
  <2>2. tail \in 0..Len(history) /\ Len(history) \in 0..ListCap
    BY <1>1, <2>1, TypeFacts
  <2>3. CASE tail = Len(history)
    <3>1. input' = EmptyLine /\ tail' = tail
      BY <1>6, <2>1, <2>2, <2>3, EmptyIsClean DEF ArrowDown, os_fish_clear_input_buffer
    <3>2. Clean(input') /\ keys' \in Seq(Keys)
      BY <1>2, <1>6, <3>1, EmptyIsClean DEF ArrowDown
    <3>3. QED
      BY <1>1, <1>6, <3>1, <3>2, EditKeeps DEF ArrowDown, Keys
  <2>4. CASE tail # Len(history)
    <3>1. input' = history[tail + 1] /\ tail' = tail + 1
      BY <1>6, <2>2, <2>4, ListFacts DEF ArrowDown
    <3>2. tail + 1 \in 1..Len(history)
      BY <2>2, <2>4
    <3>3. Clean(input') /\ keys' \in Seq(Keys) /\ tail' \in 0..Len(history)
      BY <1>1, <1>2, <1>6, <2>2, <3>1, <3>2 DEF ArrowDown
    <3>4. tail' \in 0..ListCap
      BY <2>2, <3>3, ShellFacts
    <3>5. QED
      BY <1>6, <3>3, <3>4, EditKeeps DEF ArrowDown, Keys
  <2>5. QED
    BY <2>3, <2>4
<1>7. CASE ArrowAside
  <2>1. input = EmptyLine
    BY <1>7 DEF ArrowAside, ArrowsAllowed, Recalls
  <2>2. Clean(input') /\ keys' \in Seq(Keys) /\ tail' = tail
    BY <1>2, <1>7, <2>1, EmptyIsClean DEF ArrowAside, os_fish_clear_input_buffer
  <2>3. QED
    BY <1>1, <1>7, <2>2, EditKeeps DEF ArrowAside, Keys
<1>8. CASE Delete
  <2>1. Clean(input')
    BY <1>1, <1>8, DeletedIsClean DEF Delete
  <2>2. keys' \in Seq(Keys) /\ tail' = tail
    BY <1>2, <1>8 DEF Delete
  <2>3. QED
    BY <1>1, <1>8, <2>1, <2>2, EditKeeps DEF Delete, Keys
<1>9. CASE Type
  <2>1. PICK c \in Chars :
          /\ \E l \in Lines : IsPrefix(Append(Text(input), c), l)
          /\ input' = [data |-> [input.data EXCEPT ![input.size + 1] = c],
                       size |-> input.size + 1]
    BY <1>9 DEF Type
  <2>2. input.size + 1 < BufSize
    BY <1>1, <2>1, TypingFits
  <2>3. Clean(input')
    BY <1>1, <2>1, <2>2, TypedIsClean
  <2>4. keys' \in Seq(Keys) /\ tail' = tail
    BY <1>2, <1>9 DEF Type
  <2>5. QED
    BY <1>1, <1>9, <2>3, <2>4, EditKeeps DEF Type, Keys
<1>10. QED
  BY <1>3, <1>4, <1>5, <1>6, <1>7, <1>8, <1>9

\* The line that is entered is posted; the user waited until the last one had
\* been published and the queue had room.
LEMMA EnterKeeps == ASSUME Patient, ShellInv, Enter PROVE ShellInv'
<1>1. Clean(input) /\ posts = 0 /\ Len(queue) < QueueCap
  BY DEF ShellInv, CleanInv, Enter, EnterAllowed
<1>2. /\ cache' = input /\ input' = EmptyLine /\ posts' = 1 /\ keys' = <<>>
      /\ entered' = Append(entered, Text(input)) /\ queue' = queue
      /\ UNCHANGED <<task, line, history, kept, tail>>
  BY <1>1 DEF Enter, AfterEnter, taskVars
<1>3. /\ Text(input) \in Texts /\ entered \in Seq(Texts) /\ input \in Line
      /\ Clean(EmptyLine) /\ EmptyLine \in Line
  BY <1>1, TextFacts, TypeFacts, EmptyIsClean, LineFacts
<1>4. /\ entered' \in Seq(Texts) /\ Len(entered') = Len(entered) + 1
      /\ entered'[Len(entered) + 1] = Text(input)
      /\ \A i \in 1..Len(entered) : entered'[i] = entered[i]
  BY <1>2, <1>3, AppendProperties
<1>5. ShellTypeOK'
  BY <1>2, <1>3, <1>4 DEF ShellInv, ShellTypeOK, Texts
<1>6. CleanInv'
  BY <1>1, <1>2, <1>3 DEF ShellInv, CleanInv
<1>7. OrderInv'
  <2>1. Running' = Running /\ Running \in 0..1 /\ Len(queue) \in Nat /\ Len(entered) \in Nat
    BY <1>2, TypeFacts, ShellFacts DEF Running
  <2>2. /\ Len(entered) = Running + Len(queue)
        /\ task = "exec" => entered[1] = Text(line)
        /\ \A i \in 1..Len(queue) : entered[Running + i] = Text(queue[i])
    BY <1>1, <2>1 DEF ShellInv, OrderInv
  <2>3. Len(entered') = Running + Len(queue) + 1
    BY <1>4, <2>2
  <2>4. \A i \in 1..Len(queue) : entered'[Running + i] = Text(queue[i])
    BY <1>4, <2>1, <2>2
  <2>5. task = "exec" => entered'[1] = Text(line)
    BY <1>4, <2>1, <2>2 DEF Running
  <2>6. entered'[Len(entered')] = Text(cache')
    BY <1>2, <1>4
  <2>7. QED
    BY <1>1, <1>2, <2>1, <2>3, <2>4, <2>5, <2>6 DEF OrderInv, Text
<1>8. KeptInv' /\ TailInv'
  BY <1>2 DEF ShellInv, KeptInv, TailInv
<1>9. QED
  BY <1>5, <1>6, <1>7, <1>8 DEF ShellInv

\* What is read when a line is published is still the line that was posted.
LEMMA PublishKeeps == ASSUME ShellInv, Publish PROVE ShellInv'
<1>1. posts = 1 /\ Len(queue) < QueueCap /\ Clean(cache) /\ queue \in Seq(Line)
  BY TypeFacts DEF ShellInv, CleanInv, OrderInv, Publish
<1>2. /\ posts' = 0 /\ queue' = Append(queue, cache)
      /\ UNCHANGED <<input, cache, keys, task, line, history, kept, tail, entered>>
  BY <1>1 DEF Publish, isrVars, taskVars
<1>3. /\ queue' \in Seq(Line) /\ Len(queue') = Len(queue) + 1
      /\ queue'[Len(queue) + 1] = cache /\ \A i \in 1..Len(queue) : queue'[i] = queue[i]
  BY <1>1, <1>2, LineFacts, AppendProperties
<1>4. Len(queue) \in Nat /\ \A i \in 1..(Len(queue) + 1) : i \in 1..Len(queue) \/ i = Len(queue) + 1
  BY TypeFacts, ShellFacts
<1>5. ShellTypeOK'
  BY <1>1, <1>2, <1>3, <1>4, ShellFacts DEF ShellInv, ShellTypeOK
<1>6. CleanInv'
  BY <1>1, <1>2, <1>3, <1>4 DEF ShellInv, CleanInv
<1>7. OrderInv'
  <2>1. Running' = Running /\ Running \in 0..1 /\ Len(entered) = Running + Len(queue) + 1
    BY <1>1, <1>2 DEF Running, ShellInv, OrderInv
  <2>2. \A i \in 1..Len(queue') : entered'[Running + i] = Text(queue'[i])
    <3>1. \A i \in 1..Len(queue) : entered[Running + i] = Text(queue[i])
      BY DEF ShellInv, OrderInv
    <3>2. entered[Running + (Len(queue) + 1)] = Text(cache)
      <4>1. entered[Len(entered)] = Text(cache)
        BY <1>1 DEF ShellInv, OrderInv
      <4>2. Len(entered) = Running + (Len(queue) + 1)
        BY <1>4, <2>1
      <4>3. QED
        BY <4>1, <4>2
    <3>3. QED
      BY <1>2, <1>3, <1>4, <3>1, <3>2
  <2>3. Len(entered') = Running + Len(queue') + 0
    BY <1>2, <1>3, <1>4, <2>1
  <2>4. task' = "exec" => entered'[1] = Text(line')
    BY <1>2 DEF ShellInv, OrderInv
  <2>5. QED
    BY <1>2, <2>1, <2>2, <2>3, <2>4 DEF OrderInv, Text
<1>8. KeptInv' /\ TailInv'
  BY <1>2 DEF ShellInv, KeptInv, TailInv
<1>9. QED
  BY <1>5, <1>6, <1>7, <1>8 DEF ShellInv

LEMMA ReceiveKeeps == ASSUME ShellInv, Receive PROVE ShellInv'
<1>1. /\ task = "receive" /\ queue # <<>> /\ queue \in Seq(Line)
      /\ line' = Head(queue) /\ queue' = Tail(queue) /\ task' = "exec"
      /\ UNCHANGED <<input, cache, keys, posts, history, kept, tail, entered>>
  BY TypeFacts DEF Receive, isrVars
<1>2. Len(queue) \in Nat \ {0} /\ Head(queue) = queue[1]
  BY <1>1, EmptySeq
<1>3. /\ queue' \in Seq(Line) /\ Len(queue') = Len(queue) - 1
      /\ \A i \in 1..Len(queue') : queue'[i] = queue[i + 1]
  BY <1>1, HeadTailProperties
<1>4. Clean(line') /\ line' \in Line
  <2>1. Clean(queue[1])
    BY <1>2 DEF ShellInv, CleanInv
  <2>2. QED
    BY <1>1, <1>2, <2>1, LineFacts
<1>5. ShellTypeOK'
  <2>1. Len(queue') <= QueueCap
    BY <1>2, <1>3, TypeFacts, ShellFacts
  <2>2. QED
    BY <1>1, <1>3, <1>4, <2>1 DEF ShellInv, ShellTypeOK
<1>6. CleanInv'
  <2>1. \A i \in 1..Len(queue') : Clean(queue'[i])
    <3> TAKE i \in 1..Len(queue')
    <3>1. i + 1 \in 1..Len(queue)
      BY <1>2, <1>3
    <3>2. QED
      BY <1>3, <3>1 DEF ShellInv, CleanInv
  <2>2. QED
    BY <1>1, <1>4, <2>1 DEF ShellInv, CleanInv
<1>7. OrderInv'
  <2>1. Running = 0 /\ Running' = 1
    BY <1>1 DEF Running
  <2>2. /\ Len(entered) = Len(queue) + posts
        /\ \A i \in 1..Len(queue) : entered[i] = Text(queue[i])
    <3>1. /\ Len(entered) = 0 + Len(queue) + posts
          /\ \A i \in 1..Len(queue) : entered[0 + i] = Text(queue[i])
      BY <2>1 DEF ShellInv, OrderInv
    <3>2. Len(queue) \in Int /\ posts \in Int /\ \A i \in 1..Len(queue) : 0 + i = i
      BY <1>2, TypeFacts
    <3>3. QED
      BY <3>1, <3>2
  <2>3. posts <= 1 /\ (posts = 1 => Len(queue) < QueueCap /\ entered[Len(entered)] = Text(cache))
    BY DEF ShellInv, OrderInv
  <2>4. Len(entered') = Running' + Len(queue') + posts'
    BY <1>1, <1>2, <1>3, <2>1, <2>2, TypeFacts
  <2>5. entered'[1] = Text(line')
    BY <1>1, <1>2, <2>2
  <2>6. \A i \in 1..Len(queue') : entered'[Running' + i] = Text(queue'[i])
    <3> TAKE i \in 1..Len(queue')
    <3>1. i + 1 \in 1..Len(queue) /\ Running' + i = i + 1
      BY <1>2, <1>3, <2>1
    <3>2. QED
      BY <1>1, <1>3, <2>2, <3>1
  <2>7. posts' = 1 => Len(queue') < QueueCap
    BY <1>1, <1>2, <1>3, <2>3, ShellFacts
  <2>8. QED
    BY <1>1, <2>3, <2>4, <2>5, <2>6, <2>7 DEF OrderInv, Text
<1>8. KeptInv' /\ TailInv'
  BY <1>1 DEF ShellInv, KeptInv, TailInv
<1>9. QED
  BY <1>5, <1>6, <1>7, <1>8 DEF ShellInv

LEMMA DropFirstKeeps == ASSUME ShellInv, DropFirst PROVE ShellInv'
<1>1. /\ task = "full" /\ task' = "add" /\ history' = Tail(history)
      /\ tail' = IF tail = 1 THEN Freed ELSE IF tail \in {0, Freed} THEN tail ELSE tail - 1
      /\ UNCHANGED <<input, cache, keys, posts, queue, line, kept, entered>>
  BY DEF DropFirst, isrVars
<1>2. /\ Len(history) = ListCap /\ history \in Seq(Line)
      /\ Matches(Append(Tail(history), line), kept)
  BY <1>1, TypeFacts DEF ShellInv, KeptInv
<1>3. history # <<>>
  BY <1>2, EmptySeq, ShellFacts
<1>4. /\ history' \in Seq(Line) /\ Len(history') = ListCap - 1
      /\ \A i \in 1..Len(history') : history'[i] = history[i + 1]
  BY <1>1, <1>2, <1>3, HeadTailProperties
<1>5. tail' \in 0..ListCap \cup {Freed}
  <2>1. tail \in 0..ListCap \cup {Freed}
    BY DEF ShellInv, ShellTypeOK
  <2>2. CASE tail \in {0, 1, Freed}
    BY <1>1, <2>1, <2>2, ShellFacts
  <2>3. CASE tail \notin {0, 1, Freed}
    <3>1. tail' = tail - 1 /\ tail \in 0..ListCap
      BY <1>1, <2>1, <2>3
    <3>2. QED
      BY <2>3, <3>1, ShellFacts
  <2>4. QED
    BY <2>2, <2>3
<1>6. ShellTypeOK'
  <2>1. Len(history') <= ListCap
    BY <1>4, ShellFacts
  <2>2. QED
    BY <1>1, <1>4, <1>5, <2>1 DEF ShellInv, ShellTypeOK
<1>7. CleanInv'
  <2>1. \A i \in 1..Len(history') : Clean(history'[i])
    <3> TAKE i \in 1..Len(history')
    <3>1. i + 1 \in 1..Len(history)
      BY <1>2, <1>4, ShellFacts
    <3>2. QED
      BY <1>4, <3>1 DEF ShellInv, CleanInv
  <2>2. QED
    BY <1>1, <2>1 DEF ShellInv, CleanInv
<1>8. OrderInv'
  BY <1>1 DEF ShellInv, OrderInv, Running
<1>9. KeptInv'
  <2>1. Len(history') < ListCap
    BY <1>4, ShellFacts
  <2>2. QED
    BY <1>1, <1>2, <2>1 DEF KeptInv
<1>10. TailInv'
  BY <1>1 DEF TailInv
<1>11. QED
  BY <1>6, <1>7, <1>8, <1>9, <1>10 DEF ShellInv

LEMMA AddLastKeeps == ASSUME ShellInv, AddLast PROVE ShellInv'
<1>1. /\ task = "add" /\ task' = "receive" /\ history' = Append(history, line)
      /\ tail' = Len(history) + 1
      /\ UNCHANGED <<input, cache, keys, posts, queue, line, kept, entered>>
  BY DEF AddLast, NewTail, isrVars
<1>2. /\ Len(history) < ListCap /\ history \in Seq(Line) /\ Len(history) \in Nat
      /\ Matches(Append(history, line), kept) /\ Clean(line) /\ line \in Line
  BY <1>1, TypeFacts, LineFacts DEF ShellInv, KeptInv, CleanInv
<1>3. /\ history' \in Seq(Line) /\ Len(history') = Len(history) + 1
      /\ history'[Len(history) + 1] = line
      /\ \A i \in 1..Len(history) : history'[i] = history[i]
  BY <1>1, <1>2, AppendProperties
<1>4. ShellTypeOK'
  <2>1. tail' \in 0..ListCap /\ Len(history') <= ListCap
    BY <1>1, <1>2, <1>3, ShellFacts
  <2>2. QED
    BY <1>1, <1>3, <2>1 DEF ShellInv, ShellTypeOK
<1>5. CleanInv'
  <2>1. \A i \in 1..Len(history') : i \in 1..Len(history) \/ i = Len(history) + 1
    BY <1>2, <1>3
  <2>2. QED
    BY <1>1, <1>2, <1>3, <2>1 DEF ShellInv, CleanInv
<1>6. OrderInv'
  BY <1>1 DEF ShellInv, OrderInv, Running
<1>7. KeptInv' /\ TailInv'
  <2>1. tail' \in 0..Len(history')
    BY <1>1, <1>2, <1>3
  <2>2. QED
    BY <1>1, <1>2, <2>1 DEF KeptInv, TailInv
<1>8. QED
  BY <1>4, <1>5, <1>6, <1>7 DEF ShellInv

LEMMA ExecKeeps == ASSUME ShellInv, Exec PROVE ShellInv'
<1> DEFINE argv == os_exec_cmd(line)
           clear == argv # <<>> /\ argv[1] = ClearCmd
           before == IF clear THEN <<>> ELSE kept
<1>1. /\ task = "exec" /\ history' = IF clear THEN <<>> ELSE history
      /\ IF argv = <<>> THEN task' = "receive" /\ UNCHANGED <<line, kept>>
         ELSE /\ task' = IF IsFull(history') THEN "full" ELSE "add"
              /\ line' = Restored(line)
              /\ kept' = LastOnes(Append(before, Text(line)))
      /\ tail' = IF clear /\ tail # 0 THEN Freed ELSE tail
      /\ entered' = Tail(entered)
      /\ UNCHANGED <<input, cache, keys, posts, queue>>
  BY DEF Exec, isrVars
<1>2. argv = <<>> => ~ clear
  OBVIOUS
<1> HIDE DEF argv, clear
<1>3. Clean(line) /\ Matches(history, kept) /\ tail \in 0..Len(history)
  BY <1>1 DEF ShellInv, CleanInv, KeptInv, TailInv
<1>4. line' = line
  BY <1>1, <1>3, RestoredIsSame
<1>5. /\ history \in Seq(Line) /\ kept \in Seq(Texts) /\ entered \in Seq(Texts)
      /\ Len(history) \in 0..ListCap /\ posts \in 0..1 /\ Len(queue) \in Nat
  BY TypeFacts, ShellFacts
<1>6. <<>> \in Seq(Line) /\ <<>> \in Seq(Texts) /\ Len(<<>>) = 0
  BY EmptySeq
<1>7. /\ history' \in Seq(Line) /\ before \in Seq(Texts) /\ Matches(history', before)
      /\ Len(history') \in 0..ListCap
  <2>1. CASE clear
    <3>1. history' = <<>> /\ before = <<>>
      BY <1>1, <2>1
    <3>2. Matches(<<>>, <<>>) /\ 0 \in 0..ListCap
      BY <1>6, ShellFacts DEF Matches
    <3>3. Matches(history', before)
      BY <3>1, <3>2
    <3>4. QED
      BY <1>6, <3>1, <3>2, <3>3
  <2>2. CASE ~ clear
    BY <1>1, <1>3, <1>5, <2>2
  <2>3. QED
    BY <2>1, <2>2
<1>8. tail' \in 0..ListCap \cup {Freed} /\ (~ clear => tail' \in 0..Len(history))
  BY <1>1, <1>3, <1>5, ShellFacts
<1>9. /\ entered # <<>> /\ entered' \in Seq(Texts) /\ Len(entered') = Len(entered) - 1
      /\ \A i \in 1..Len(entered') : entered'[i] = entered[i + 1]
      /\ Len(entered) = 1 + Len(queue) + posts
  <2>1. Len(entered) = 1 + Len(queue) + posts
    BY <1>1 DEF ShellInv, OrderInv, Running
  <2>2. entered # <<>>
    BY <1>5, <1>6, <2>1
  <2>3. QED
    BY <1>1, <1>5, <2>1, <2>2, HeadTailProperties
<1>10. kept' \in Seq(Texts)
  <2>1. CASE argv = <<>>
    BY <1>1, <1>5, <2>1
  <2>2. CASE argv # <<>>
    <3>1. Append(before, Text(line)) \in Seq(Texts)
      BY <1>3, <1>7, TextFacts, AppendProperties
    <3>2. QED
      BY <1>1, <2>2, <3>1, LastOnesFacts
  <2>3. QED
    BY <2>1, <2>2
<1>11. task' \in {"receive", "full", "add"}
  BY <1>1
<1>12. ShellTypeOK'
  <2>1. Len(history') <= ListCap
    BY <1>7, ShellFacts
  <2>2. QED
    BY <1>1, <1>4, <1>7, <1>8, <1>9, <1>10, <1>11, <2>1 DEF ShellInv, ShellTypeOK, Texts
<1>13. CleanInv'
  <2>1. \A i \in 1..Len(history') : Clean(history'[i])
    <3>1. CASE clear
      <4>1. Len(history') = 0
        BY <1>1, <1>6, <3>1
      <4>2. QED
        BY <4>1
    <3>2. CASE ~ clear
      BY <1>1, <3>2 DEF ShellInv, CleanInv
    <3>3. QED
      BY <3>1, <3>2
  <2>2. QED
    BY <1>1, <1>4, <2>1 DEF ShellInv, CleanInv
<1>14. OrderInv'
  <2>1. Running = 1 /\ Running' = 0
    BY <1>1, <1>11 DEF Running
  <2>2. /\ \A i \in 1..Len(queue) : entered[1 + i] = Text(queue[i])
        /\ posts = 1 => Len(queue) < QueueCap /\ entered[Len(entered)] = Text(cache)
    BY <2>1 DEF ShellInv, OrderInv
  <2>3. Len(entered') = 0 + Len(queue) + posts
    BY <1>5, <1>9
  <2>4. \A i \in 1..Len(queue) : entered'[0 + i] = Text(queue[i])
    <3> TAKE i \in 1..Len(queue)
    <3>1. 0 + i \in 1..Len(entered') /\ (0 + i) + 1 = 1 + i
      BY <1>5, <2>3
    <3>2. QED
      BY <1>9, <2>2, <3>1
  <2>5. posts = 1 => entered'[Len(entered')] = Text(cache)
    <3>1. posts = 1 => Len(entered') \in 1..Len(entered') /\ Len(entered') + 1 = Len(entered)
      BY <1>5, <1>9, <2>3
    <3>2. QED
      BY <1>9, <2>2, <3>1
  <2>6. QED
    BY <1>1, <1>5, <1>11, <2>1, <2>2, <2>3, <2>4, <2>5 DEF OrderInv, Text
<1>15. KeptInv' /\ TailInv'
  <2>1. CASE argv = <<>>
    <3>1. history' = history /\ kept' = kept /\ task' = "receive" /\ tail' \in 0..Len(history)
      BY <1>1, <1>2, <1>8, <2>1
    <3>2. QED
      BY <1>3, <3>1 DEF KeptInv, TailInv, Matches, Text
  <2>2. CASE argv # <<>>
    <3>1. kept' = LastOnes(Append(before, Text(line)))
      BY <1>1, <2>2
    <3>2. CASE Len(history') >= ListCap
      <4>1. Len(history') = ListCap /\ task' = "full"
        BY <1>1, <1>7, <2>2, <3>2, ShellFacts DEF IsFull
      <4>2. Matches(Append(Tail(history'), line), LastOnes(Append(before, Text(line))))
        BY <1>3, <1>7, <4>1, MatchesFull
      <4>3. Matches(Append(Tail(history), line), kept)'
        BY <1>4, <3>1, <4>2
      <4>4. QED
        BY <4>1, <4>3 DEF KeptInv, TailInv
    <3>3. CASE ~ (Len(history') >= ListCap)
      <4>1. Len(history') < ListCap /\ task' = "add"
        BY <1>1, <1>7, <2>2, <3>3, ShellFacts DEF IsFull
      <4>2. Matches(Append(history', line), LastOnes(Append(before, Text(line))))
        BY <1>3, <1>7, <4>1, MatchesMore
      <4>3. Matches(Append(history, line), kept)'
        BY <1>4, <3>1, <4>2
      <4>4. QED
        BY <4>1, <4>3 DEF KeptInv, TailInv
    <3>4. QED
      BY <3>2, <3>3
  <2>3. QED
    BY <2>1, <2>2
<1>16. QED
  BY <1>12, <1>13, <1>14, <1>15 DEF ShellInv

LEMMA ShellInvStep == Patient /\ ShellInv /\ [ShellNext]_shellVars => ShellInv'
<1> SUFFICES ASSUME Patient, ShellInv, [ShellNext]_shellVars PROVE ShellInv'
  OBVIOUS
<1>1. CASE Key
  BY <1>1, KeyKeeps, EnterKeeps DEF Key
<1>2. CASE Publish
  BY <1>2, PublishKeeps
<1>3. CASE Terminal
  BY <1>3, ReceiveKeeps, ExecKeeps, DropFirstKeeps, AddLastKeeps DEF Terminal
<1>4. CASE UNCHANGED shellVars
  BY <1>4 DEF shellVars, isrVars, taskVars, ShellInv, ShellTypeOK, CleanInv, OrderInv,
     Running, KeptInv, TailInv
<1>5. QED
  BY <1>1, <1>2, <1>3, <1>4 DEF ShellNext

LEMMA ShellInvHolds == ASSUME Patient PROVE ShellSpec => []ShellInv
<1>1. ShellInv /\ [ShellNext]_shellVars => ShellInv'
  BY ShellInvStep
<1>2. QED
  BY <1>1, ShellInvInit, PTL DEF ShellSpec

\* The state of the shell is of its types through every key, post and command, when
\* the user is patient: the list never gets longer than OS_SERVICE_FISH_MSG_LIST_CAP.
THEOREM ShellTypes == ASSUME Patient PROVE ShellSpec => []ShellTypeOK
<1>1. ShellInv => ShellTypeOK
  BY DEF ShellInv
<1>2. QED
  BY <1>1, ShellInvHolds, PTL

\* The history holds the last commands, as they were entered, in their order, for
\* any lines, commands and capacities, when the user waits for the shell as Patient
\* says: what __tin_list_add_tail and the command that clears the list do to the
\* nodes, while os_exec_cmd cuts the line up and puts it together again, loses and
\* changes no command.
THEOREM HistoryIsKept == ASSUME Patient PROVE ShellSpec => []HistoryKept
<1>1. ASSUME ShellInv PROVE HistoryKept
  <2> SUFFICES ASSUME task \in {"receive", "exec"}
               PROVE  [i \in DOMAIN history |-> Text(history[i])] = kept
    BY DEF HistoryKept, BetweenCommands
  <2>1. Matches(history, kept) /\ history \in Seq(Line) /\ kept \in Seq(Texts)
    BY <1>1, TypeFacts DEF ShellInv, KeptInv
  <2>2. /\ DOMAIN history = 1..Len(history) /\ DOMAIN kept = 1..Len(history)
        /\ kept = [i \in DOMAIN kept |-> kept[i]]
    BY <2>1, LenProperties DEF Matches
  <2>3. \A i \in 1..Len(history) : kept[i] = Text(history[i])
    BY <2>1 DEF Matches
  <2>4. QED
    BY <2>2, <2>3
<1>2. ShellInv => HistoryKept
  BY <1>1
<1>3. QED
  BY <1>2, ShellInvHolds, PTL

\* An arrow key shows the command kept at the place that the user has come to, or
\* clears the line at an end of the history, while any lines are on their way: the
\* pointer that __os_fish_irq_handle_default_fn recalls lines with follows the list
\* through every line dropped, added and cleared.  What Patient still keeps away is an
\* arrow that interrupts the task between a command and its place in the history.
THEOREM ArrowsAreSound == ASSUME Patient PROVE ShellSpec => ArrowsFindLines
<1> DEFINE Up == IF tail = 0 THEN Text(input') = <<>>
                 ELSE tail \in DOMAIN kept /\ Text(input') = kept[tail]
           Down == IF tail = Len(kept) THEN Text(input') = <<>>
                   ELSE /\ tail # Freed /\ tail + 1 \in DOMAIN kept
                        /\ Text(input') = kept[tail + 1]
<1>1. ASSUME ShellInv, \/ ArrowUp \/ ArrowDown
      PROVE  /\ tail \in 0..Len(history) /\ Len(kept) = Len(history)
             /\ Len(history) \in Nat /\ DOMAIN kept = 1..Len(history)
             /\ \A i \in 1..Len(history) : kept[i] = Text(history[i])
  <2>1. task \in {"receive", "exec"}
    BY <1>1 DEF ArrowUp, ArrowDown, ArrowsAllowed, BetweenCommands
  <2>2. tail \in 0..Len(history) /\ Matches(history, kept) /\ kept \in Seq(Texts)
    BY <1>1, <2>1, TypeFacts DEF ShellInv, TailInv, KeptInv
  <2> QED
    BY <1>1, <2>2, TypeFacts, LenProperties DEF Matches
<1>2. ASSUME ShellInv PROVE Text([input EXCEPT !.size = 0]) = <<>>
  <2> DEFINE l == [input EXCEPT !.size = 0]
  <2>1. l.size = 0
    BY <1>2 DEF ShellInv, ShellTypeOK, Line
  <2>2. 1..0 = {}
    OBVIOUS
  <2> HIDE DEF l
  <2>3. Text(l) = [i \in 1..0 |-> l.data[i]]
    BY <2>1 DEF Text
  <2>4. DOMAIN Text(l) = 1..0 /\ Text(l) = [i \in {} |-> l.data[i]]
    BY <2>2, <2>3
  <2>5. Text(l) = <<>>
    BY <2>2, <2>3, <2>4, SMT
  <2> QED
    BY <2>5 DEF l
<1>3. ASSUME ShellInv, ArrowUp PROVE Up
  <2>1. CASE tail = 0
    <3>1. input' = [input EXCEPT !.size = 0]
      BY <1>3, <2>1 DEF ArrowUp, os_fish_clear_input_buffer
    <3> QED
      BY <1>2, <1>3, <2>1, <3>1
  <2>2. CASE tail # 0
    <3>1. tail \in 1..Len(history) /\ input' = history[tail]
      BY <1>1, <1>3, <2>2, ListFacts DEF ArrowUp
    <3> QED
      BY <1>1, <1>3, <2>2, <3>1
  <2> QED
    BY <2>1, <2>2
<1>4. ASSUME ShellInv, ArrowDown PROVE Down
  <2>1. CASE tail = Len(history)
    <3>1. input' = [input EXCEPT !.size = 0]
      BY <1>4, <2>1 DEF ArrowDown, os_fish_clear_input_buffer
    <3> QED
      BY <1>1, <1>2, <1>4, <2>1, <3>1
  <2>2. CASE tail # Len(history)
    <3>1. tail + 1 \in 1..Len(history) /\ tail # Freed
      BY <1>1, <1>4, <2>2, ListFacts
    <3>2. input' = history[tail + 1]
      BY <1>1, <1>4, <2>2, <3>1, ListFacts DEF ArrowDown
    <3> QED
      BY <1>1, <1>4, <2>2, <3>1, <3>2
  <2> QED
    BY <2>1, <2>2
<1>5. ShellInv /\ [ShellNext]_shellVars =>
        [(ArrowUp => Up) /\ (ArrowDown => Down)]_shellVars
  BY <1>3, <1>4
<1> QED
  BY <1>5, ShellInvHolds, PTL DEF ShellSpec, ArrowsFindLines

-----------------------------------------------------------------------------
(* The words of a line.                                                    *)

\* A smallest number of a set.
LEMMA MinFacts ==
  ASSUME NEW S \in SUBSET Nat, S # {}
  PROVE  Min(S) \in S /\ \A y \in S : Min(S) <= y
<1> DEFINE R == OpToRel(<, Nat)
<1>1. IsWellFoundedOn(R, Nat)
  BY NatLessThanWellFounded
<1>2. \A x, y \in Nat : x < y => <<x, y>> \in R
  BY DEF OpToRel
<1> HIDE DEF R
<1>3. PICK x \in S : \A y \in S : ~ (<<y, x>> \in R)
  BY <1>1, WFMin
<1>4. \A y \in S : x <= y
  <2> TAKE y \in S
  <2>1. x \in Nat /\ y \in Nat /\ ~ (y < x)
    BY <1>2, <1>3
  <2>2. QED
    BY <2>1
<1>5. QED
  BY <1>4 DEF Min

\* A finite set of numbers has one member of every rank.
LEMMA InOrderFacts ==
  ASSUME NEW S \in SUBSET Nat, IsFiniteSet(S)
  PROVE  /\ Cardinality(S) \in Nat
         /\ \A n \in 1..Cardinality(S) : InOrder(S)[n] \in S
         /\ InOrder(S) \in Seq(Nat) /\ Len(InOrder(S)) = Cardinality(S)
<1> DEFINE upto(x) == {y \in S : y <= x}
           rank == [x \in S |-> Cardinality(upto(x))]
           size == Cardinality(S)
<1>1. size \in Nat
  BY FS_CardinalityType
<1>2. ASSUME NEW x \in S
      PROVE  IsFiniteSet(upto(x)) /\ Cardinality(upto(x)) \in 1..size
  <2>1. upto(x) \in SUBSET S /\ x \in upto(x)
    OBVIOUS
  <2>2. /\ IsFiniteSet(upto(x)) /\ Cardinality(upto(x)) <= size
        /\ Cardinality(upto(x)) \in Nat
    BY <2>1, FS_Subset, FS_CardinalityType
  <2>3. Cardinality(upto(x)) # 0
    BY <2>1, <2>2, FS_EmptySet
  <2>4. QED
    BY <1>1, <2>2, <2>3
<1>3. ASSUME NEW x \in S, NEW y \in S, x < y
      PROVE  Cardinality(upto(x)) # Cardinality(upto(y))
  <2>1. upto(x) \in SUBSET upto(y) /\ y \in upto(y) /\ y \notin upto(x)
    <3>1. x \in Nat /\ y \in Nat /\ \A z \in S : z \in Nat
      OBVIOUS
    <3>2. \A z \in S : z <= x => z <= y
      BY <1>3, <3>1
    <3>3. y <= y /\ ~ (y <= x)
      BY <1>3, <3>1
    <3>4. QED
      BY <3>2, <3>3
  <2>2. Cardinality(upto(y)) = Cardinality(upto(x)) => upto(y) = upto(x)
    BY <1>2, <2>1, FS_Subset
  <2>3. QED
    BY <2>1, <2>2
<1>4. rank \in Injection(S, 1..size)
  <2>1. rank \in [S -> 1..size]
    BY <1>2
  <2>2. \A x, y \in S : rank[x] = rank[y] => x = y
    <3> TAKE x, y \in S
    <3>1. x < y \/ y < x \/ x = y
      OBVIOUS
    <3>2. QED
      BY <1>3, <3>1
  <2>3. IsInjective(rank)
    BY <2>1, <2>2 DEF IsInjective
  <2>4. QED
    BY <2>1, <2>3 DEF Injection
<1>5. IsFiniteSet(1..size) /\ Cardinality(1..size) = size
  <2>1. IsFiniteSet(1..size) /\ Cardinality(1..size) = IF 1 > size THEN 0 ELSE size - 1 + 1
    BY <1>1, FS_Interval
  <2>2. QED
    BY <1>1, <2>1
<1>6. rank \in Surjection(S, 1..size)
  BY <1>4, <1>5, FS_Injection
<1>7. ASSUME NEW n \in 1..size PROVE InOrder(S)[n] \in S
  <2>1. PICK x \in S : rank[x] = n
    BY <1>6 DEF Surjection
  <2>2. \E z \in S : Cardinality({y \in S : y <= z}) = n
    BY <2>1
  <2>3. InOrder(S)[n] = CHOOSE z \in S : Cardinality({y \in S : y <= z}) = n
    BY DEF InOrder
  <2>4. QED
    BY <2>2, <2>3
<1>8. DOMAIN InOrder(S) = 1..size /\ InOrder(S) = [n \in 1..size |-> InOrder(S)[n]]
  BY DEF InOrder
<1>9. InOrder(S) \in [1..size -> Nat]
  BY <1>7, <1>8
<1>10. InOrder(S) \in Seq(Nat)
  BY <1>1, <1>9, SeqDef
<1>11. 1..Len(InOrder(S)) = 1..size /\ Len(InOrder(S)) \in Nat
  BY <1>8, <1>10, LenProperties
<1>12. Len(InOrder(S)) = size
  BY <1>1, <1>11
<1>13. QED
  BY <1>1, <1>7, <1>10, <1>12

\* Where the words of a line begin.
Begins(l) == {i \in 1..l.size : l.data[i] # Blank /\ (i = 1 \/ l.data[i - 1] = Blank)}

LEMMA LeadingFacts ==
  ASSUME NEW l, Clean(l)
  PROVE  /\ Leading(l.data) \in 0..BufSize
         /\ \A i \in 1..Leading(l.data) : l.data[i] = Blank
         /\ \A i \in 1..BufSize : l.data[i] # Blank => Leading(l.data) < i
<1> DEFINE others == {i \in 1..BufSize : l.data[i] # Blank}
<1>1. others \in SUBSET Nat /\ BufSize \in Nat
  BY ShellFacts
<1>2. Leading(l.data) = IF others = {} THEN BufSize ELSE Min(others) - 1
  BY DEF Leading
<1>3. CASE others = {}
  BY <1>1, <1>2, <1>3
<1>4. CASE others # {}
  <2>1. Min(others) \in others /\ \A y \in others : Min(others) <= y
    BY <1>1, <1>4, MinFacts
  <2> DEFINE m == Min(others)
  <2>2. m \in 1..BufSize /\ (\A y \in others : m <= y) /\ Leading(l.data) = m - 1
    BY <1>2, <1>4, <2>1
  <2> HIDE DEF m
  <2>3. \A i \in 1..(m - 1) : i \in 1..BufSize /\ i \notin others
    BY <1>1, <2>2
  <2>4. \A i \in 1..(m - 1) : l.data[i] = Blank
    BY <2>3
  <2>5. \A i \in 1..BufSize : l.data[i] # Blank => m - 1 < i
    BY <1>1, <2>2
  <2>6. QED
    BY <1>1, <2>2, <2>4, <2>5
<1>5. QED
  BY <1>3, <1>4

LEMMA StartsAreBegins == ASSUME NEW l, Clean(l) PROVE Starts(l) = Begins(l)
<1> DEFINE k == Leading(l.data)
<1>1. /\ k \in 0..BufSize /\ \A i \in 1..k : l.data[i] = Blank
      /\ \A i \in 1..BufSize : l.data[i] # Blank => k < i
      /\ l.size \in 0..(BufSize - 1) /\ BufSize \in Nat
  BY LeadingFacts, LineFacts, ShellFacts
<1>2. Starts(l) = {i \in (k + 1)..l.size :
                     l.data[i] # Blank /\ (i = k + 1 \/ l.data[i - 1] = Blank)}
  BY DEF Starts
<1> HIDE DEF k
<1>3. ASSUME NEW i \in Starts(l) PROVE i \in Begins(l)
  <2>1. i \in (k + 1)..l.size /\ l.data[i] # Blank /\ (i = k + 1 \/ l.data[i - 1] = Blank)
    BY <1>2
  <2>2. i \in 1..l.size
    BY <1>1, <2>1
  <2>3. i = 1 \/ l.data[i - 1] = Blank
    <3>1. CASE i = k + 1 /\ k # 0
      <4>1. i - 1 \in 1..k
        BY <1>1, <3>1
      <4>2. QED
        BY <1>1, <4>1
    <3>2. CASE i = k + 1 /\ k = 0
      BY <3>2
    <3>3. QED
      BY <2>1, <3>1, <3>2
  <2>4. QED
    BY <2>1, <2>2, <2>3 DEF Begins
<1>4. ASSUME NEW i \in Begins(l) PROVE i \in Starts(l)
  <2>1. i \in 1..l.size /\ l.data[i] # Blank /\ (i = 1 \/ l.data[i - 1] = Blank)
    BY DEF Begins
  <2>2. i \in 1..BufSize
    BY <1>1, <2>1
  <2>3. i \in (k + 1)..l.size
    BY <1>1, <2>1, <2>2
  <2>4. i = 1 => i = k + 1
    BY <1>1, <2>3
  <2>5. QED
    BY <1>2, <2>1, <2>3, <2>4
<1>5. QED
  BY <1>3, <1>4

LEMMA SubTextFacts ==
  ASSUME NEW l, Clean(l), NEW i \in 1..l.size, NEW j \in i..l.size
  PROVE  /\ SubSeq(Text(l), i, j) \in Texts /\ Len(SubSeq(Text(l), i, j)) = j - i + 1
         /\ \A n \in 1..(j - i + 1) : SubSeq(Text(l), i, j)[n] = l.data[i + n - 1]
<1>1. l.size \in Nat /\ i \in Int /\ j \in Int /\ i <= j /\ Text(l) \in Texts
  BY LineFacts, TextFacts, ShellFacts
<1>2. \A n \in i..j : n \in 1..l.size /\ Text(l)[n] \in Chars /\ Text(l)[n] = l.data[n]
  <2> TAKE n \in i..j
  <2>1. n \in 1..l.size
    BY <1>1
  <2>2. QED
    BY <2>1, TextFacts, LineFacts
<1>3. /\ SubSeq(Text(l), i, j) \in Seq(Chars)
      /\ Len(SubSeq(Text(l), i, j)) = IF i <= j THEN j - i + 1 ELSE 0
      /\ \A n \in 1..(j - i + 1) : SubSeq(Text(l), i, j)[n] = Text(l)[i + n - 1]
  BY <1>1, <1>2, SubSeqProperties
<1>4. \A n \in 1..(j - i + 1) : i + n - 1 \in i..j
  BY <1>1
<1>5. QED
  BY <1>1, <1>2, <1>3, <1>4 DEF Texts

\* A part without blanks that ends where the line or the word does.
LEMMA WordFacts ==
  ASSUME NEW l, Clean(l), NEW i \in 1..l.size, NEW j \in i..l.size
  PROVE  IsWord(Text(l), i, j) <=>
           /\ \A n \in i..j : l.data[n] # Blank
           /\ i = 1 \/ l.data[i - 1] = Blank
           /\ j = l.size \/ l.data[j + 1] = Blank
<1> DEFINE part == SubSeq(Text(l), i, j)
<1>1. /\ part \in Seq(Chars) /\ Len(part) = j - i + 1
      /\ \A n \in 1..(j - i + 1) : part[n] = l.data[i + n - 1]
  BY SubTextFacts DEF Texts
<1>2. /\ l.size \in Nat /\ Len(Text(l)) = l.size
      /\ \A n \in 1..l.size : Text(l)[n] = l.data[n]
  BY LineFacts, TextFacts, ShellFacts
<1> HIDE DEF part
<1>3. DOMAIN part = 1..(j - i + 1)
  BY <1>1, LenProperties
<1>4. Blank \notin ToSet(part) <=> \A n \in 1..(j - i + 1) : part[n] # Blank
  BY <1>3 DEF ToSet
<1>5. (\A n \in 1..(j - i + 1) : part[n] # Blank) <=> \A n \in i..j : l.data[n] # Blank
  <2>1. ASSUME \A n \in 1..(j - i + 1) : part[n] # Blank, NEW n \in i..j
        PROVE  l.data[n] # Blank
    <3>1. n - i + 1 \in 1..(j - i + 1) /\ i + (n - i + 1) - 1 = n
      BY <1>2
    <3>2. part[n - i + 1] = l.data[i + (n - i + 1) - 1]
      BY <1>1, <3>1
    <3>3. QED
      BY <2>1, <3>1, <3>2
  <2>2. ASSUME \A n \in i..j : l.data[n] # Blank, NEW n \in 1..(j - i + 1)
        PROVE  part[n] # Blank
    <3>1. i + n - 1 \in i..j
      BY <1>2
    <3>2. QED
      BY <1>1, <2>2, <3>1
  <2>3. QED
    BY <2>1, <2>2
<1>6. (i = 1 \/ Text(l)[i - 1] = Blank) <=> (i = 1 \/ l.data[i - 1] = Blank)
  <2>1. i # 1 => i - 1 \in 1..l.size
    BY <1>2
  <2>2. QED
    BY <1>2, <2>1
<1>7. (j = Len(Text(l)) \/ Text(l)[j + 1] = Blank) <=> (j = l.size \/ l.data[j + 1] = Blank)
  <2>1. j # l.size => j + 1 \in 1..l.size
    BY <1>2
  <2>2. QED
    BY <1>2, <2>1
<1>8. IsWord(Text(l), i, j) <=> /\ Blank \notin ToSet(part)
                                /\ i = 1 \/ Text(l)[i - 1] = Blank
                                /\ j = Len(Text(l)) \/ Text(l)[j + 1] = Blank
  BY DEF IsWord, part
<1>9. QED
  BY <1>4, <1>5, <1>6, <1>7, <1>8

\* A word ends at one place only.
LEMMA OneEnd ==
  ASSUME NEW l, Clean(l), NEW i \in 1..l.size, NEW j \in i..l.size, NEW k \in i..l.size,
         IsWord(Text(l), i, j), IsWord(Text(l), i, k)
  PROVE  j = k
<1>1. /\ \A n \in i..j : l.data[n] # Blank
      /\ \A n \in i..k : l.data[n] # Blank
      /\ j = l.size \/ l.data[j + 1] = Blank
      /\ k = l.size \/ l.data[k + 1] = Blank
  BY WordFacts
<1>2. l.size \in Nat
  BY LineFacts, ShellFacts
<1>3. CASE j < k
  <2>1. j + 1 \in i..k /\ j # l.size
    BY <1>2, <1>3
  <2>2. QED
    BY <1>1, <2>1
<1>4. CASE k < j
  <2>1. k + 1 \in i..j /\ k # l.size
    BY <1>2, <1>4
  <2>2. QED
    BY <1>1, <2>1
<1>5. QED
  BY <1>2, <1>3, <1>4

\* The string that the splitting leaves at the place where a word begins.
LEMMA StringIsWord ==
  ASSUME NEW l, Clean(l), NEW i \in Begins(l)
  PROVE  \E j \in i..l.size :
           IsWord(Text(l), i, j) /\ StringAt(Cut(l), i) = SubSeq(Text(l), i, j)
<1>1. i \in 1..l.size /\ l.data[i] # Blank /\ (i = 1 \/ l.data[i - 1] = Blank)
  BY DEF Begins
<1>2. /\ l.size \in 0..(BufSize - 1) /\ BufSize \in Nat
      /\ \A n \in 1..l.size : l.data[n] # Nul /\ l.data[n] \in Chars
      /\ \A n \in 1..BufSize : l.data[n] = Nul <=> n > l.size
  BY LineFacts, ShellFacts DEF Clean
<1>3. i \in 1..BufSize /\ i \in Nat
  BY <1>1, <1>2
<1>4. Leading(l.data) \in 0..BufSize /\ Leading(l.data) < i
  BY <1>1, <1>3, LeadingFacts
<1> DEFINE cut == Cut(l)
<1>5. ASSUME NEW n \in i..BufSize
      PROVE  /\ cut[n] = IF n <= l.size /\ l.data[n] = Blank THEN Nul ELSE l.data[n]
             /\ cut[n] = Nul <=> (n > l.size \/ l.data[n] = Blank)
  <2>1. n \in 1..BufSize /\ Leading(l.data) < n
    BY <1>2, <1>3, <1>4
  <2>2. cut[n] = IF n <= l.size /\ l.data[n] = Blank THEN Nul ELSE l.data[n]
    BY <2>1 DEF Cut
  <2>3. l.data[n] = Nul <=> n > l.size
    BY <1>2, <2>1
  <2>4. n > l.size <=> ~ (n <= l.size)
    BY <1>2, <2>1
  <2>5. QED
    BY <2>2, <2>3, <2>4
<1> HIDE DEF cut
<1> DEFINE ends == {n \in i..BufSize : cut[n] = Nul}
           m == Min(ends)
<1>6. ends \in SUBSET Nat /\ ends # {}
  <2>1. l.size + 1 \in i..BufSize /\ l.size + 1 > l.size
    BY <1>1, <1>2
  <2>2. cut[l.size + 1] = Nul
    BY <1>5, <2>1
  <2>3. l.size + 1 \in ends
    BY <2>1, <2>2
  <2>4. QED
    BY <1>3, <2>3
<1>7. m \in ends /\ \A n \in ends : m <= n
  BY <1>6, MinFacts
<1>8. StringAt(cut, i) = SubSeq(cut, i, m - 1)
  BY <1>6 DEF StringAt
<1>9. m \in i..BufSize /\ (m > l.size \/ l.data[m] = Blank)
  BY <1>5, <1>7
<1>10. \A n \in i..BufSize : n < m => cut[n] # Nul
  BY <1>3, <1>7, <1>9
<1> HIDE DEF m, ends
<1>11. ASSUME NEW n \in i..(m - 1)
       PROVE  n \in 1..l.size /\ l.data[n] # Blank /\ cut[n] = l.data[n]
  <2>1. n \in i..BufSize /\ n < m
    BY <1>2, <1>3, <1>9
  <2>2. ~ (n > l.size) /\ l.data[n] # Blank
    BY <1>5, <1>10, <2>1
  <2>3. cut[n] = l.data[n]
    BY <1>5, <2>1, <2>2
  <2>4. QED
    BY <1>2, <1>3, <2>1, <2>2, <2>3
<1>12. m # i
  BY <1>1, <1>2, <1>9
<1>13. m - 1 \in i..l.size
  <2>1. m - 1 \in i..(m - 1)
    BY <1>3, <1>9, <1>12
  <2>2. QED
    BY <1>11, <2>1
<1>14. m - 1 = l.size \/ l.data[(m - 1) + 1] = Blank
  <2>1. (m - 1) + 1 = m /\ (m > l.size => m - 1 = l.size)
    BY <1>2, <1>9, <1>13
  <2>2. QED
    BY <1>9, <2>1
<1>15. IsWord(Text(l), i, m - 1)
  BY <1>1, <1>11, <1>13, <1>14, WordFacts
<1>16. SubSeq(cut, i, m - 1) = SubSeq(Text(l), i, m - 1)
  <2>1. /\ SubSeq(Text(l), i, m - 1) \in Seq(Chars)
        /\ Len(SubSeq(Text(l), i, m - 1)) = m - 1 - i + 1
        /\ \A n \in 1..(m - 1 - i + 1) : SubSeq(Text(l), i, m - 1)[n] = l.data[i + n - 1]
    BY <1>1, <1>13, SubTextFacts DEF Texts
  <2>2. m - 1 \in Int /\ i \in Int /\ i <= m - 1
    BY <1>3, <1>9, <1>12
  <2>3. \A n \in i..(m - 1) : cut[n] \in Chars
    BY <1>2, <1>11
  <2>4. /\ SubSeq(cut, i, m - 1) \in Seq(Chars)
        /\ Len(SubSeq(cut, i, m - 1)) = IF i <= m - 1 THEN m - 1 - i + 1 ELSE 0
        /\ \A n \in 1..(m - 1 - i + 1) : SubSeq(cut, i, m - 1)[n] = cut[i + n - 1]
    BY <2>2, <2>3, SubSeqProperties
  <2>5. \A n \in 1..(m - 1 - i + 1) : i + n - 1 \in i..(m - 1)
    BY <2>2
  <2>6. \A n \in 1..(m - 1 - i + 1) : SubSeq(cut, i, m - 1)[n] = SubSeq(Text(l), i, m - 1)[n]
    BY <1>11, <2>1, <2>4, <2>5
  <2>7. QED
    BY <2>1, <2>2, <2>4, <2>6, SeqEqual
<1>17. QED
  BY <1>8, <1>13, <1>15, <1>16 DEF cut

\* The command and the arguments that the code finds in a line are the words of
\* the text on the screen.
LEMMA RunsTheText == ASSUME NEW l, Clean(l) PROVE os_exec_cmd(l) = Meant(Text(l))
<1> DEFINE B == Begins(l)
           text == Text(l)
           f == [n \in 1..Cardinality(B) |-> WordAt(text, InOrder(B)[n])]
<1>1. l.size \in Nat /\ Len(text) = l.size /\ DOMAIN text = 1..l.size
  BY LineFacts, TextFacts, ShellFacts
<1>2. ASSUME NEW i \in B
      PROVE  StringAt(Cut(l), i) = WordAt(text, i) /\ WordAt(text, i) \in Texts
  <2>1. PICK j \in i..l.size : IsWord(text, i, j) /\ StringAt(Cut(l), i) = SubSeq(text, i, j)
    BY StringIsWord
  <2>2. i \in 1..l.size
    BY DEF Begins
  <2>3. (CHOOSE k \in i..Len(text) : IsWord(text, i, k)) = j
    BY <1>1, <2>1, <2>2, OneEnd
  <2>4. QED
    BY <2>1, <2>2, <2>3, SubTextFacts DEF WordAt
<1>3. {i \in DOMAIN text : \E j \in i..Len(text) : IsWord(text, i, j)} = B
  <2>1. ASSUME NEW i \in 1..l.size, NEW j \in i..l.size, IsWord(text, i, j)
        PROVE  i \in B
    <3>1. i \in i..j /\ (\A n \in i..j : l.data[n] # Blank) /\ (i = 1 \/ l.data[i - 1] = Blank)
      BY <1>1, <2>1, WordFacts
    <3>2. QED
      BY <3>1 DEF Begins
  <2>2. ASSUME NEW i \in B
        PROVE  i \in 1..l.size /\ \E j \in i..l.size : IsWord(text, i, j)
    BY StringIsWord DEF Begins
  <2>3. QED
    BY <1>1, <2>1, <2>2
<1>4. B \in SUBSET Nat /\ IsFiniteSet(B)
  <2>1. IsFiniteSet(1..l.size) /\ B \in SUBSET (1..l.size)
    BY <1>1, FS_Interval DEF Begins
  <2>2. QED
    BY <1>1, <2>1, FS_Subset
<1>5. /\ Cardinality(B) \in Nat /\ \A n \in 1..Cardinality(B) : InOrder(B)[n] \in B
      /\ Len(InOrder(B)) = Cardinality(B) /\ DOMAIN InOrder(B) = 1..Cardinality(B)
  BY <1>4, InOrderFacts, LenProperties
<1>6. Words(text) = f
  BY <1>3 DEF Words
<1>7. [n \in 1..Cardinality(B) |-> StringAt(Cut(l), InOrder(B)[n])] = f
  BY <1>2, <1>5
<1>8. Len(f) = Cardinality(B)
  <2>1. f \in [1..Cardinality(B) -> Texts]
    BY <1>2, <1>5
  <2>2. f \in Seq(Texts) /\ DOMAIN f = 1..Cardinality(B)
    BY <1>5, <2>1, SeqDef
  <2> HIDE DEF f
  <2>3. 1..Len(f) = 1..Cardinality(B) /\ Len(f) \in Nat
    BY <2>2, LenProperties
  <2>4. QED
    BY <1>5, <2>3
<1>9. __os_split_cmd(l) = IF Cardinality(B) >= ArgMax THEN <<>> ELSE f
  <2>1. Starts(l) = B
    BY StartsAreBegins
  <2>2. __os_split_cmd(l) =
          IF Len(InOrder(B)) >= ArgMax THEN <<>>
          ELSE [n \in DOMAIN InOrder(B) |-> StringAt(Cut(l), InOrder(B)[n])]
    BY <2>1 DEF __os_split_cmd
  <2> HIDE DEF f, B
  <2>3. QED
    BY <1>5, <1>7, <2>2
<1> HIDE DEF f, B
<1>10. Cardinality(B) < ArgMax <=> ~ (Cardinality(B) >= ArgMax)
  BY <1>5, ShellFacts
<1>11. Meant(text) = IF f # <<>> /\ Len(f) < ArgMax /\ f[1] \in Commands THEN f ELSE <<>>
  BY <1>6 DEF Meant
<1>12. os_exec_cmd(l) = IF __os_split_cmd(l) # <<>> /\ __os_split_cmd(l)[1] \in Commands
                        THEN __os_split_cmd(l) ELSE <<>>
  BY DEF os_exec_cmd
<1>13. QED
  BY <1>8, <1>9, <1>10, <1>11, <1>12

\* The command that runs, with its arguments, is the line that was on the screen
\* when it was entered, and lines run in the order of entering, each of them once,
\* for any lines and limits and a patient user: neither the static copy that is
\* posted, nor the queue, nor the splitting of the line changes what is run.
THEOREM RunsTheEntered == ASSUME Patient PROVE ShellSpec => []RunsWhatWasEntered
<1>1. ASSUME ShellInv, task = "exec"
      PROVE  os_exec_cmd(line) = Meant(Head(entered))
  <2>1. Clean(line) /\ entered[1] = Text(line) /\ entered \in Seq(Texts)
    BY <1>1, TypeFacts DEF ShellInv, CleanInv, OrderInv
  <2>2. Head(entered) = entered[1]
    BY <2>1
  <2>3. QED
    BY <2>1, <2>2, RunsTheText
<1>2. ShellInv => RunsWhatWasEntered
  BY <1>1 DEF RunsWhatWasEntered
<1>3. QED
  BY <1>2, ShellInvHolds, PTL
=============================================================================
