-------------------------------- MODULE Device --------------------------------
(***************************************************************************)
(* os_device.c: the list of registered devices, under a mutex, and the     *)
(* flags and reference counts of the devices, under none.  A driver's      *)
(* functions may fail.  Interrupts come between any two steps; they read   *)
(* the reference count and change nothing here.  "opens" is history: what  *)
(* each task has opened and not closed.                                    *)
(***************************************************************************)
EXTENDS Integers, FiniteSets, SequencesExt

CONSTANTS Dev,       \* the devices
          Uart,      \* sys_uart_device
          Task, Boot, \* the tasks; the code that runs before them
          Names,     \* device names, as sequences of characters
          UartName,  \* "sys_uart"
          Mode,      \* the flags READ, WRITE with which each task opens devices
          RefWrap,   \* 256 in the code
          MaxOpens,  \* bound: how often a task opens a device
          Serial,    \* the application keeps tasks from registering, opening and
                     \* closing at the same time, and unregisters and uses
                     \* devices as Unregister and Transfer say
          NULL

VARIABLES listed,    \* __os_device_list
          name, flag, openFlag, refCount,  \* the fields of the devices
          driver,    \* external: what the driver has been told
          mutex,     \* the task that has __os_device_mutex
          op,        \* where each task is in its call
          opens
devVars == <<listed, name, flag, openFlag, refCount, driver>>
vars == <<devVars, mutex, op, opens>>

ASSUME DeviceAssumption ==
  /\ IsFiniteSet(Task) /\ Uart \in Dev /\ Boot \notin Task /\ NULL \notin Dev \cup Task
  /\ Names \subseteq Seq(STRING) /\ UartName \in Names
  /\ Mode \in [Task \cup {Boot} -> SUBSET {"READ", "WRITE"}]
  /\ RefWrap \in Nat \ {0, 1} /\ MaxOpens \in Nat \ {0} /\ Serial \in BOOLEAN

Owner == Task \cup {Boot}
Places == {"idle", "find", "add", "remove", "init", "open", "opened",
           "count", "close", "transfer"}

TypeOK ==
  /\ listed \in Seq(Dev)
  /\ name \in [Dev -> Seq(STRING)]
  /\ flag \in [Dev -> SUBSET {"READ", "WRITE", "REGISTER", "INIT", "OPEN"}]
  /\ openFlag \in [Dev -> SUBSET {"READ", "WRITE"}]
  /\ refCount \in [Dev -> 0..(RefWrap - 1)]
  /\ driver \in [Dev -> {"off", "ready", "open"}]
  /\ mutex \in Task \cup {NULL}
  /\ op \in [Task -> [at : Places, dev : Dev, name : Names]]
  /\ opens \in [Owner -> [Dev -> Nat]]

-----------------------------------------------------------------------------
\* os_sys_device_init, before any task runs: the system's UART is registered,
\* initialised and opened.
Init ==
  LET only(x, y) == [d \in Dev |-> IF d = Uart THEN x ELSE y]
  IN /\ listed = <<Uart>>
     /\ name = only(UartName, <<>>)
     /\ flag = only({"READ", "WRITE", "REGISTER", "INIT", "OPEN"}, {})
     /\ openFlag = only(Mode[Boot], {})
     /\ refCount = only(1, 0) /\ driver = only("open", "off")
     /\ mutex = NULL
     /\ op = [t \in Task |-> [at |-> "idle", dev |-> Uart, name |-> UartName]]
     /\ opens = [t \in Owner |-> [d \in Dev |-> IF t = Boot /\ d = Uart THEN 1 ELSE 0]]

Is(t, place) == op[t].at = place
GoTo(t, place) == op' = [op EXCEPT ![t].at = place]

\* A task begins a call that changes a device.
Begins(t) == Is(t, "idle") /\ (Serial => \A u \in Task : op[u].at \in {"idle", "transfer"})

\* The opens of device d that have not been closed.
OpensOf(d) == {h \in Owner \X (1..MaxOpens) : h[2] <= opens[h[1]][d]}
Opened(d) == Cardinality(OpensOf(d))

-----------------------------------------------------------------------------
(* Registering.                                                            *)

CallRegister(t) ==
  /\ Begins(t)
  /\ \E d \in Dev, n \in Names :
       /\ Serial => d \notin ToSet(listed) /\ Opened(d) = 0
       /\ op' = [op EXCEPT ![t] = [at |-> "find", dev |-> d, name |-> n]]
  /\ UNCHANGED <<devVars, mutex, opens>>

os_device_find(n) ==
  LET at == {i \in DOMAIN listed : name[listed[i]] = n}
  IN IF at = {} THEN NULL ELSE listed[Min(at)]

\* os_kobject_init writes the characters of the name over the old ones, without
\* an end.
os_kobject_init(old, n) == n \o SubSeq(old, Len(n) + 1, Len(old))

\* Mutant: the name is not looked for.
FindForgotten(t) == TRUE

NameIsFree(t) == os_device_find(op[t].name) = NULL

\* os_device_register up to the second critical section.
Prepare(t) ==
  /\ Is(t, "find") /\ mutex = NULL
  /\ LET d == op[t].dev
     IN IF NameIsFree(t)
          THEN /\ name' = [name EXCEPT ![d] = os_kobject_init(@, op[t].name)]
               /\ flag' = [flag EXCEPT ![d] = {"READ", "WRITE"}]
               /\ openFlag' = [openFlag EXCEPT ![d] = {}]
               /\ refCount' = [refCount EXCEPT ![d] = 0]
               /\ GoTo(t, "add")
          ELSE GoTo(t, "idle") /\ UNCHANGED <<name, flag, openFlag, refCount>>
  /\ UNCHANGED <<listed, driver, mutex, opens>>

\* The two writes under the mutex; between them another task may run.
AddToList(t) ==
  /\ Is(t, "add") /\ mutex = NULL
  /\ mutex' = t /\ listed' = Append(listed, op[t].dev)
  /\ UNCHANGED <<name, flag, openFlag, refCount, driver, op, opens>>

MarkRegistered(t) ==
  /\ Is(t, "add") /\ mutex = t
  /\ mutex' = NULL /\ flag' = [flag EXCEPT ![op[t].dev] = @ \cup {"REGISTER"}]
  /\ GoTo(t, "idle")
  /\ UNCHANGED <<listed, name, openFlag, refCount, driver, opens>>

Unregister(t) ==
  /\ Begins(t) /\ mutex = NULL
  /\ \E d \in Dev :
       /\ Serial => Opened(d) = 0
       /\ flag' = [flag EXCEPT ![d] = @ \ {"REGISTER"}]
       /\ op' = [op EXCEPT ![t] = [@ EXCEPT !.at = "remove", !.dev = d]]
  /\ mutex' = t
  /\ UNCHANGED <<listed, name, openFlag, refCount, driver, opens>>

\* list_del_init, which leaves a node alone that is in no list.
Without(s, d) ==
  IF d \in ToSet(s) THEN RemoveAt(s, CHOOSE i \in DOMAIN s : s[i] = d) ELSE s

os_kobject_deinit(t) ==
  /\ Is(t, "remove")
  /\ mutex' = NULL /\ listed' = Without(listed, op[t].dev)
  /\ GoTo(t, "idle")
  /\ UNCHANGED <<name, flag, openFlag, refCount, driver, opens>>

-----------------------------------------------------------------------------
(* Opening and closing, without the mutex.                                 *)

\* What os_device_init looks at before it calls the driver.
MayInit(d) == "REGISTER" \in flag[d] /\ "INIT" \notin flag[d]

\* A task finds a device by its name and opens it.
CallOpen(t) ==
  /\ Begins(t) /\ mutex = NULL
  /\ \E n \in Names :
       LET d == os_device_find(n)
       IN /\ d # NULL /\ opens[t][d] < MaxOpens
          /\ "INIT" \in flag[d] \/ MayInit(d)
          /\ op' = [op EXCEPT ![t] = [at |-> IF "INIT" \in flag[d] THEN "open" ELSE "init",
                                      dev |-> d, name |-> n]]
  /\ UNCHANGED <<devVars, mutex, opens>>

\* The driver's init.
DriverInit(t) ==
  /\ Is(t, "init")
  /\ LET d == op[t].dev
     IN \/ /\ driver' = [driver EXCEPT ![d] = "ready"]
           /\ flag' = [flag EXCEPT ![d] = @ \cup {"INIT"}]
           /\ GoTo(t, "open")
        \/ GoTo(t, "idle") /\ UNCHANGED <<driver, flag>>
  /\ UNCHANGED <<listed, name, openFlag, refCount, mutex, opens>>

DriverOpen(t) ==
  /\ Is(t, "open")
  /\ \/ driver' = [driver EXCEPT ![op[t].dev] = "open"] /\ GoTo(t, "opened")
     \/ GoTo(t, "idle") /\ UNCHANGED driver
  /\ UNCHANGED <<listed, name, flag, openFlag, refCount, mutex, opens>>

\* Mutant: the flags of the last call replace those of the earlier ones.
LastMode(old, new) == new

JoinMode(old, new) == old \cup new

SetOpenFlag(t) ==
  /\ Is(t, "opened")
  /\ openFlag' = [openFlag EXCEPT ![op[t].dev] = JoinMode(@, Mode[t])]
  /\ GoTo(t, "count")
  /\ UNCHANGED <<listed, name, flag, refCount, driver, mutex, opens>>

\* Mutant: what is counted is whether the device is open.
OneMoreOnce(count) == 1

OneMore(count) == (count + 1) % RefWrap

CountOpen(t) ==
  /\ Is(t, "count")
  /\ LET d == op[t].dev
     IN /\ refCount' = [refCount EXCEPT ![d] = OneMore(@)]
        /\ flag' = [flag EXCEPT ![d] = @ \cup {"OPEN"}]
        /\ opens' = [opens EXCEPT ![t][d] = @ + 1]
  /\ GoTo(t, "idle")
  /\ UNCHANGED <<listed, name, openFlag, driver, mutex>>

\* Mutant: the driver is closed with the first of several closes.
LastCloseAny(count) == TRUE

LastClose(count) == count = 0

\* os_device_close up to the driver's close.
CallClose(t) ==
  /\ Begins(t)
  /\ \E d \in Dev :
       /\ opens[t][d] > 0 /\ refCount[d] # 0
       /\ refCount' = [refCount EXCEPT ![d] = @ - 1]
       /\ opens' = [opens EXCEPT ![t][d] = @ - 1]
       /\ op' = [op EXCEPT ![t] = [@ EXCEPT !.dev = d,
                   !.at = IF LastClose(refCount'[d]) THEN "close" ELSE "idle"]]
  /\ UNCHANGED <<listed, name, flag, openFlag, driver, mutex>>

\* A driver that fails leaves the flags as they are.
DriverClose(t) ==
  /\ Is(t, "close")
  /\ LET d == op[t].dev
     IN \/ /\ driver' = [driver EXCEPT ![d] = "ready"]
           /\ openFlag' = [openFlag EXCEPT ![d] = {}]
        \/ UNCHANGED <<driver, openFlag>>
  /\ GoTo(t, "idle")
  /\ UNCHANGED <<listed, name, flag, refCount, mutex, opens>>

-----------------------------------------------------------------------------
(* Using.                                                                  *)

\* What os_device_read and os_device_write look at, and os_device_ioctl and the
\* indications of an interrupt, which need no mode.
Usable(d, mode) == refCount[d] # 0 /\ mode \in openFlag[d]
Indicates(d) == refCount[d] # 0

\* The task calls the driver's function, which may take any time.
CallTransfer(t) ==
  /\ Is(t, "idle")
  /\ \E d \in Dev, mode \in {"READ", "WRITE"} :
       /\ Serial => opens[t][d] > 0
       /\ Usable(d, mode)
       /\ op' = [op EXCEPT ![t] = [@ EXCEPT !.at = "transfer", !.dev = d]]
  /\ UNCHANGED <<devVars, mutex, opens>>

TransferEnds(t) ==
  /\ Is(t, "transfer") /\ GoTo(t, "idle")
  /\ UNCHANGED <<devVars, mutex, opens>>

Next ==
  \E t \in Task :
    \/ CallRegister(t) \/ Prepare(t) \/ AddToList(t) \/ MarkRegistered(t)
    \/ Unregister(t) \/ os_kobject_deinit(t)
    \/ CallOpen(t) \/ DriverInit(t) \/ DriverOpen(t) \/ SetOpenFlag(t) \/ CountOpen(t)
    \/ CallClose(t) \/ DriverClose(t)
    \/ CallTransfer(t) \/ TransferEnds(t)

Spec == Init /\ [][Next]_vars

-----------------------------------------------------------------------------
(* What the device layer owes its users.                                   *)

\* The reference count is the number of opens that have not been closed, also
\* when drivers fail to open and to close.
RefCountsOpens == \A d \in Dev : refCount[d] = Opened(d)

\* A task that has a device open can use it in the mode it asked for, whatever
\* others open and close.
UsableWhileOpen ==
  \A t \in Task, d \in Dev :
    opens[t][d] > 0 => \A mode \in Mode[t] : Usable(d, mode)

\* The driver's functions and the callbacks of its interrupt are only called
\* between its open and its close.
DriverOpenWhenUsed ==
  /\ \A d \in Dev : Indicates(d) => driver[d] = "open"
  /\ \A t \in Task : Is(t, "transfer") => driver[op[t].dev] = "open"

\* A name finds one device, and the one that was registered with it.
NamesUnique ==
  /\ \A i, j \in DOMAIN listed : i # j => name[listed[i]] # name[listed[j]]
  /\ \A d \in Dev : "REGISTER" \in flag[d] => d \in ToSet(listed)
=============================================================================
