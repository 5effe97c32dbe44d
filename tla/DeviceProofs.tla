------------------------------ MODULE DeviceProofs ------------------------------
(***************************************************************************)
(* The reference counts, the modes, the drivers and the names of devices,  *)
(* for any number of devices, tasks and opens, of an application whose     *)
(* calls do not overlap.                                                   *)
(***************************************************************************)
EXTENDS Device, FiniteSetTheorems, SequenceTheorems, WellFoundedInduction, TLAPS

-----------------------------------------------------------------------------
(* Types.                                                                  *)

LEMMA WithoutSeq ==
  ASSUME NEW S, NEW s \in Seq(S), NEW e
  PROVE  /\ Without(s, e) \in Seq(S)
         /\ IsInjective(s) => /\ IsInjective(Without(s, e))
                              /\ ToSet(Without(s, e)) = ToSet(s) \ {e}
<1>1. CASE e \notin ToSet(s)
  BY <1>1 DEF Without
<1>2. CASE e \in ToSet(s)
  <2> DEFINE j == CHOOSE i \in DOMAIN s : s[i] = e
             u == SubSeq(s, 1, j - 1)
             v == SubSeq(s, j + 1, Len(s))
             r == RemoveAt(s, j)
  <2>1. j \in 1..Len(s) /\ s[j] = e
    BY <1>2 DEF ToSet
  <2>2. Without(s, e) = r
    BY <1>2 DEF Without
  <2> HIDE DEF j
  <2>3. /\ u \in Seq(S) /\ Len(u) = j - 1 /\ \A i \in 1..(j - 1) : u[i] = s[i]
        /\ v \in Seq(S) /\ Len(v) = Len(s) - j
        /\ \A i \in 1..(Len(s) - j) : v[i] = s[j + i]
    BY <2>1
  <2>4. r = u \o v
    BY DEF RemoveAt
  <2> HIDE DEF u, v, r
  <2>5. r \in Seq(S) /\ Len(r) = Len(s) - 1
    <3>1. r \in Seq(S) /\ Len(r) = Len(u) + Len(v)
      BY <2>3, <2>4, ConcatProperties
    <3>2. QED
      BY <2>1, <2>3, <3>1
  <2>6. ASSUME NEW i \in 1..(Len(s) - 1) PROVE r[i] = IF i < j THEN s[i] ELSE s[i + 1]
    <3>1. r[i] = IF i <= Len(u) THEN u[i] ELSE v[i - Len(u)]
      BY <2>1, <2>3, <2>4
    <3>2. CASE i < j
      BY <2>1, <2>3, <3>1, <3>2
    <3>3. CASE i >= j
      <4>1. i - (j - 1) \in 1..(Len(s) - j) /\ j + (i - (j - 1)) = i + 1 /\ ~ i <= j - 1
        BY <2>1, <3>3
      <4>2. QED
        BY <2>1, <2>3, <3>1, <3>3, <4>1
    <3>4. QED
      BY <2>1, <3>2, <3>3
  <2>7. ASSUME IsInjective(s) PROVE IsInjective(r)
    <3> DEFINE at(i) == IF i < j THEN i ELSE i + 1
    <3>1. SUFFICES ASSUME NEW a \in 1..(Len(s) - 1), NEW b \in 1..(Len(s) - 1), r[a] = r[b]
                   PROVE  a = b
      BY <2>5 DEF IsInjective
    <3>2. r[a] = s[at(a)] /\ r[b] = s[at(b)]
      BY <2>6
    <3>3. at(a) \in DOMAIN s /\ at(b) \in DOMAIN s
      BY <2>1
    <3> HIDE DEF at
    <3>4. at(a) = at(b)
      BY <2>7, <3>1, <3>2, <3>3 DEF IsInjective
    <3> USE DEF at
    <3>5. QED
      BY <2>1, <3>4
  <2>8. ASSUME IsInjective(s) PROVE ToSet(r) \subseteq ToSet(s) \ {e}
    BY SMTT(30), <2>1, <2>5, <2>6, <2>8 DEF IsInjective, ToSet
  <2>9. ASSUME NEW i \in DOMAIN s, s[i] # e PROVE s[i] \in ToSet(r)
    <3>1. CASE i < j
      BY <2>1, <2>5, <2>6, <3>1 DEF ToSet
    <3>2. CASE i > j
      <4>1. i - 1 \in DOMAIN r /\ r[i - 1] = s[i]
        BY <2>1, <2>5, <2>6, <3>2
      <4>2. QED
        BY <4>1 DEF ToSet
    <3>3. QED
      BY <2>1, <2>9, <3>1, <3>2
  <2>10. ToSet(s) \ {e} \subseteq ToSet(r)
    BY <2>9 DEF ToSet
  <2>11. QED
    BY <2>2, <2>5, <2>7, <2>8, <2>10
<1>3. QED
  BY <1>1, <1>2

LEMMA AppendSeq ==
  ASSUME NEW S, NEW s \in Seq(S), NEW e \in S
  PROVE  /\ ToSet(Append(s, e)) = ToSet(s) \cup {e}
         /\ IsInjective(s) /\ e \notin ToSet(s) => IsInjective(Append(s, e))
<1> DEFINE r == Append(s, e)
<1>1. /\ DOMAIN r = 1..(Len(s) + 1) /\ DOMAIN s = 1..Len(s) /\ Len(s) \in Nat
      /\ \A i \in 1..Len(s) : r[i] = s[i]
      /\ r[Len(s) + 1] = e
  OBVIOUS
<1> HIDE DEF r
<1>2. ToSet(s) \cup {e} \subseteq ToSet(r)
  BY <1>1 DEF ToSet
<1>3. ASSUME NEW i \in DOMAIN r PROVE r[i] \in ToSet(s) \cup {e}
  <2>1. CASE i = Len(s) + 1
    BY <1>1, <2>1
  <2>2. CASE i \in 1..Len(s)
    BY <1>1, <2>2 DEF ToSet
  <2>3. QED
    BY <1>1, <2>1, <2>2
<1>4. ASSUME IsInjective(s), e \notin ToSet(s), NEW i \in DOMAIN r, NEW j \in DOMAIN r, r[i] = r[j]
      PROVE  i = j
  <2>1. \A h \in 1..Len(s) : r[h] # e
    BY <1>1, <1>4 DEF ToSet
  <2>2. CASE i \in 1..Len(s) /\ j \in 1..Len(s)
    BY <1>1, <1>4, <2>2 DEF IsInjective
  <2>3. CASE i = Len(s) + 1 \/ j = Len(s) + 1
    BY <1>1, <1>4, <2>1, <2>3
  <2>4. QED
    BY <1>1, <2>2, <2>3
<1>5. ToSet(r) = ToSet(s) \cup {e}
  BY <1>2, <1>3 DEF ToSet
<1>6. IsInjective(s) /\ e \notin ToSet(s) => IsInjective(r)
  BY <1>4 DEF IsInjective
<1>7. QED
  BY <1>5, <1>6 DEF r

LEMMA TypeInit == Init => TypeOK
<1> SUFFICES ASSUME Init PROVE TypeOK
  OBVIOUS
<1>1. listed \in Seq(Dev) /\ name \in [Dev -> Seq(STRING)]
  <2>1. UartName \in Seq(STRING) /\ <<>> \in Seq(STRING) /\ Uart \in Dev
    BY DeviceAssumption
  <2>2. <<Uart>> \in Seq(Dev)
    BY <2>1
  <2>3. listed = <<Uart>> /\ name = [d \in Dev |-> IF d = Uart THEN UartName ELSE <<>>]
    BY DEF Init
  <2>4. [d \in Dev |-> IF d = Uart THEN UartName ELSE <<>>] \in [Dev -> Seq(STRING)]
    <3> DEFINE S == Seq(STRING)
               e == <<>>
    <3>1. UartName \in S /\ e \in S
      BY <2>1
    <3> HIDE DEF S, e
    <3>2. [d \in Dev |-> IF d = Uart THEN UartName ELSE e] \in [Dev -> S]
      BY <3>1
    <3>3. QED
      BY <3>2 DEF S, e
  <2>5. QED
    BY <2>2, <2>3, <2>4
<1>2. flag \in [Dev -> SUBSET {"READ", "WRITE", "REGISTER", "INIT", "OPEN"}]
  BY DEF Init
<1>3. openFlag \in [Dev -> SUBSET {"READ", "WRITE"}]
  BY DeviceAssumption DEF Init
<1>4. refCount \in [Dev -> 0..(RefWrap - 1)] /\ driver \in [Dev -> {"off", "ready", "open"}]
  <2>1. 0 \in 0..(RefWrap - 1) /\ 1 \in 0..(RefWrap - 1)
    BY DeviceAssumption
  <2>2. QED
    BY <2>1 DEF Init
<1>5. mutex \in Task \cup {NULL} /\ op \in [Task -> [at : Places, dev : Dev, name : Names]]
  BY DeviceAssumption DEF Init, Places
<1>6. opens \in [Owner -> [Dev -> Nat]]
  BY DEF Init
<1>7. QED
  BY <1>1, <1>2, <1>3, <1>4, <1>5, <1>6 DEF TypeOK

LEMMA MinOfNats == ASSUME NEW S \in SUBSET Nat, S # {}
                   PROVE  Min(S) \in S /\ \A y \in S : Min(S) <= y
<1> DEFINE R == OpToRel(<, Nat)
<1>1. IsWellFoundedOn(R, Nat)
  BY NatLessThanWellFounded
<1>2. \A x, y \in Nat : x < y => <<x, y>> \in R
  BY DEF OpToRel
<1> HIDE DEF R
<1>3. PICK x \in S : \A y \in S : ~ (<<y, x>> \in R)
  BY <1>1, WFMin
<1>4. \A y \in S : ~ (y < x)
  BY <1>2, <1>3, Zenon
<1>5. \A y \in S : x <= y
  BY <1>4
<1>6. QED
  BY <1>5 DEF Min

LEMMA Found ==
  ASSUME listed \in Seq(Dev), NEW n
  PROVE  LET d == os_device_find(n)
         IN /\ d # NULL => d \in Dev /\ d \in ToSet(listed) /\ name[d] = n
            /\ d = NULL => \A i \in DOMAIN listed : name[listed[i]] # n
<1> DEFINE at == {i \in DOMAIN listed : name[listed[i]] = n}
<1>1. os_device_find(n) = IF at = {} THEN NULL ELSE listed[Min(at)]
  BY DEF os_device_find
<1>2. at \in SUBSET Nat /\ at \subseteq DOMAIN listed
  OBVIOUS
<1>3. at # {} => Min(at) \in at
  BY <1>2, MinOfNats
<1>4. \A i \in DOMAIN listed : listed[i] \in Dev /\ listed[i] # NULL
  BY DeviceAssumption
<1>5. QED
  BY <1>1, <1>3, <1>4 DEF ToSet

LEMMA TypeStep == ASSUME TypeOK, Next PROVE TypeOK'
<1> DEFINE Flags == SUBSET {"READ", "WRITE", "REGISTER", "INIT", "OPEN"}
           Modes == SUBSET {"READ", "WRITE"}
           Calls == [at : Places, dev : Dev, name : Names]
           Str == Seq(STRING)
<1>1. /\ listed \in Seq(Dev) /\ name \in [Dev -> Str] /\ flag \in [Dev -> Flags]
      /\ openFlag \in [Dev -> Modes] /\ refCount \in [Dev -> 0..(RefWrap - 1)]
      /\ driver \in [Dev -> {"off", "ready", "open"}] /\ mutex \in Task \cup {NULL}
      /\ op \in [Task -> Calls] /\ opens \in [Owner -> [Dev -> Nat]]
  BY DEF TypeOK
<1>2. SUFFICES /\ listed' \in Seq(Dev) /\ name' \in [Dev -> Str] /\ flag' \in [Dev -> Flags]
               /\ openFlag' \in [Dev -> Modes] /\ refCount' \in [Dev -> 0..(RefWrap - 1)]
               /\ driver' \in [Dev -> {"off", "ready", "open"}] /\ mutex' \in Task \cup {NULL}
               /\ op' \in [Task -> Calls] /\ opens' \in [Owner -> [Dev -> Nat]]
  BY DEF TypeOK
<1>3. PICK t \in Task :
        \/ CallRegister(t) \/ Prepare(t) \/ AddToList(t) \/ MarkRegistered(t)
        \/ Unregister(t) \/ os_kobject_deinit(t)
        \/ CallOpen(t) \/ DriverInit(t) \/ DriverOpen(t) \/ SetOpenFlag(t) \/ CountOpen(t)
        \/ CallClose(t) \/ DriverClose(t)
        \/ CallTransfer(t) \/ TransferEnds(t)
  BY DEF Next
<1>4. /\ op[t].dev \in Dev /\ op[t].name \in Names /\ t \in Owner
      /\ \A c \in Calls, p \in Places, d \in Dev :
           /\ [c EXCEPT !.at = p] \in Calls
           /\ [c EXCEPT !.at = p, !.dev = d] \in Calls
           /\ [c EXCEPT !.dev = d, !.at = p] \in Calls
  BY <1>1 DEF Owner
<1>5. \A p \in {"idle", "find", "add", "remove", "init", "open", "opened",
                "count", "close", "transfer"} : p \in Places
  BY DEF Places
<1> HIDE DEF Str, Calls, Flags, Modes
<1>6. ASSUME NEW p \in Places, GoTo(t, p) PROVE op' \in [Task -> Calls]
  <2>1. op' = [op EXCEPT ![t] = [op[t] EXCEPT !.at = p]]
    BY <1>6 DEF GoTo
  <2>2. op[t] \in Calls
    BY <1>1
  <2>3. QED
    BY <1>1, <1>4, <2>1, <2>2
<1>7. CASE CallRegister(t)
  <2>1. PICK d \in Dev, n \in Names : op' = [op EXCEPT ![t] = [at |-> "find", dev |-> d, name |-> n]]
    BY <1>7 DEF CallRegister
  <2>2. [at |-> "find", dev |-> d, name |-> n] \in Calls
    BY <1>5 DEF Calls
  <2>3. QED
    BY <1>1, <1>7, <2>1, <2>2 DEF CallRegister, devVars
<1>8. CASE Prepare(t)
  <2>1. os_kobject_init(name[op[t].dev], op[t].name) \in Str
    <3>1. name[op[t].dev] \in Str /\ op[t].name \in Str
      BY <1>1, <1>4, DeviceAssumption DEF Str
    <3>2. ASSUME NEW m \in Str, NEW n \in Str
          PROVE  n \o SubSeq(m, Len(n) + 1, Len(m)) \in Str
      <4>1. SubSeq(m, Len(n) + 1, Len(m)) \in Seq(STRING)
        BY SubSeqProperties DEF Str
      <4>2. QED
        BY <4>1, ConcatProperties DEF Str
    <3>3. QED
      BY <3>1, <3>2 DEF os_kobject_init
  <2>2. 0 \in 0..(RefWrap - 1)
    BY DeviceAssumption
  <2>3. name' \in [Dev -> Str]
    BY <1>1, <1>4, <1>8, <2>1 DEF Prepare
  <2>4. flag' \in [Dev -> Flags]
    <3>1. {"READ", "WRITE"} \in Flags
      BY DEF Flags
    <3>2. QED
      BY <1>1, <1>4, <1>8, <3>1 DEF Prepare
  <2>5. openFlag' \in [Dev -> Modes]
    BY <1>1, <1>4, <1>8 DEF Prepare, Modes
  <2>6. refCount' \in [Dev -> 0..(RefWrap - 1)]
    BY <1>1, <1>4, <1>8, <2>2 DEF Prepare
  <2>7. op' \in [Task -> Calls]
    BY <1>5, <1>6, <1>8 DEF Prepare
  <2>8. QED
    BY <1>1, <1>8, <2>3, <2>4, <2>5, <2>6, <2>7 DEF Prepare
<1>9. CASE AddToList(t)
  <2>1. listed' \in Seq(Dev)
    <3>1. listed' = Append(listed, op[t].dev)
      BY <1>9 DEF AddToList
    <3>2. QED
      BY <1>1, <1>4, <3>1, AppendProperties
  <2>2. mutex' \in Task \cup {NULL}
    BY <1>9 DEF AddToList
  <2>3. QED
    BY <1>1, <1>9, <2>1, <2>2 DEF AddToList
<1>10. CASE MarkRegistered(t)
  <2>1. flag' \in [Dev -> Flags]
    BY <1>1, <1>4, <1>10 DEF MarkRegistered, Flags
  <2>2. op' \in [Task -> Calls]
    BY <1>5, <1>6, <1>10 DEF MarkRegistered
  <2>3. mutex' \in Task \cup {NULL}
    BY <1>10 DEF MarkRegistered
  <2>4. QED
    BY <1>1, <1>10, <2>1, <2>2, <2>3 DEF MarkRegistered
<1>11. CASE Unregister(t)
  <2>1. PICK d \in Dev : /\ flag' = [flag EXCEPT ![d] = @ \ {"REGISTER"}]
                         /\ op' = [op EXCEPT ![t] = [op[t] EXCEPT !.at = "remove", !.dev = d]]
    BY <1>11 DEF Unregister
  <2>2. \A F \in Flags : F \ {"REGISTER"} \in Flags
    BY DEF Flags
  <2>3. flag' \in [Dev -> Flags]
    BY <1>1, <2>1, <2>2
  <2>4. op[t] \in Calls /\ "remove" \in Places
    BY <1>1, <1>5
  <2>5. [op[t] EXCEPT !.at = "remove", !.dev = d] \in Calls
    BY <1>4, <2>4
  <2>6. op' \in [Task -> Calls]
    BY <1>1, <2>1, <2>5
  <2>7. QED
    BY <1>1, <1>11, <2>3, <2>6 DEF Unregister
<1>12. CASE os_kobject_deinit(t)
  <2>1. listed' \in Seq(Dev)
    BY <1>1, <1>12, WithoutSeq DEF os_kobject_deinit
  <2>2. QED
    BY <1>1, <1>4, <1>5, <1>6, <1>12, <2>1 DEF os_kobject_deinit
<1>13. CASE CallOpen(t)
  <2>1. PICK n \in Names :
          LET d == os_device_find(n)
          IN /\ d # NULL
             /\ op' = [op EXCEPT ![t] = [at |-> IF "INIT" \in flag[d] THEN "open" ELSE "init",
                                         dev |-> d, name |-> n]]
    BY <1>13 DEF CallOpen
  <2>2. os_device_find(n) \in Dev
    BY <1>1, <2>1, Found
  <2>3. ASSUME NEW d \in Dev
        PROVE  [at |-> IF "INIT" \in flag[d] THEN "open" ELSE "init", dev |-> d, name |-> n] \in Calls
    BY <1>5 DEF Calls
  <2>4. QED
    BY <1>1, <1>13, <2>1, <2>2, <2>3 DEF CallOpen, devVars
<1>14. CASE DriverInit(t)
  <2>1. \A F \in Flags : F \cup {"INIT"} \in Flags
    BY DEF Flags
  <2>2. flag' \in [Dev -> Flags]
    <3> DEFINE d == op[t].dev
    <3>1. flag' = flag \/ flag' = [flag EXCEPT ![d] = flag[d] \cup {"INIT"}]
      BY <1>14 DEF DriverInit
    <3>2. d \in Dev
      BY <1>4
    <3> HIDE DEF d
    <3>3. flag[d] \cup {"INIT"} \in Flags
      BY <1>1, <2>1, <3>2
    <3>4. QED
      BY <1>1, <3>1, <3>3
  <2>3. driver' \in [Dev -> {"off", "ready", "open"}]
    BY <1>1, <1>4, <1>14 DEF DriverInit
  <2>4. op' \in [Task -> Calls]
    BY <1>5, <1>6, <1>14 DEF DriverInit
  <2>5. QED
    BY <1>1, <1>14, <2>2, <2>3, <2>4 DEF DriverInit
<1>15. CASE DriverOpen(t)
  <2>1. driver' \in [Dev -> {"off", "ready", "open"}]
    BY <1>1, <1>4, <1>15 DEF DriverOpen
  <2>2. op' \in [Task -> Calls]
    BY <1>5, <1>6, <1>15 DEF DriverOpen
  <2>3. QED
    BY <1>1, <1>15, <2>1, <2>2 DEF DriverOpen
<1>16. CASE SetOpenFlag(t)
  <2>1. Mode[t] \in Modes
    BY DeviceAssumption DEF Modes
  <2>2. openFlag' \in [Dev -> Modes]
    BY <1>1, <1>4, <1>16, <2>1 DEF SetOpenFlag, JoinMode, Modes
  <2>3. op' \in [Task -> Calls]
    BY <1>5, <1>6, <1>16 DEF SetOpenFlag
  <2>4. QED
    BY <1>1, <1>16, <2>1, <2>2, <2>3 DEF SetOpenFlag
<1>17. CASE CountOpen(t)
  <2>1. \A c \in 0..(RefWrap - 1) : OneMore(c) \in 0..(RefWrap - 1)
    BY DeviceAssumption DEF OneMore
  <2>2. refCount' \in [Dev -> 0..(RefWrap - 1)]
    BY <1>1, <1>4, <1>17, <2>1 DEF CountOpen
  <2>3. flag' \in [Dev -> Flags]
    BY <1>1, <1>4, <1>17 DEF CountOpen, Flags
  <2>4. opens' \in [Owner -> [Dev -> Nat]]
    <3> DEFINE d == op[t].dev
               new == [opens[t] EXCEPT ![d] = @ + 1]
    <3>1. opens' = [opens EXCEPT ![t] = new]
      BY <1>17 DEF CountOpen
    <3>2. opens[t] \in [Dev -> Nat] /\ d \in Dev
      BY <1>1, <1>4
    <3> HIDE DEF d
    <3>3. new \in [Dev -> Nat]
      BY <3>2
    <3> HIDE DEF new
    <3>4. QED
      BY <1>1, <1>4, <3>1, <3>3
  <2>5. op' \in [Task -> Calls]
    BY <1>5, <1>6, <1>17 DEF CountOpen
  <2>6. QED
    BY <1>1, <1>17, <2>1, <2>2, <2>3, <2>4, <2>5 DEF CountOpen
<1>18. CASE CallClose(t)
  <2>1. PICK d \in Dev :
          /\ opens[t][d] > 0 /\ refCount[d] # 0
          /\ refCount' = [refCount EXCEPT ![d] = @ - 1]
          /\ opens' = [opens EXCEPT ![t] = [opens[t] EXCEPT ![d] = @ - 1]]
          /\ op' = [op EXCEPT ![t] = [op[t] EXCEPT !.dev = d,
                      !.at = IF LastClose(refCount'[d]) THEN "close" ELSE "idle"]]
    BY <1>18 DEF CallClose
  <2>2. refCount' \in [Dev -> 0..(RefWrap - 1)]
    BY <1>1, <2>1, DeviceAssumption
  <2> DEFINE new == [opens[t] EXCEPT ![d] = @ - 1]
             p == IF LastClose(refCount'[d]) THEN "close" ELSE "idle"
  <2>3. opens[t] \in [Dev -> Nat] /\ op[t] \in Calls /\ p \in Places
    BY <1>1, <1>4, <1>5
  <2>4. new \in [Dev -> Nat]
    BY <2>1, <2>3
  <2>5. opens' = [opens EXCEPT ![t] = new] /\ op' = [op EXCEPT ![t] = [op[t] EXCEPT !.dev = d, !.at = p]]
    BY <2>1
  <2> HIDE DEF new, p
  <2>6. opens' \in [Owner -> [Dev -> Nat]]
    BY <1>1, <1>4, <2>4, <2>5
  <2>7. [op[t] EXCEPT !.dev = d, !.at = p] \in Calls
    BY <1>4, <2>3
  <2>8. op' \in [Task -> Calls]
    BY <1>1, <2>5, <2>7
  <2>9. QED
    BY <1>1, <1>18, <2>2, <2>6, <2>8 DEF CallClose
<1>19. CASE DriverClose(t)
  <2>1. driver' \in [Dev -> {"off", "ready", "open"}]
    BY <1>1, <1>4, <1>19 DEF DriverClose
  <2>2. openFlag' \in [Dev -> Modes]
    BY <1>1, <1>4, <1>19 DEF DriverClose, Modes
  <2>3. op' \in [Task -> Calls]
    BY <1>5, <1>6, <1>19 DEF DriverClose
  <2>4. QED
    BY <1>1, <1>19, <2>1, <2>2, <2>3 DEF DriverClose
<1>20. CASE CallTransfer(t)
  <2>1. PICK d \in Dev : op' = [op EXCEPT ![t] = [op[t] EXCEPT !.at = "transfer", !.dev = d]]
    BY <1>20 DEF CallTransfer
  <2>2. op[t] \in Calls /\ "transfer" \in Places
    BY <1>1, <1>5
  <2>3. [op[t] EXCEPT !.at = "transfer", !.dev = d] \in Calls
    BY <1>4, <2>2
  <2>4. op' \in [Task -> Calls]
    BY <1>1, <2>1, <2>3
  <2>5. QED
    BY <1>1, <1>20, <2>4 DEF CallTransfer, devVars
<1>21. CASE TransferEnds(t)
  <2>1. op' \in [Task -> Calls]
    BY <1>5, <1>6, <1>21 DEF TransferEnds
  <2>2. QED
    BY <1>1, <1>21, <2>1 DEF TransferEnds, devVars
<1>22. QED
  BY <1>3, <1>7, <1>8, <1>9, <1>10, <1>11, <1>12, <1>13, <1>14, <1>15, <1>16, <1>17, <1>18,
     <1>19, <1>20, <1>21

\* The device layer keeps its types.
THEOREM TypeCorrect == Spec => []TypeOK
<1>1. TypeOK /\ [Next]_vars => TypeOK'
  <2> SUFFICES ASSUME TypeOK, [Next]_vars PROVE TypeOK'
    OBVIOUS
  <2>1. CASE UNCHANGED vars
    BY <2>1 DEF TypeOK, vars, devVars
  <2>2. QED
    BY <2>1, TypeStep
<1>2. QED
  BY <1>1, TypeInit, PTL DEF Spec

-----------------------------------------------------------------------------
(* One call at a time, and what it may rely on.                            *)

Busy(t) == op[t].at \notin {"idle", "transfer"}

\* No two tasks are in a call that changes devices, and who has the mutex is in
\* one that takes it.
SerialInv ==
  /\ \A t, u \in Task : Busy(t) /\ Busy(u) => t = u
  /\ \A t \in Task : op[t].at = "remove" => mutex = t
  /\ mutex # NULL => op[mutex].at \in {"add", "remove"}

\* The device of a call that opens it is initialised, and then open and in the
\* caller's mode; the one of a call that closes it is open no more.
PhaseInv(t) ==
  LET d == op[t].dev
  IN /\ op[t].at = "find" => Opened(d) = 0
     /\ op[t].at = "init" => "INIT" \notin flag[d]
     /\ op[t].at \in {"init", "open", "opened", "count"} => opens[t][d] < MaxOpens
     /\ op[t].at \in {"open", "opened", "count"} => "INIT" \in flag[d]
     /\ op[t].at \in {"opened", "count"} => driver[d] = "open"
     /\ op[t].at = "count" => Mode[t] \subseteq openFlag[d]
     /\ op[t].at = "close" => Opened(d) = 0
     /\ op[t].at = "transfer" => opens[t][d] > 0

\* What is counted is open, and in the modes of all who opened it.
OpenInv(d) ==
  /\ refCount[d] = Opened(d)
  /\ refCount[d] # 0 => "INIT" \in flag[d] /\ driver[d] = "open"
  /\ \A t \in Owner : /\ opens[t][d] <= MaxOpens
                      /\ opens[t][d] > 0 => Mode[t] \subseteq openFlag[d]

CountInv == SerialInv /\ (\A t \in Task : PhaseInv(t)) /\ (\A d \in Dev : OpenInv(d))

\* The device that is being registered is in the list once it has been added, and
\* has a name that is not in use before.
RegisterInv(t) ==
  LET d == op[t].dev
  IN /\ op[t].at = "find" => d \notin ToSet(listed)
     /\ op[t].at = "add" /\ mutex = NULL =>
          d \notin ToSet(listed) /\ \A i \in DOMAIN listed : name[listed[i]] # name[d]
     /\ op[t].at = "add" /\ mutex # NULL => d \in ToSet(listed)
     /\ op[t].at = "remove" => "REGISTER" \notin flag[d]

NameInv ==
  /\ SerialInv /\ NamesUnique
  /\ \A d \in Dev : name[d] \in Names \cup {<<>>}
  /\ \A t \in Task : RegisterInv(t)

-----------------------------------------------------------------------------
(* Counting opens.                                                         *)

\* One element for every open of a device that task t has opened f[t] times.
HandlesOf(f) == {h \in Owner \X (1..MaxOpens) : h[2] <= f[h[1]]}

LEMMA AllHandles ==
  /\ IsFiniteSet(Owner \X (1..MaxOpens))
  /\ Cardinality(Owner \X (1..MaxOpens)) \in Nat
<1>1. IsFiniteSet(Owner)
  BY DeviceAssumption, FS_Union, FS_Singleton DEF Owner
<1>2. IsFiniteSet(1..MaxOpens)
  BY DeviceAssumption, FS_Interval
<1>3. QED
  BY <1>1, <1>2, FS_Product, FS_CardinalityType

LEMMA HandlesFinite ==
  ASSUME NEW f \in [Owner -> Nat]
  PROVE  /\ IsFiniteSet(HandlesOf(f)) /\ Cardinality(HandlesOf(f)) \in Nat
         /\ Cardinality(HandlesOf(f)) <= Cardinality(Owner \X (1..MaxOpens))
         /\ Cardinality(HandlesOf(f)) = 0 <=> \A t \in Owner : f[t] = 0
<1>1. HandlesOf(f) \subseteq Owner \X (1..MaxOpens)
  BY DEF HandlesOf
<1>2. /\ IsFiniteSet(HandlesOf(f))
      /\ Cardinality(HandlesOf(f)) <= Cardinality(Owner \X (1..MaxOpens))
  BY <1>1, AllHandles, FS_Subset
<1>3. Cardinality(HandlesOf(f)) \in Nat
  BY <1>2, FS_CardinalityType
<1>4. Cardinality(HandlesOf(f)) = 0 <=> HandlesOf(f) = {}
  BY <1>2, FS_EmptySet
<1>5. ASSUME NEW t \in Owner, f[t] # 0 PROVE HandlesOf(f) # {}
  <2>1. <<t, 1>> \in Owner \X (1..MaxOpens) /\ 1 <= f[t]
    BY <1>5, DeviceAssumption
  <2>2. <<t, 1>> \in HandlesOf(f)
    BY <2>1 DEF HandlesOf
  <2>3. QED
    BY <2>2
<1>6. ASSUME NEW h \in HandlesOf(f) PROVE \E t \in Owner : f[t] # 0
  BY <1>6 DEF HandlesOf
<1>7. QED
  BY <1>2, <1>3, <1>4, <1>5, <1>6

LEMMA OneHandleMore ==
  ASSUME NEW f \in [Owner -> Nat], NEW g \in [Owner -> Nat], NEW t \in Owner,
         f[t] < MaxOpens, g[t] = f[t] + 1, \A u \in Owner \ {t} : g[u] = f[u]
  PROVE  Cardinality(HandlesOf(g)) = Cardinality(HandlesOf(f)) + 1
<1> DEFINE n == f[t] + 1
<1>1. n \in 1..MaxOpens
  BY DeviceAssumption
<1>2. <<t, n>> \notin HandlesOf(f)
  BY DEF HandlesOf
<1>3. ASSUME NEW u \in Owner, NEW i \in 1..MaxOpens
      PROVE  i <= g[u] <=> i <= f[u] \/ <<u, i>> = <<t, n>>
  BY DeviceAssumption
<1>4. HandlesOf(g) = HandlesOf(f) \cup {<<t, n>>}
  BY <1>1, <1>3 DEF HandlesOf
<1>5. QED
  BY <1>2, <1>4, HandlesFinite, FS_AddElement

Column(o, d) == [t \in Owner |-> o[t][d]]

LEMMA OpenedIs == ASSUME NEW d \in Dev
                  PROVE  Opened(d) = Cardinality(HandlesOf(Column(opens, d)))
<1>1. OpensOf(d) = HandlesOf(Column(opens, d))
  BY DEF OpensOf, HandlesOf, Column
<1>2. QED
  BY <1>1 DEF Opened

LEMMA OpenedIsNext == ASSUME NEW d \in Dev
                      PROVE  Opened(d)' = Cardinality(HandlesOf(Column(opens', d)))
<1>1. OpensOf(d)' = HandlesOf(Column(opens', d))
  BY DEF OpensOf, HandlesOf, Column
<1>2. QED
  BY <1>1 DEF Opened

LEMMA OpenedBounds ==
  ASSUME opens \in [Owner -> [Dev -> Nat]], NEW d \in Dev
  PROVE  /\ Opened(d) \in Nat /\ Opened(d) <= Cardinality(Owner \X (1..MaxOpens))
         /\ Opened(d) = 0 <=> \A t \in Owner : opens[t][d] = 0
<1> DEFINE f == Column(opens, d)
<1>1. f \in [Owner -> Nat] /\ \A t \in Owner : f[t] = opens[t][d]
  BY DEF Column
<1>2. Opened(d) = Cardinality(HandlesOf(f))
  BY OpenedIs
<1> HIDE DEF f
<1>3. QED
  BY <1>1, <1>2, HandlesFinite

LEMMA OpenedBoundsNext ==
  ASSUME opens' \in [Owner -> [Dev -> Nat]], NEW d \in Dev
  PROVE  /\ Opened(d)' \in Nat /\ Opened(d)' <= Cardinality(Owner \X (1..MaxOpens))
         /\ Opened(d)' = 0 <=> \A t \in Owner : opens'[t][d] = 0
<1> DEFINE f == Column(opens', d)
<1>1. f \in [Owner -> Nat] /\ \A t \in Owner : f[t] = opens'[t][d]
  BY DEF Column
<1>2. Opened(d)' = Cardinality(HandlesOf(f))
  BY OpenedIsNext
<1> HIDE DEF f
<1>3. QED
  BY <1>1, <1>2, HandlesFinite

LEMMA OpenedKept ==
  ASSUME UNCHANGED opens, NEW d \in Dev PROVE Opened(d)' = Opened(d)
BY DEF Opened, OpensOf

\* Task t opens device d once more.
OpensMore(o, n, t, d) ==
  /\ o \in [Owner -> [Dev -> Nat]] /\ n \in [Owner -> [Dev -> Nat]]
  /\ o[t][d] < MaxOpens /\ n[t][d] = o[t][d] + 1
  /\ \A u \in Owner, c \in Dev : u # t \/ c # d => n[u][c] = o[u][c]

\* The number of opens of one device grows by one, that of others stays.
LEMMA OpenedMore ==
  ASSUME NEW o, NEW n, NEW t \in Owner, NEW d \in Dev, OpensMore(o, n, t, d), NEW e \in Dev
  PROVE  Cardinality(HandlesOf(Column(n, e))) =
         Cardinality(HandlesOf(Column(o, e))) + IF e = d THEN 1 ELSE 0
<1> DEFINE f == Column(o, e)
           g == Column(n, e)
<1>1. /\ f \in [Owner -> Nat] /\ g \in [Owner -> Nat]
      /\ \A u \in Owner : f[u] = o[u][e] /\ g[u] = n[u][e]
  BY DEF Column, OpensMore
<1> HIDE DEF f, g
<1>2. CASE e = d
  <2>1. f[t] < MaxOpens /\ g[t] = f[t] + 1 /\ \A u \in Owner \ {t} : g[u] = f[u]
    BY <1>1, <1>2 DEF OpensMore
  <2>2. Cardinality(HandlesOf(g)) = Cardinality(HandlesOf(f)) + 1
    BY <1>1, <2>1, OneHandleMore
  <2>3. QED
    BY <1>2, <2>2 DEF f, g
<1>3. CASE e # d
  <2>1. \A u \in Owner : g[u] = f[u]
    BY <1>1, <1>3 DEF OpensMore
  <2>2. g = f
    BY <1>1, <2>1
  <2>3. Cardinality(HandlesOf(f)) \in Nat
    BY <1>1, HandlesFinite
  <2>4. Cardinality(HandlesOf(g)) = Cardinality(HandlesOf(f)) + 0
    BY <2>2, <2>3
  <2>5. QED
    BY <1>3, <2>4 DEF f, g
<1>4. QED
  BY <1>2, <1>3

LEMMA AfterOpen ==
  ASSUME opens \in [Owner -> [Dev -> Nat]], NEW t \in Owner, NEW d \in Dev,
         opens[t][d] < MaxOpens, opens' = [opens EXCEPT ![t][d] = @ + 1]
  PROVE  /\ \A e \in Dev : Opened(e)' = Opened(e) + IF e = d THEN 1 ELSE 0
         /\ opens' \in [Owner -> [Dev -> Nat]]
         /\ opens'[t][d] = opens[t][d] + 1
         /\ \A u \in Owner, c \in Dev : u # t \/ c # d => opens'[u][c] = opens[u][c]
<1>1. opens' \in [Owner -> [Dev -> Nat]]
  <2> DEFINE new == [opens[t] EXCEPT ![d] = @ + 1]
  <2>1. opens' = [opens EXCEPT ![t] = new]
    OBVIOUS
  <2>2. opens[t] \in [Dev -> Nat] /\ opens[t][d] + 1 \in Nat
    OBVIOUS
  <2>3. new \in [Dev -> Nat]
    BY <2>2
  <2> HIDE DEF new
  <2>4. QED
    BY <2>1, <2>3
<1>2. /\ opens'[t][d] = opens[t][d] + 1
      /\ \A u \in Owner, c \in Dev : u # t \/ c # d => opens'[u][c] = opens[u][c]
  OBVIOUS
<1>3. ASSUME NEW e \in Dev PROVE Opened(e)' = Opened(e) + IF e = d THEN 1 ELSE 0
  <2>1. OpensMore(opens, opens', t, d)
    BY <1>1, <1>2 DEF OpensMore
  <2>2. /\ Opened(e) = Cardinality(HandlesOf(Column(opens, e)))
        /\ Opened(e)' = Cardinality(HandlesOf(Column(opens', e)))
    BY OpenedIs, OpenedIsNext
  <2>3. QED
    BY <2>1, <2>2, OpenedMore
<1>4. QED
  BY <1>1, <1>2, <1>3

LEMMA AfterClose ==
  ASSUME opens \in [Owner -> [Dev -> Nat]], NEW t \in Owner, NEW d \in Dev,
         opens[t][d] > 0, opens[t][d] <= MaxOpens, opens' = [opens EXCEPT ![t][d] = @ - 1]
  PROVE  /\ \A e \in Dev : Opened(e) = Opened(e)' + IF e = d THEN 1 ELSE 0
         /\ opens' \in [Owner -> [Dev -> Nat]]
         /\ opens'[t][d] = opens[t][d] - 1
         /\ \A u \in Owner, c \in Dev : u # t \/ c # d => opens'[u][c] = opens[u][c]
<1>1. opens' \in [Owner -> [Dev -> Nat]]
  <2> DEFINE new == [opens[t] EXCEPT ![d] = @ - 1]
  <2>1. opens' = [opens EXCEPT ![t] = new]
    OBVIOUS
  <2>2. opens[t] \in [Dev -> Nat] /\ opens[t][d] - 1 \in Nat
    OBVIOUS
  <2>3. new \in [Dev -> Nat]
    BY <2>2
  <2> HIDE DEF new
  <2>4. QED
    BY <2>1, <2>3
<1>2. /\ opens'[t][d] = opens[t][d] - 1
      /\ \A u \in Owner, c \in Dev : u # t \/ c # d => opens'[u][c] = opens[u][c]
  OBVIOUS
<1>3. /\ opens'[t][d] < MaxOpens /\ opens[t][d] = opens'[t][d] + 1
      /\ \A u \in Owner, c \in Dev : u # t \/ c # d => opens[u][c] = opens'[u][c]
  <2>1. opens[t][d] \in Nat /\ MaxOpens \in Nat
    BY DeviceAssumption
  <2>2. QED
    BY <1>2, <2>1
<1>4. ASSUME NEW e \in Dev PROVE Opened(e) = Opened(e)' + IF e = d THEN 1 ELSE 0
  <2>1. OpensMore(opens', opens, t, d)
    BY <1>1, <1>3 DEF OpensMore
  <2>2. /\ Opened(e) = Cardinality(HandlesOf(Column(opens, e)))
        /\ Opened(e)' = Cardinality(HandlesOf(Column(opens', e)))
    BY OpenedIs, OpenedIsNext
  <2>3. QED
    BY <2>1, <2>2, OpenedMore
<1>5. QED
  BY <1>1, <1>2, <1>4

-----------------------------------------------------------------------------
(* One call at a time.                                                     *)

\* A step of a call that changes devices; a step of a transfer.
Changes(t) ==
  \/ CallRegister(t) \/ Prepare(t) \/ AddToList(t) \/ MarkRegistered(t)
  \/ Unregister(t) \/ os_kobject_deinit(t)
  \/ CallOpen(t) \/ DriverInit(t) \/ DriverOpen(t) \/ SetOpenFlag(t) \/ CountOpen(t)
  \/ CallClose(t) \/ DriverClose(t)
Uses(t) == CallTransfer(t) \/ TransferEnds(t)

\* The other tasks are in no such call, and stay where they are.
LEMMA OthersRest ==
  ASSUME TypeOK, SerialInv, Serial, NEW t \in Task, Changes(t)
  PROVE  \A u \in Task \ {t} : ~ Busy(u) /\ op'[u] = op[u]
<1>1. ASSUME NEW p, GoTo(t, p) PROVE \A u \in Task \ {t} : op'[u] = op[u]
  BY <1>1 DEF GoTo, TypeOK
<1>2. \A u \in Task \ {t} : op'[u] = op[u]
  <2>1. CASE CallRegister(t)
    BY <2>1 DEF CallRegister, TypeOK
  <2>2. CASE Prepare(t) \/ MarkRegistered(t) \/ os_kobject_deinit(t) \/ DriverInit(t)
              \/ DriverOpen(t) \/ SetOpenFlag(t) \/ CountOpen(t) \/ DriverClose(t)
    BY <1>1, <2>2 DEF Prepare, MarkRegistered, os_kobject_deinit, DriverInit, DriverOpen,
       SetOpenFlag, CountOpen, DriverClose
  <2>3. CASE AddToList(t)
    BY <2>3 DEF AddToList
  <2>4. CASE Unregister(t)
    BY <2>4 DEF Unregister, TypeOK
  <2>5. CASE CallOpen(t)
    BY <2>5 DEF CallOpen, TypeOK
  <2>6. CASE CallClose(t)
    BY <2>6 DEF CallClose, TypeOK
  <2>7. QED
    BY <2>1, <2>2, <2>3, <2>4, <2>5, <2>6 DEF Changes
<1>3. CASE Begins(t)
  BY <1>2, <1>3 DEF Begins, Busy
<1>4. CASE Busy(t)
  BY <1>2, <1>4 DEF SerialInv
<1>5. Begins(t) \/ Busy(t)
  BY DEF Changes, Busy, Is, CallRegister, Prepare, AddToList, MarkRegistered, Unregister,
     os_kobject_deinit, CallOpen, DriverInit, DriverOpen, SetOpenFlag, CountOpen, CallClose,
     DriverClose
<1>6. QED
  BY <1>3, <1>4, <1>5

LEMMA UsesKeep ==
  ASSUME TypeOK, NEW t \in Task, Uses(t)
  PROVE  /\ UNCHANGED <<devVars, mutex, opens>> /\ ~ Busy(t) /\ ~ Busy(t)'
         /\ \A u \in Task \ {t} : op'[u] = op[u]
<1>1. CASE CallTransfer(t)
  <2>1. PICK d \in Dev : op' = [op EXCEPT ![t] = [op[t] EXCEPT !.at = "transfer", !.dev = d]]
    BY <1>1 DEF CallTransfer
  <2>2. op'[t].at = "transfer"
    BY <2>1 DEF TypeOK
  <2>3. QED
    BY <1>1, <2>1, <2>2 DEF CallTransfer, Is, Busy, TypeOK
<1>2. CASE TransferEnds(t)
  BY <1>2 DEF TransferEnds, GoTo, Is, Busy, TypeOK
<1>3. QED
  BY <1>1, <1>2 DEF Uses

LEMMA SerialStep ==
  ASSUME TypeOK, SerialInv, Serial, NEW t \in Task, Changes(t)
  PROVE  SerialInv'
<1>1. \A u \in Task \ {t} : ~ Busy(u) /\ op'[u] = op[u]
  BY OthersRest
<1>2. mutex \in {NULL, t} /\ (mutex = t => op[t].at \in {"add", "remove"})
  <2>1. CASE mutex = NULL
    BY <2>1, DeviceAssumption
  <2>2. CASE mutex # NULL
    <3>1. mutex \in Task /\ op[mutex].at \in {"add", "remove"}
      BY <2>2 DEF SerialInv, TypeOK
    <3>2. Busy(mutex)
      BY <3>1 DEF Busy
    <3>3. mutex = t
      BY <1>1, <3>1, <3>2
    <3>4. QED
      BY <3>1, <3>3
  <2>3. QED
    BY <2>1, <2>2
<1>3. op[t] \in [at : Places, dev : Dev, name : Names] /\ t # NULL
  BY DeviceAssumption DEF TypeOK
<1>4. SUFFICES /\ op'[t].at = "remove" => mutex' = t
               /\ mutex' \in {NULL, t}
               /\ mutex' = t => op'[t].at \in {"add", "remove"}
  BY <1>1 DEF SerialInv, Busy
<1>5. ASSUME NEW p, GoTo(t, p) PROVE op'[t].at = p
  BY <1>5 DEF GoTo, TypeOK
<1>6. CASE CallRegister(t)
  BY <1>2, <1>6 DEF CallRegister, Begins, Is, TypeOK
<1>7. CASE Prepare(t)
  BY <1>2, <1>5, <1>7 DEF Prepare, Is
<1>8. CASE AddToList(t)
  BY <1>2, <1>3, <1>8 DEF AddToList, Is
<1>9. CASE MarkRegistered(t) \/ os_kobject_deinit(t)
  BY <1>3, <1>5, <1>9 DEF MarkRegistered, os_kobject_deinit
<1>10. CASE Unregister(t)
  BY <1>3, <1>10 DEF Unregister, TypeOK
<1>11. CASE CallOpen(t)
  BY <1>2, <1>3, <1>11 DEF CallOpen, TypeOK
<1>12. CASE DriverInit(t) \/ DriverOpen(t) \/ SetOpenFlag(t) \/ CountOpen(t) \/ DriverClose(t)
  BY <1>2, <1>5, <1>12 DEF DriverInit, DriverOpen, SetOpenFlag, CountOpen, DriverClose, Is
<1>13. CASE CallClose(t)
  BY <1>2, <1>3, <1>13 DEF CallClose, Begins, Is, TypeOK
<1>14. QED
  BY <1>6, <1>7, <1>8, <1>9, <1>10, <1>11, <1>12, <1>13 DEF Changes

LEMMA SerialUse ==
  ASSUME TypeOK, SerialInv, NEW t \in Task, Uses(t)
  PROVE  SerialInv'
BY UsesKeep DEF SerialInv, Busy, TypeOK

-----------------------------------------------------------------------------
(* What is counted.                                                        *)

\* A task that stays where it is and keeps what it has opened.
LEMMA PhaseKept ==
  ASSUME NEW t \in Task, PhaseInv(t), ~ Busy(t), op'[t] = op[t],
         opens'[t][op[t].dev] = opens[t][op[t].dev]
  PROVE  PhaseInv(t)'
BY DEF PhaseInv, Busy

LEMMA CountUse ==
  ASSUME TypeOK, CountInv, NEW t \in Task, Uses(t), Serial
  PROVE  CountInv'
<1>1. /\ UNCHANGED <<devVars, mutex, opens>> /\ ~ Busy(t) /\ ~ Busy(t)'
      /\ \A u \in Task \ {t} : op'[u] = op[u]
  BY UsesKeep
<1>2. \A d \in Dev : Opened(d)' = Opened(d)
  BY <1>1, OpenedKept
<1>3. op[t].dev \in Dev
  BY DEF TypeOK
<1>4. \A d \in Dev : OpenInv(d)'
  BY <1>1, <1>2 DEF CountInv, OpenInv, devVars
<1>5. ASSUME NEW u \in Task \ {t} PROVE PhaseInv(u)'
  BY <1>1, <1>2 DEF CountInv, PhaseInv, devVars, TypeOK
<1>6. op'[t].at = "transfer" => opens'[t][op'[t].dev] > 0
  <2>1. CASE CallTransfer(t)
    <3>1. PICK d \in Dev : /\ opens[t][d] > 0
                           /\ op' = [op EXCEPT ![t] = [op[t] EXCEPT !.at = "transfer", !.dev = d]]
      BY <2>1 DEF CallTransfer
    <3>2. op'[t].dev = d
      BY <3>1 DEF TypeOK
    <3>3. QED
      BY <1>1, <3>1, <3>2
  <2>2. CASE TransferEnds(t)
    BY <2>2 DEF TransferEnds, GoTo, TypeOK
  <2>3. QED
    BY <2>1, <2>2 DEF Uses
<1>7. PhaseInv(t)'
  BY <1>1, <1>6 DEF PhaseInv, Busy
<1>8. QED
  BY <1>4, <1>5, <1>7, SerialUse DEF CountInv

\* No device is open more often than the count can tell.
FewOpens == Cardinality(Owner \X (1..MaxOpens)) < RefWrap

LEMMA CountChange ==
  ASSUME TypeOK, CountInv, Serial, FewOpens, NEW t \in Task, Changes(t)
  PROVE  CountInv'
<1>0. PICK d \in Dev : d = op[t].dev
  BY DEF TypeOK
<1>1. \A u \in Task \ {t} : ~ Busy(u) /\ op'[u] = op[u]
  BY OthersRest DEF CountInv
<1>2. /\ d \in Dev /\ t \in Owner /\ Task \subseteq Owner
      /\ opens \in [Owner -> [Dev -> Nat]] /\ op[t] \in [at : Places, dev : Dev, name : Names]
      /\ flag \in [Dev -> SUBSET {"READ", "WRITE", "REGISTER", "INIT", "OPEN"}]
      /\ openFlag \in [Dev -> SUBSET {"READ", "WRITE"}]
      /\ refCount \in [Dev -> 0..(RefWrap - 1)] /\ driver \in [Dev -> {"off", "ready", "open"}]
  BY DEF TypeOK, Owner
<1>3. /\ PhaseInv(t)
      /\ \A e \in Dev : /\ OpenInv(e) /\ Opened(e) \in Nat
                        /\ Opened(e) = 0 <=> \A u \in Owner : opens[u][e] = 0
  BY <1>2, OpenedBounds DEF CountInv
<1>4. ASSUME UNCHANGED opens PROVE \A e \in Dev : Opened(e)' = Opened(e)
  BY <1>4, OpenedKept
<1>5. SUFFICES /\ PhaseInv(t)' /\ \A e \in Dev : OpenInv(e)'
               /\ \A u \in Task \ {t}, e \in Dev : opens'[u][e] = opens[u][e]
  <2>1. ASSUME NEW u \in Task \ {t}, \A e \in Dev : opens'[u][e] = opens[u][e]
        PROVE  PhaseInv(u)'
    <3>1. op[u].dev \in Dev
      BY DEF TypeOK
    <3>2. QED
      BY <1>1, <2>1, <3>1, PhaseKept DEF CountInv
  <2>2. SerialInv'
    BY SerialStep DEF CountInv
  <2>3. QED
    BY <2>1, <2>2 DEF CountInv
<1>6. ASSUME NEW p, GoTo(t, p) PROVE op'[t].at = p /\ op'[t].dev = d
  BY <1>0, <1>2, <1>6 DEF GoTo, TypeOK
<1>7. CASE CallRegister(t)
  <2>1. PICK e \in Dev, m \in Names :
          /\ Opened(e) = 0 /\ op' = [op EXCEPT ![t] = [at |-> "find", dev |-> e, name |-> m]]
    BY <1>7 DEF CallRegister
  <2>2. op'[t].at = "find" /\ op'[t].dev = e
    BY <2>1 DEF TypeOK
  <2>3. UNCHANGED <<devVars, opens>>
    BY <1>7 DEF CallRegister
  <2>4. PhaseInv(t)'
    BY <1>4, <2>1, <2>2, <2>3 DEF PhaseInv
  <2>5. QED
    BY <1>3, <1>4, <2>3, <2>4 DEF OpenInv, devVars
<1>8. CASE Prepare(t)
  <2>1. op[t].at = "find" /\ UNCHANGED <<driver, opens>>
    BY <1>8 DEF Prepare, Is
  <2>2. CASE GoTo(t, "idle") /\ UNCHANGED <<name, flag, openFlag, refCount>>
    BY <1>3, <1>4, <1>6, <2>1, <2>2 DEF PhaseInv, OpenInv
  <2>3. CASE /\ flag' = [flag EXCEPT ![d] = {"READ", "WRITE"}] /\ openFlag' = [openFlag EXCEPT ![d] = {}]
             /\ refCount' = [refCount EXCEPT ![d] = 0] /\ GoTo(t, "add")
    <3>1. Opened(d) = 0 /\ \A u \in Owner : opens[u][d] = 0
      BY <1>0, <1>2, <1>3, <2>1 DEF PhaseInv
    <3>2. OpenInv(d)'
      BY <1>2, <1>3, <1>4, <2>1, <2>3, <3>1 DEF OpenInv
    <3>3. ASSUME NEW e \in Dev \ {d} PROVE OpenInv(e)'
      BY <1>2, <1>3, <1>4, <2>1, <2>3 DEF OpenInv
    <3>4. PhaseInv(t)'
      BY <1>6, <2>3 DEF PhaseInv
    <3>5. QED
      BY <2>1, <3>2, <3>3, <3>4
  <2>4. QED
    BY <1>0, <1>8, <2>2, <2>3 DEF Prepare
<1>9. CASE AddToList(t)
  BY <1>3, <1>4, <1>9 DEF AddToList, PhaseInv, OpenInv, Is
<1>10. CASE MarkRegistered(t)
  <2>1. /\ UNCHANGED <<openFlag, refCount, driver, opens>> /\ op'[t].at = "idle"
    BY <1>6, <1>10 DEF MarkRegistered
  <2>2. \A e \in Dev : "INIT" \in flag[e] => "INIT" \in flag'[e]
    BY <1>2, <1>10 DEF MarkRegistered
  <2>3. QED
    BY <1>3, <1>4, <2>1, <2>2 DEF PhaseInv, OpenInv
<1>11. CASE Unregister(t)
  <2>1. PICK e \in Dev : /\ flag' = [flag EXCEPT ![e] = flag[e] \ {"REGISTER"}]
                         /\ op' = [op EXCEPT ![t] = [op[t] EXCEPT !.at = "remove", !.dev = e]]
    BY <1>2, <1>11 DEF Unregister
  <2>2. UNCHANGED <<openFlag, refCount, driver, opens>>
    BY <1>11 DEF Unregister
  <2>3. op'[t].at = "remove"
    BY <1>2, <2>1 DEF TypeOK
  <2>4. \A c \in Dev : "INIT" \in flag[c] => "INIT" \in flag'[c]
    BY <1>2, <2>1
  <2>5. QED
    BY <1>3, <1>4, <2>2, <2>3, <2>4 DEF PhaseInv, OpenInv
<1>12. CASE os_kobject_deinit(t)
  BY <1>3, <1>4, <1>6, <1>12 DEF os_kobject_deinit, PhaseInv, OpenInv
<1>13. CASE CallOpen(t)
  <2>1. PICK m \in Names :
          LET e == os_device_find(m)
          IN /\ e # NULL /\ opens[t][e] < MaxOpens
             /\ op' = [op EXCEPT ![t] = [at |-> IF "INIT" \in flag[e] THEN "open" ELSE "init",
                                         dev |-> e, name |-> m]]
    BY <1>13 DEF CallOpen
  <2> DEFINE e == os_device_find(m)
  <2>2. e \in Dev /\ UNCHANGED <<devVars, opens>>
    BY <1>13, <2>1, Found DEF CallOpen, TypeOK
  <2>3. /\ op'[t].at = IF "INIT" \in flag[e] THEN "open" ELSE "init"
        /\ op'[t].dev = e /\ opens[t][e] < MaxOpens
    BY <2>1 DEF TypeOK
  <2> HIDE DEF e
  <2>4. PhaseInv(t)'
    BY <2>2, <2>3 DEF PhaseInv, devVars
  <2>5. QED
    BY <1>3, <1>4, <2>2, <2>4 DEF OpenInv, devVars
<1>14. CASE DriverInit(t)
  <2>1. op[t].at = "init" /\ UNCHANGED <<openFlag, refCount, opens>>
    BY <1>14 DEF DriverInit, Is
  <2>2. "INIT" \notin flag[d] /\ opens[t][d] < MaxOpens /\ refCount[d] = 0
    BY <1>0, <1>2, <1>3, <2>1 DEF PhaseInv, OpenInv
  <2>3. CASE /\ driver' = [driver EXCEPT ![d] = "ready"] /\ GoTo(t, "open")
             /\ flag' = [flag EXCEPT ![d] = flag[d] \cup {"INIT"}]
    <3>1. PhaseInv(t)'
      BY <1>2, <1>6, <2>1, <2>2, <2>3 DEF PhaseInv
    <3>2. ASSUME NEW e \in Dev PROVE OpenInv(e)'
      BY <1>2, <1>3, <1>4, <2>1, <2>2, <2>3 DEF OpenInv
    <3>3. QED
      BY <2>1, <3>1, <3>2
  <2>4. CASE GoTo(t, "idle") /\ UNCHANGED <<driver, flag>>
    BY <1>3, <1>4, <1>6, <2>1, <2>4 DEF PhaseInv, OpenInv
  <2>5. QED
    BY <1>0, <1>14, <2>3, <2>4 DEF DriverInit
<1>15. CASE DriverOpen(t)
  <2>1. op[t].at = "open" /\ UNCHANGED <<flag, openFlag, refCount, opens>>
    BY <1>15 DEF DriverOpen, Is
  <2>2. "INIT" \in flag[d] /\ opens[t][d] < MaxOpens
    BY <1>0, <1>3, <2>1 DEF PhaseInv
  <2>3. CASE driver' = [driver EXCEPT ![d] = "open"] /\ GoTo(t, "opened")
    <3>1. PhaseInv(t)'
      BY <1>2, <1>6, <2>1, <2>2, <2>3 DEF PhaseInv
    <3>2. ASSUME NEW e \in Dev PROVE OpenInv(e)'
      BY <1>2, <1>3, <1>4, <2>1, <2>2, <2>3 DEF OpenInv
    <3>3. QED
      BY <2>1, <3>1, <3>2
  <2>4. CASE GoTo(t, "idle") /\ UNCHANGED driver
    BY <1>3, <1>4, <1>6, <2>1, <2>4 DEF PhaseInv, OpenInv
  <2>5. QED
    BY <1>0, <1>15, <2>3, <2>4 DEF DriverOpen
<1>16. CASE SetOpenFlag(t)
  <2>1. /\ op[t].at = "opened" /\ UNCHANGED <<flag, refCount, driver, opens>>
        /\ openFlag' = [openFlag EXCEPT ![d] = openFlag[d] \cup Mode[t]] /\ GoTo(t, "count")
    BY <1>0, <1>16 DEF SetOpenFlag, Is, JoinMode
  <2>2. "INIT" \in flag[d] /\ opens[t][d] < MaxOpens /\ driver[d] = "open"
    BY <1>0, <1>3, <2>1 DEF PhaseInv
  <2>3. PhaseInv(t)'
    BY <1>2, <1>6, <2>1, <2>2 DEF PhaseInv
  <2>4. ASSUME NEW e \in Dev PROVE OpenInv(e)'
    BY <1>2, <1>3, <1>4, <2>1 DEF OpenInv
  <2>5. QED
    BY <2>1, <2>3, <2>4
<1>17. CASE CountOpen(t)
  <2>1. /\ op[t].at = "count" /\ UNCHANGED <<openFlag, driver>>
        /\ refCount' = [refCount EXCEPT ![d] = OneMore(refCount[d])]
        /\ flag' = [flag EXCEPT ![d] = flag[d] \cup {"OPEN"}]
        /\ opens' = [opens EXCEPT ![t][d] = opens[t][d] + 1] /\ GoTo(t, "idle")
    BY <1>0, <1>17 DEF CountOpen, Is
  <2>2. /\ "INIT" \in flag[d] /\ opens[t][d] < MaxOpens /\ driver[d] = "open"
        /\ Mode[t] \subseteq openFlag[d]
    BY <1>0, <1>3, <2>1 DEF PhaseInv
  <2>3. /\ \A e \in Dev : Opened(e)' = Opened(e) + IF e = d THEN 1 ELSE 0
        /\ opens' \in [Owner -> [Dev -> Nat]]
        /\ opens'[t][d] = opens[t][d] + 1
        /\ \A u \in Owner, c \in Dev : u # t \/ c # d => opens'[u][c] = opens[u][c]
    BY ZenonT(30), <1>2, <2>1, <2>2, AfterOpen
  <2>4. OneMore(refCount[d]) = Opened(d)'
    <3>1. Opened(d)' <= Cardinality(Owner \X (1..MaxOpens)) /\ Opened(d)' \in Nat
      BY <1>2, <2>3, OpenedBoundsNext
    <3>2. Opened(d)' < RefWrap /\ RefWrap \in Nat
      BY <3>1, AllHandles, DeviceAssumption DEF FewOpens
    <3>3. Opened(d)' = refCount[d] + 1
      BY <1>2, <1>3, <2>3 DEF OpenInv
    <3>4. QED
      BY <3>1, <3>2, <3>3 DEF OneMore
  <2>5. PhaseInv(t)'
    BY <1>6, <2>1 DEF PhaseInv
  <2>6. OpenInv(d)'
    <3>1. refCount'[d] = Opened(d)' /\ "INIT" \in flag'[d] /\ driver'[d] = "open"
      BY <1>2, <2>1, <2>2, <2>4
    <3>2. ASSUME NEW u \in Owner
          PROVE  opens'[u][d] <= MaxOpens /\ (opens'[u][d] > 0 => Mode[u] \subseteq openFlag'[d])
      <4>1. CASE u = t
        BY <1>2, <2>1, <2>2, <2>3, <4>1, DeviceAssumption
      <4>2. CASE u # t
        BY <1>2, <1>3, <2>1, <2>3, <4>2 DEF OpenInv
      <4>3. QED
        BY <4>1, <4>2
    <3>3. QED
      BY <3>1, <3>2 DEF OpenInv
  <2>7. ASSUME NEW e \in Dev \ {d} PROVE OpenInv(e)'
    <3>1. Opened(e)' = Opened(e) /\ \A u \in Owner : opens'[u][e] = opens[u][e]
      BY <1>3, <2>3
    <3>2. refCount'[e] = refCount[e] /\ flag'[e] = flag[e]
      BY <1>2, <2>1
    <3>3. QED
      BY <1>3, <2>1, <3>1, <3>2 DEF OpenInv
  <2>8. \A u \in Task \ {t}, e \in Dev : opens'[u][e] = opens[u][e]
    BY <1>2, <2>3
  <2>9. QED
    BY <2>5, <2>6, <2>7, <2>8
<1>18. CASE CallClose(t)
  <2>1. PICK e \in Dev :
          /\ opens[t][e] > 0 /\ refCount[e] # 0
          /\ refCount' = [refCount EXCEPT ![e] = refCount[e] - 1]
          /\ opens' = [opens EXCEPT ![t][e] = opens[t][e] - 1]
          /\ op' = [op EXCEPT ![t] = [op[t] EXCEPT !.dev = e,
                      !.at = IF LastClose(refCount'[e]) THEN "close" ELSE "idle"]]
    BY <1>18 DEF CallClose
  <2>2. UNCHANGED <<flag, openFlag, driver>>
    BY <1>18 DEF CallClose
  <2>3. /\ \A c \in Dev : Opened(c) = Opened(c)' + IF c = e THEN 1 ELSE 0
        /\ opens' \in [Owner -> [Dev -> Nat]]
        /\ opens'[t][e] = opens[t][e] - 1
        /\ \A u \in Owner, c \in Dev : u # t \/ c # e => opens'[u][c] = opens[u][c]
    <3>1. opens[t][e] <= MaxOpens
      BY <1>2, <1>3 DEF OpenInv
    <3>2. QED
      BY ZenonT(30), <1>2, <2>1, <3>1, AfterClose
  <2>4. \A c \in Dev : Opened(c)' \in Nat
    BY <2>3, OpenedBoundsNext
  <2>5. refCount'[e] = refCount[e] - 1 /\ refCount'[e] = Opened(e)'
    <3>1. refCount'[e] = refCount[e] - 1 /\ refCount[e] = Opened(e)
      BY <1>2, <1>3, <2>1 DEF OpenInv
    <3>2. Opened(e) = Opened(e)' + 1
      BY <2>3
    <3>3. QED
      BY <2>4, <3>1, <3>2
  <2>6. PhaseInv(t)'
    <3>1. op'[t].dev = e /\ op'[t].at = IF refCount'[e] = 0 THEN "close" ELSE "idle"
      BY <1>2, <2>1 DEF LastClose, TypeOK
    <3>2. QED
      BY <2>5, <3>1 DEF PhaseInv
  <2>7. OpenInv(e)'
    <3>1. refCount'[e] # 0 => "INIT" \in flag'[e] /\ driver'[e] = "open"
      BY <1>3, <2>1, <2>2 DEF OpenInv
    <3>2. ASSUME NEW u \in Owner
          PROVE  opens'[u][e] <= MaxOpens /\ (opens'[u][e] > 0 => Mode[u] \subseteq openFlag'[e])
      <4>1. opens[u][e] <= MaxOpens /\ (opens[u][e] > 0 => Mode[u] \subseteq openFlag[e])
        BY <1>3 DEF OpenInv
      <4>2. opens[u][e] \in Nat /\ (opens'[u][e] = opens[u][e] \/ opens'[u][e] = opens[u][e] - 1)
        BY <1>2, <2>3
      <4>3. QED
        BY <2>2, <4>1, <4>2, DeviceAssumption
    <3>3. QED
      BY <2>5, <3>1, <3>2 DEF OpenInv
  <2>8. ASSUME NEW c \in Dev \ {e} PROVE OpenInv(c)'
    <3>1. Opened(c)' = Opened(c) /\ \A u \in Owner : opens'[u][c] = opens[u][c]
      BY <2>3, <2>4
    <3>2. refCount'[c] = refCount[c]
      BY <1>2, <2>1
    <3>3. QED
      BY <1>3, <2>2, <3>1, <3>2 DEF OpenInv
  <2>9. \A u \in Task \ {t}, c \in Dev : opens'[u][c] = opens[u][c]
    BY <1>2, <2>3
  <2>10. QED
    BY <2>6, <2>7, <2>8, <2>9
<1>19. CASE DriverClose(t)
  <2>1. /\ op[t].at = "close" /\ GoTo(t, "idle") /\ UNCHANGED <<flag, refCount, opens>>
        /\ \/ driver' = [driver EXCEPT ![d] = "ready"] /\ openFlag' = [openFlag EXCEPT ![d] = {}]
           \/ UNCHANGED <<driver, openFlag>>
    BY <1>0, <1>19 DEF DriverClose, Is
  <2>2. Opened(d) = 0 /\ \A u \in Owner : opens[u][d] = 0
    BY <1>0, <1>2, <1>3, <2>1 DEF PhaseInv
  <2>3. ASSUME NEW e \in Dev PROVE OpenInv(e)'
    <3>1. CASE e = d
      BY <1>2, <1>3, <1>4, <2>1, <2>2, <3>1 DEF OpenInv
    <3>2. CASE e # d
      BY <1>2, <1>3, <1>4, <2>1, <3>2 DEF OpenInv
    <3>3. QED
      BY <3>1, <3>2
  <2>4. PhaseInv(t)'
    BY <1>6, <2>1 DEF PhaseInv
  <2>5. QED
    BY <2>1, <2>3, <2>4
<1>20. QED
  BY <1>7, <1>8, <1>9, <1>10, <1>11, <1>12, <1>13, <1>14, <1>15, <1>16, <1>17, <1>18, <1>19 DEF Changes

-----------------------------------------------------------------------------
(* Names.                                                                  *)

\* A name is written over the one before it and ends where that one ended, so the
\* names of all devices have to be of one length.
SameLength == \A m, n \in Names : Len(m) = Len(n)

LEMMA NewName ==
  ASSUME SameLength, NEW old \in Names \cup {<<>>}, NEW n \in Names
  PROVE  os_kobject_init(old, n) = n
<1>1. n \in Seq(STRING) /\ old \in Seq(STRING)
  <2>1. Names \subseteq Seq(STRING)
    BY DeviceAssumption
  <2>2. <<>> \in Seq(STRING)
    OBVIOUS
  <2>3. QED
    BY <2>1, <2>2
<1>2. Len(old) <= Len(n) /\ Len(n) \in Nat /\ Len(old) \in Nat
  <2>1. CASE old = <<>>
    BY <1>1, <2>1
  <2>2. CASE old \in Names
    BY <1>1, <2>2 DEF SameLength
  <2>3. QED
    BY <2>1, <2>2
<1>3. SubSeq(old, Len(n) + 1, Len(old)) = <<>>
  BY <1>2, SubSeqEmpty
<1>4. n \o <<>> = n
  BY <1>1
<1>5. QED
  BY <1>3, <1>4 DEF os_kobject_init

\* Different devices have different names, and none is listed twice.
NamesDiffer(L, f) == /\ IsInjective(L)
                     /\ \A x, y \in ToSet(L) : x # y => f[x] # f[y]

LEMMA DifferIs ==
  ASSUME NEW L \in Seq(Dev), NEW f
  PROVE  NamesDiffer(L, f) <=> \A i, j \in DOMAIN L : i # j => f[L[i]] # f[L[j]]
<1>1. ASSUME NamesDiffer(L, f), NEW i \in DOMAIN L, NEW j \in DOMAIN L, i # j
      PROVE  f[L[i]] # f[L[j]]
  <2>1. L[i] # L[j] /\ L[i] \in ToSet(L) /\ L[j] \in ToSet(L)
    BY <1>1 DEF NamesDiffer, IsInjective, ToSet
  <2>2. QED
    BY <1>1, <2>1 DEF NamesDiffer
<1>2. ASSUME \A i, j \in DOMAIN L : i # j => f[L[i]] # f[L[j]]
      PROVE  NamesDiffer(L, f)
  BY <1>2 DEF NamesDiffer, IsInjective, ToSet
<1>3. QED
  BY <1>1, <1>2

\* Of a call that does not register.
LEMMA NameKept ==
  ASSUME TypeOK, NameInv, SerialInv', NEW t \in Task, UNCHANGED <<listed, name>>,
         \A d \in Dev : "REGISTER" \in flag'[d] => "REGISTER" \in flag[d],
         \A u \in Task \ {t} : op'[u] = op[u] /\ (~ Busy(u) \/ UNCHANGED <<mutex, flag>>),
         op'[t].at \notin {"find", "add", "remove"}
  PROVE  NameInv'
<1>1. NamesUnique'
  BY DEF NameInv, NamesUnique
<1>2. ASSUME NEW u \in Task PROVE RegisterInv(u)'
  <2>1. CASE u = t
    BY <2>1 DEF RegisterInv
  <2>2. CASE u # t /\ ~ Busy(u)
    BY <2>2 DEF RegisterInv, Busy
  <2>3. CASE u # t /\ UNCHANGED <<mutex, flag>>
    BY <2>3 DEF RegisterInv, NameInv
  <2>4. QED
    BY <2>1, <2>2, <2>3
<1>3. QED
  BY <1>1, <1>2 DEF NameInv

LEMMA NameChange ==
  ASSUME TypeOK, NameInv, Serial, SameLength, NEW t \in Task, Changes(t)
  PROVE  NameInv'
<1>0. PICK d \in Dev : d = op[t].dev
  BY DEF TypeOK
<1>1. SerialInv' /\ \A u \in Task \ {t} : ~ Busy(u) /\ op'[u] = op[u]
  BY SerialStep, OthersRest DEF NameInv
<1>2. /\ listed \in Seq(Dev) /\ name \in [Dev -> Seq(STRING)] /\ op[t].name \in Names
      /\ op[t] \in [at : Places, dev : Dev, name : Names] /\ t # NULL
      /\ flag \in [Dev -> SUBSET {"READ", "WRITE", "REGISTER", "INIT", "OPEN"}]
  BY DeviceAssumption DEF TypeOK
<1>3. /\ NamesDiffer(listed, name) /\ RegisterInv(t)
      /\ \A e \in Dev : name[e] \in Names \cup {<<>>}
      /\ \A e \in Dev : "REGISTER" \in flag[e] => e \in ToSet(listed)
  BY <1>2, DifferIs DEF NameInv, NamesUnique
<1>4. ASSUME listed' \in Seq(Dev), NamesDiffer(listed', name'), RegisterInv(t)',
             \A e \in Dev : name'[e] \in Names \cup {<<>>},
             \A e \in Dev : "REGISTER" \in flag'[e] => e \in ToSet(listed')
      PROVE  NameInv'
  <2>1. \A u \in Task \ {t} : RegisterInv(u)'
    BY <1>1 DEF RegisterInv, Busy
  <2>2. NamesUnique'
    BY <1>4, DifferIs DEF NamesUnique
  <2>3. QED
    BY <1>1, <1>4, <2>1, <2>2 DEF NameInv
<1>5. ASSUME NEW p, GoTo(t, p) PROVE op'[t].at = p /\ op'[t].dev = d
  BY <1>0, <1>2, <1>5 DEF GoTo, TypeOK
<1>6. CASE CallRegister(t)
  <2>1. PICK e \in Dev, m \in Names :
          /\ e \notin ToSet(listed) /\ op' = [op EXCEPT ![t] = [at |-> "find", dev |-> e, name |-> m]]
    BY <1>6 DEF CallRegister
  <2>2. op'[t].at = "find" /\ op'[t].dev = e
    BY <2>1 DEF TypeOK
  <2>3. UNCHANGED <<listed, name, flag>>
    BY <1>6 DEF CallRegister, devVars
  <2>4. RegisterInv(t)'
    BY <2>1, <2>2, <2>3 DEF RegisterInv
  <2>5. QED
    BY <1>2, <1>3, <1>4, <2>3, <2>4
<1>7. CASE Prepare(t)
  <2>1. op[t].at = "find" /\ UNCHANGED <<listed, mutex>> /\ mutex = NULL
    BY <1>7 DEF Prepare, Is
  <2>2. CASE GoTo(t, "idle") /\ UNCHANGED <<name, flag>>
    <3>1. RegisterInv(t)'
      BY <1>5, <2>2 DEF RegisterInv
    <3>2. QED
      BY <1>2, <1>3, <1>4, <2>1, <2>2, <3>1
  <2>3. CASE /\ NameIsFree(t) /\ name' = [name EXCEPT ![d] = os_kobject_init(name[d], op[t].name)]
             /\ flag' = [flag EXCEPT ![d] = {"READ", "WRITE"}] /\ GoTo(t, "add")
    <3>1. os_kobject_init(name[d], op[t].name) = op[t].name
      BY <1>2, <1>3, NewName
    <3>2. \A i \in DOMAIN listed : name[listed[i]] # op[t].name
      BY <1>2, <2>3, Found DEF NameIsFree
    <3>3. d \notin ToSet(listed)
      BY <1>0, <1>3, <2>1 DEF RegisterInv
    <3>4. /\ name'[d] = op[t].name /\ \A e \in Dev \ {d} : name'[e] = name[e]
          /\ \A e \in Dev : "REGISTER" \in flag'[e] => e # d /\ "REGISTER" \in flag[e]
      BY <1>2, <2>3, <3>1
    <3>5. \A e \in ToSet(listed) : e \in Dev /\ e # d
      BY <1>2, <3>3 DEF ToSet
    <3>6. NamesDiffer(listed', name')
      BY <1>3, <2>1, <3>4, <3>5 DEF NamesDiffer
    <3>7. ASSUME NEW i \in DOMAIN listed' PROVE name'[listed'[i]] # name'[d]
      <4>1. listed[i] \in ToSet(listed)
        BY <2>1 DEF ToSet
      <4>2. QED
        BY <2>1, <3>2, <3>4, <3>5, <4>1
    <3>8. RegisterInv(t)'
      BY <1>5, <2>1, <2>3, <3>3, <3>7 DEF RegisterInv
    <3>9. \A e \in Dev : name'[e] \in Names \cup {<<>>}
      BY <1>2, <1>3, <3>4
    <3>10. QED
      BY <1>2, <1>3, <1>4, <2>1, <3>4, <3>6, <3>8, <3>9
  <2>4. QED
    BY <1>0, <1>7, <2>2, <2>3 DEF Prepare
<1>8. CASE AddToList(t)
  <2>1. /\ op[t].at = "add" /\ mutex = NULL /\ mutex' = t /\ listed' = Append(listed, d)
        /\ UNCHANGED <<name, flag, op>>
    BY <1>0, <1>8 DEF AddToList, Is
  <2>2. d \notin ToSet(listed) /\ \A i \in DOMAIN listed : name[listed[i]] # name[d]
    BY <1>0, <1>3, <2>1 DEF RegisterInv
  <2>3. /\ listed' \in Seq(Dev) /\ Len(listed') = Len(listed) + 1
        /\ \A i \in 1..Len(listed) : listed'[i] = listed[i]
        /\ listed'[Len(listed) + 1] = d
    BY <1>2, <2>1
  <2>4. ToSet(listed') = ToSet(listed) \cup {d}
    BY <1>2, <2>1, AppendSeq
  <2>5. \A x \in ToSet(listed) : name[x] # name[d]
    BY <2>2 DEF ToSet
  <2>6. IsInjective(listed')
    BY <1>2, <1>3, <2>1, <2>2, AppendSeq DEF NamesDiffer
  <2>7. NamesDiffer(listed', name')
    BY <1>3, <2>1, <2>4, <2>5, <2>6 DEF NamesDiffer
  <2>8. RegisterInv(t)'
    BY <1>0, <1>2, <2>1, <2>4 DEF RegisterInv
  <2>9. QED
    BY <1>3, <1>4, <2>1, <2>3, <2>4, <2>7, <2>8
<1>9. CASE MarkRegistered(t)
  <2>1. /\ op[t].at = "add" /\ mutex = t /\ UNCHANGED <<listed, name>> /\ GoTo(t, "idle")
        /\ flag' = [flag EXCEPT ![d] = flag[d] \cup {"REGISTER"}]
    BY <1>0, <1>9 DEF MarkRegistered, Is
  <2>2. d \in ToSet(listed)
    BY <1>0, <1>2, <1>3, <2>1 DEF RegisterInv
  <2>3. RegisterInv(t)'
    BY <1>5, <2>1 DEF RegisterInv
  <2>4. \A e \in Dev : "REGISTER" \in flag'[e] => e \in ToSet(listed')
    BY <1>2, <1>3, <2>1, <2>2
  <2>5. QED
    BY <1>2, <1>3, <1>4, <2>1, <2>3, <2>4
<1>10. CASE Unregister(t)
  <2>1. PICK e \in Dev : /\ flag' = [flag EXCEPT ![e] = flag[e] \ {"REGISTER"}]
                         /\ op' = [op EXCEPT ![t] = [op[t] EXCEPT !.at = "remove", !.dev = e]]
    BY <1>2, <1>10 DEF Unregister
  <2>2. UNCHANGED <<listed, name>>
    BY <1>10 DEF Unregister
  <2>3. op'[t].at = "remove" /\ op'[t].dev = e
    BY <1>2, <2>1 DEF TypeOK
  <2>4. /\ "REGISTER" \notin flag'[e]
        /\ \A c \in Dev : "REGISTER" \in flag'[c] => "REGISTER" \in flag[c]
    BY <1>2, <2>1
  <2>5. RegisterInv(t)'
    BY <2>3, <2>4 DEF RegisterInv
  <2>6. QED
    BY <1>2, <1>3, <1>4, <2>2, <2>4, <2>5
<1>11. CASE os_kobject_deinit(t)
  <2>1. /\ op[t].at = "remove" /\ UNCHANGED <<name, flag>> /\ GoTo(t, "idle")
        /\ listed' = Without(listed, d)
    BY <1>0, <1>11 DEF os_kobject_deinit, Is
  <2>2. /\ listed' \in Seq(Dev) /\ IsInjective(listed')
        /\ ToSet(listed') = ToSet(listed) \ {d}
    BY <1>2, <1>3, <2>1, WithoutSeq DEF NamesDiffer
  <2>3. "REGISTER" \notin flag[d]
    BY <1>0, <1>3, <2>1 DEF RegisterInv
  <2>4. NamesDiffer(listed', name')
    BY <1>3, <2>1, <2>2 DEF NamesDiffer
  <2>5. RegisterInv(t)'
    BY <1>5, <2>1 DEF RegisterInv
  <2>6. \A e \in Dev : "REGISTER" \in flag'[e] => e \in ToSet(listed')
    BY <1>3, <2>1, <2>2, <2>3
  <2>7. QED
    BY <1>3, <1>4, <2>1, <2>2, <2>4, <2>5, <2>6
<1>12. ASSUME \/ CallOpen(t) \/ DriverInit(t) \/ DriverOpen(t) \/ SetOpenFlag(t)
              \/ CountOpen(t) \/ CallClose(t) \/ DriverClose(t)
       PROVE  NameInv'
  <2>1. UNCHANGED <<listed, name>>
    BY <1>12 DEF CallOpen, DriverInit, DriverOpen, SetOpenFlag, CountOpen, CallClose, DriverClose,
       devVars
  <2>2. op'[t].at \notin {"find", "add", "remove"}
    <3>1. CASE CallOpen(t)
      BY <1>2, <3>1 DEF CallOpen, TypeOK
    <3>2. CASE CallClose(t)
      BY <1>2, <3>2 DEF CallClose, TypeOK
    <3>3. CASE DriverInit(t) \/ DriverOpen(t) \/ SetOpenFlag(t) \/ CountOpen(t) \/ DriverClose(t)
      BY <1>5, <3>3 DEF DriverInit, DriverOpen, SetOpenFlag, CountOpen, DriverClose
    <3>4. QED
      BY <1>12, <3>1, <3>2, <3>3
  <2>3. \A e \in Dev : "REGISTER" \in flag'[e] => "REGISTER" \in flag[e]
    <3>1. CASE DriverInit(t)
      BY <1>2, <3>1 DEF DriverInit
    <3>2. CASE CountOpen(t)
      BY <1>2, <3>2 DEF CountOpen
    <3>3. CASE CallOpen(t) \/ DriverOpen(t) \/ SetOpenFlag(t) \/ CallClose(t) \/ DriverClose(t)
      BY <3>3 DEF CallOpen, DriverOpen, SetOpenFlag, CallClose, DriverClose, devVars
    <3>4. QED
      BY <1>12, <3>1, <3>2, <3>3
  <2>4. QED
    BY <1>1, <2>1, <2>2, <2>3, NameKept
<1>13. QED
  BY <1>6, <1>7, <1>8, <1>9, <1>10, <1>11, <1>12 DEF Changes

LEMMA NameUse ==
  ASSUME TypeOK, NameInv, Serial, NEW t \in Task, Uses(t)
  PROVE  NameInv'
<1>1. /\ UNCHANGED <<devVars, mutex, opens>> /\ ~ Busy(t)'
      /\ \A u \in Task \ {t} : op'[u] = op[u]
  BY UsesKeep
<1>2. SerialInv'
  BY SerialUse DEF NameInv
<1>3. op'[t].at \notin {"find", "add", "remove"}
  BY <1>1 DEF Busy
<1>4. QED
  BY <1>1, <1>2, <1>3, NameKept DEF devVars

-----------------------------------------------------------------------------
(* Theorems.                                                               *)

LEMMA NextSplits == Next => \E t \in Task : Changes(t) \/ Uses(t)
BY DEF Next, Changes, Uses

LEMMA SerialInit == Init => SerialInv /\ \A t \in Task : op[t].at = "idle"
BY DeviceAssumption DEF Init, SerialInv, Busy

LEMMA CountInit == Init => CountInv
<1> SUFFICES ASSUME Init PROVE CountInv
  OBVIOUS
<1>1. SerialInv /\ \A t \in Task : PhaseInv(t)
  BY SerialInit DEF PhaseInv
<1>2. /\ \A d \in Dev : refCount[d] = IF d = Uart THEN 1 ELSE 0
      /\ flag[Uart] = {"READ", "WRITE", "REGISTER", "INIT", "OPEN"}
      /\ driver[Uart] = "open" /\ openFlag[Uart] = Mode[Boot]
  BY DeviceAssumption DEF Init
<1>3. /\ \A t \in Owner, d \in Dev : opens[t][d] = IF t = Boot /\ d = Uart THEN 1 ELSE 0
      /\ opens \in [Owner -> [Dev -> Nat]] /\ Boot \in Owner
  BY DEF Init, Owner
<1>4. ASSUME NEW d \in Dev PROVE refCount[d] = Opened(d)
  <2>1. CASE d = Uart
    <3>1. OpensOf(d) = {<<Boot, 1>>}
      <4>1. ASSUME NEW t \in Owner, NEW i \in 1..MaxOpens
            PROVE  i <= opens[t][d] <=> <<t, i>> = <<Boot, 1>>
        BY <1>3, <2>1, DeviceAssumption
      <4>2. 1 \in 1..MaxOpens
        BY DeviceAssumption
      <4>3. QED
        BY <1>3, <4>1, <4>2 DEF OpensOf
    <3>2. QED
      BY <1>2, <2>1, <3>1, FS_Singleton DEF Opened
  <2>2. CASE d # Uart
    BY <1>2, <1>3, <2>2, OpenedBounds
  <2>3. QED
    BY <2>1, <2>2
<1>5. ASSUME NEW d \in Dev PROVE OpenInv(d)
  BY <1>2, <1>3, <1>4, DeviceAssumption DEF OpenInv
<1>6. QED
  BY <1>1, <1>5 DEF CountInv

LEMMA NameInit == Init => NameInv
<1> SUFFICES ASSUME Init PROVE NameInv
  OBVIOUS
<1>1. SerialInv /\ \A t \in Task : RegisterInv(t)
  BY SerialInit DEF RegisterInv
<1>2. /\ listed = <<Uart>>
      /\ \A d \in Dev : name[d] = IF d = Uart THEN UartName ELSE <<>>
      /\ \A d \in Dev : "REGISTER" \in flag[d] => d = Uart
  BY DEF Init
<1>3. DOMAIN listed = {1} /\ listed[1] = Uart
  BY <1>2
<1>4. NamesUnique
  BY <1>2, <1>3 DEF NamesUnique, ToSet
<1>5. \A d \in Dev : name[d] \in Names \cup {<<>>}
  BY <1>2, DeviceAssumption
<1>6. QED
  BY <1>1, <1>4, <1>5 DEF NameInv

LEMMA CountHolds == ASSUME Serial, FewOpens PROVE Spec => [](TypeOK /\ CountInv)
<1>1. TypeOK /\ CountInv /\ [Next]_vars => (TypeOK /\ CountInv)'
  <2> SUFFICES ASSUME TypeOK, CountInv, [Next]_vars PROVE TypeOK' /\ CountInv'
    OBVIOUS
  <2>1. CASE UNCHANGED vars
    <3>1. UNCHANGED <<listed, name, flag, openFlag, refCount, driver, mutex, op, opens>>
      BY <2>1 DEF vars, devVars
    <3>2. \A d \in Dev : Opened(d)' = Opened(d)
      BY <3>1, OpenedKept
    <3>3. TypeOK' /\ SerialInv'
      BY <3>1 DEF TypeOK, CountInv, SerialInv, Busy
    <3>4. ASSUME NEW t \in Task PROVE PhaseInv(t)'
      <4>1. op[t].dev \in Dev /\ PhaseInv(t)
        BY DEF TypeOK, CountInv
      <4>2. QED
        BY <3>1, <3>2, <4>1 DEF PhaseInv
    <3>5. \A d \in Dev : OpenInv(d)'
      BY <3>1, <3>2 DEF CountInv, OpenInv
    <3>6. QED
      BY <3>3, <3>4, <3>5 DEF CountInv
  <2>2. CASE Next
    BY <2>2, NextSplits, TypeStep, CountChange, CountUse
  <2>3. QED
    BY <2>1, <2>2
<1>2. QED
  BY <1>1, TypeInit, CountInit, PTL DEF Spec

\* The reference count of a device, which os_device_open and os_device_close change
\* outside the mutex, is the number of opens that were not closed, also when
\* drivers fail: of an application whose calls do not overlap and that has fewer
\* opens than the count can tell.
THEOREM CountsAreRight == ASSUME Serial, FewOpens PROVE Spec => []RefCountsOpens
<1>1. CountInv => RefCountsOpens
  BY DEF CountInv, OpenInv, RefCountsOpens
<1>2. QED
  BY <1>1, CountHolds, PTL

\* Whoever has opened a device and not closed it can use it in the mode he asked
\* for: of the same application.
THEOREM OpenMeansUsable == ASSUME Serial, FewOpens PROVE Spec => []UsableWhileOpen
<1>1. TypeOK /\ CountInv => UsableWhileOpen
  <2> SUFFICES ASSUME TypeOK, CountInv, NEW t \in Task, NEW d \in Dev, opens[t][d] > 0,
                      NEW mode \in Mode[t]
               PROVE  Usable(d, mode)
    BY DEF UsableWhileOpen
  <2>1. t \in Owner /\ opens \in [Owner -> [Dev -> Nat]]
    BY DEF Owner, TypeOK
  <2>2. OpenInv(d)
    BY DEF CountInv
  <2>3. Opened(d) # 0
    BY <2>1, OpenedBounds
  <2>4. QED
    BY <2>1, <2>2, <2>3 DEF OpenInv, Usable
<1>2. QED
  BY <1>1, CountHolds, PTL

\* A driver's functions are called between its open and its close, though it is
\* opened by the first of several opens and closed by the last close: of the same
\* application.
THEOREM DriverIsOpen == ASSUME Serial, FewOpens PROVE Spec => []DriverOpenWhenUsed
<1>1. TypeOK /\ CountInv => DriverOpenWhenUsed
  <2> SUFFICES ASSUME TypeOK, CountInv PROVE DriverOpenWhenUsed
    OBVIOUS
  <2>1. \A d \in Dev : Indicates(d) => driver[d] = "open"
    BY DEF CountInv, OpenInv, Indicates
  <2>2. ASSUME NEW t \in Task, Is(t, "transfer") PROVE driver[op[t].dev] = "open"
    <3>1. op[t].dev \in Dev /\ t \in Owner /\ opens \in [Owner -> [Dev -> Nat]]
      BY DEF TypeOK, Owner
    <3>2. opens[t][op[t].dev] > 0
      BY <2>2 DEF CountInv, PhaseInv, Is
    <3>3. Opened(op[t].dev) # 0
      BY <3>1, <3>2, OpenedBounds
    <3>4. QED
      BY <3>1, <3>3 DEF CountInv, OpenInv
  <2>3. QED
    BY <2>1, <2>2 DEF DriverOpenWhenUsed
<1>2. QED
  BY <1>1, CountHolds, PTL

\* A name finds one device: of an application whose calls do not overlap, so that no
\* other task registers between the look for the name and the end of the
\* registration, and whose names are of one length, so that the comparison tells them
\* apart.  What is left is that a registration adds a name only if it is free.
THEOREM NamesStayUnique == ASSUME Serial, SameLength PROVE Spec => []NamesUnique
<1>1. TypeOK /\ NameInv /\ [Next]_vars => (TypeOK /\ NameInv)'
  <2> SUFFICES ASSUME TypeOK, NameInv, [Next]_vars PROVE TypeOK' /\ NameInv'
    OBVIOUS
  <2>1. CASE UNCHANGED vars
    BY <2>1 DEF vars, devVars, TypeOK, NameInv, SerialInv, Busy, NamesUnique, RegisterInv
  <2>2. CASE Next
    BY <2>2, NextSplits, TypeStep, NameChange, NameUse
  <2>3. QED
    BY <2>1, <2>2
<1>2. NameInv => NamesUnique
  BY DEF NameInv
<1>3. QED
  BY <1>1, <1>2, TypeInit, NameInit, PTL DEF Spec
=============================================================================
