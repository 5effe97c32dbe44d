------------------------------ MODULE HeapProofs ------------------------------
(***************************************************************************)
(* The blocks tile the heap, tasks have memory of their own, who is refused*)
(* could not have been served, and the usage that is reported covers what  *)
(* tasks have, for any number of tasks, any sizes and any heap.  It all    *)
(* rests on LockInv: tasks of different priorities exclude one another,    *)
(* though the mutex would let a woken task in beside its owner.            *)
(***************************************************************************)
EXTENDS Heap, SequenceTheorems, FiniteSetTheorems, WellFoundedInduction, TLAPS

Sizes == {r.nmemb * r.size : r \in Requests}
Address == 0..(length - 1)

-----------------------------------------------------------------------------
(* Numbers and sequences.                                                  *)

LEMMA SmallestIn ==
  ASSUME NEW S \in SUBSET Nat, S # {}
  PROVE  \E x \in S : \A y \in S : x <= y
<1> DEFINE R == OpToRel(<, Nat)
<1>1. IsWellFoundedOn(R, Nat)
  BY NatLessThanWellFounded
<1>2. \A x, y \in Nat : x < y => <<x, y>> \in R
  BY DEF OpToRel
<1> HIDE DEF R
<1>3. PICK x \in S : \A y \in S : ~ (<<y, x>> \in R)
  BY <1>1, WFMin
<1>4. \A y \in S : ~ (y < x)
  BY <1>2, <1>3, Zenon
<1>5. QED
  BY <1>4

LEMMA MinOf ==
  ASSUME NEW S \in SUBSET Nat, S # {}
  PROVE  Min(S) \in S /\ \A y \in S : Min(S) <= y
BY SmallestIn DEF Min

\* The last place of a sequence of numbers that a property holds of up to there.
LEMMA LastPlace ==
  ASSUME NEW n \in Nat, NEW P \in SUBSET (1..n), P # {}
  PROVE  \E i \in P : \A j \in P : j <= i
<1> DEFINE Q == {n - i : i \in P}
<1>1. Q \in SUBSET Nat /\ Q # {}
  <2>1. \A i \in P : n - i \in Nat
    OBVIOUS
  <2>2. QED
    BY <2>1
<1>2. PICK q \in Q : \A y \in Q : q <= y
  BY <1>1, SmallestIn
<1>3. PICK i \in P : q = n - i
  BY <1>2
<1>4. \A j \in P : j <= i
  <2> TAKE j \in P
  <2>1. q <= n - j
    BY <1>2
  <2>2. QED
    BY <1>3, <2>1
<1>5. QED
  BY <1>4

LEMMA SmallMod == ASSUME NEW x \in Nat, x < Wrap PROVE x % Wrap = x
<1>1. Wrap \in Nat
  BY HeapAssumption
<1>2. QED
  BY <1>1

\* What a block needs that is asked for: the sum does not wrap around.
LEMMA SpanIs ==
  ASSUME NEW n \in Sizes
  PROVE  /\ n \in Nat /\ Span(n) \in Nat /\ Span(n) > 0 /\ Span(n) >= n
         /\ n \in Count /\ Span(n) \in Count
         /\ (Aligned(n) + 2 * Header) % Wrap = Span(n) + Header
<1>1. PICK r \in Requests : n = r.nmemb * r.size
  BY DEF Sizes
<1>2. n \in Nat /\ n + Align + 2 * Header < Wrap
  <2>1. r.nmemb \in Nat /\ r.size \in Nat /\ r.nmemb * r.size + Align + 2 * Header < Wrap
    BY HeapAssumption
  <2>2. r.nmemb * r.size \in Nat
    BY <2>1
  <2>3. QED
    BY <1>1, <2>1, <2>2
<1> HIDE DEF Sizes
<1>3. Wrap \in Nat /\ Align \in Nat /\ Align > 0 /\ Header \in Nat /\ Header > 0
  BY HeapAssumption
<1>4. n % Align \in Nat /\ n % Align < Align
  BY <1>2, <1>3
<1> DEFINE m == n + (Align - (n % Align))
<1>5. m \in Nat /\ m > n /\ m <= n + Align
  BY <1>2, <1>3, <1>4
<1> HIDE DEF m
<1>6. \A x \in Nat : x < Wrap => x % Wrap = x
  BY <1>3
<1>7. Aligned(n) = m
  <2>1. Aligned(n) = m % Wrap
    BY DEF Aligned, m
  <2>2. m < Wrap
    BY <1>2, <1>3, <1>5
  <2>3. QED
    BY <1>5, <1>6, <2>1, <2>2
<1>8. Span(n) = m + Header
  <2>1. m + Header < Wrap /\ m + Header \in Nat
    BY <1>2, <1>3, <1>5
  <2>2. QED
    BY <1>6, <1>7, <2>1 DEF Span
<1>9. (Aligned(n) + 2 * Header) % Wrap = m + 2 * Header
  <2>1. m + 2 * Header < Wrap /\ m + 2 * Header \in Nat
    BY <1>2, <1>3, <1>5
  <2>2. QED
    BY <1>6, <1>7, <2>1
<1>10. QED
  BY <1>2, <1>3, <1>5, <1>8, <1>9 DEF Count

LEMMA InsertIs ==
  ASSUME NEW S, NEW s \in Seq(S), NEW e \in S, NEW i \in 1..(Len(s) + 1)
  PROVE  /\ InsertAt(s, i, e) \in Seq(S) /\ Len(InsertAt(s, i, e)) = Len(s) + 1
         /\ \A j \in 1..(Len(s) + 1) :
              InsertAt(s, i, e)[j] = IF j < i THEN s[j] ELSE IF j = i THEN e ELSE s[j - 1]
<1> DEFINE u == SubSeq(s, 1, i - 1)
           v == SubSeq(s, i, Len(s))
           w == u \o <<e>>
           r == InsertAt(s, i, e)
<1>1. /\ u \in Seq(S) /\ Len(u) = i - 1 /\ \A j \in 1..(i - 1) : u[j] = s[j]
      /\ v \in Seq(S) /\ Len(v) = Len(s) - i + 1
      /\ \A j \in 1..(Len(s) - i + 1) : v[j] = s[i - 1 + j]
  OBVIOUS
<1>2. r = w \o v
  BY DEF InsertAt
<1> HIDE DEF u, v, r
<1>3. w \in Seq(S) /\ Len(w) = i /\ \A j \in 1..i : w[j] = IF j < i THEN s[j] ELSE e
  BY <1>1
<1> HIDE DEF w
<1>4. /\ r \in Seq(S) /\ Len(r) = Len(w) + Len(v)
      /\ \A j \in 1..(Len(w) + Len(v)) : r[j] = IF j <= Len(w) THEN w[j] ELSE v[j - Len(w)]
  BY <1>1, <1>2, <1>3, ConcatProperties
<1>5. ASSUME NEW j \in 1..(Len(s) + 1)
      PROVE  r[j] = IF j < i THEN s[j] ELSE IF j = i THEN e ELSE s[j - 1]
  <2>0. r[j] = IF j <= Len(w) THEN w[j] ELSE v[j - Len(w)]
    <3>1. Len(w) + Len(v) = Len(s) + 1
      BY <1>1, <1>3
    <3>2. QED
      BY <1>4, <3>1
  <2>1. CASE j <= i
    <3>1. j \in 1..i
      BY <2>1
    <3>2. QED
      BY <1>3, <2>0, <2>1, <3>1
  <2>2. CASE j > i
    <3>1. j - i \in 1..(Len(s) - i + 1) /\ i - 1 + (j - i) = j - 1 /\ ~ j <= i /\ j # i /\ ~ j < i
      BY <2>2
    <3>2. v[j - i] = s[j - 1]
      BY <1>1, <3>1
    <3>3. QED
      BY <1>3, <2>0, <3>1, <3>2
  <2>3. QED
    BY <2>1, <2>2
<1>6. QED
  BY <1>1, <1>3, <1>4, <1>5 DEF r

LEMMA RemoveIs ==
  ASSUME NEW S, NEW s \in Seq(S), NEW i \in 1..Len(s)
  PROVE  /\ RemoveAt(s, i) \in Seq(S) /\ Len(RemoveAt(s, i)) = Len(s) - 1
         /\ \A j \in 1..(Len(s) - 1) : RemoveAt(s, i)[j] = IF j < i THEN s[j] ELSE s[j + 1]
<1> DEFINE u == SubSeq(s, 1, i - 1)
           v == SubSeq(s, i + 1, Len(s))
           r == RemoveAt(s, i)
<1>1. /\ u \in Seq(S) /\ Len(u) = i - 1 /\ \A j \in 1..(i - 1) : u[j] = s[j]
      /\ v \in Seq(S) /\ Len(v) = Len(s) - i
      /\ \A j \in 1..(Len(s) - i) : v[j] = s[i + j]
  OBVIOUS
<1>2. r = u \o v
  BY DEF RemoveAt
<1> HIDE DEF u, v, r
<1>3. /\ r \in Seq(S) /\ Len(r) = Len(u) + Len(v)
      /\ \A j \in 1..(Len(u) + Len(v)) : r[j] = IF j <= Len(u) THEN u[j] ELSE v[j - Len(u)]
  BY <1>1, <1>2, ConcatProperties
<1>4. ASSUME NEW j \in 1..(Len(s) - 1) PROVE r[j] = IF j < i THEN s[j] ELSE s[j + 1]
  <2>0. r[j] = IF j <= Len(u) THEN u[j] ELSE v[j - Len(u)]
    <3>1. Len(u) + Len(v) = Len(s) - 1
      BY <1>1
    <3>2. QED
      BY <1>3, <3>1
  <2>1. CASE j < i
    <3>1. j \in 1..(i - 1)
      BY <2>1
    <3>2. QED
      BY <1>1, <2>0, <2>1, <3>1
  <2>2. CASE j >= i
    <3>1. j - (i - 1) \in 1..(Len(s) - i) /\ i + (j - (i - 1)) = j + 1 /\ ~ j <= i - 1
      BY <2>2
    <3>2. v[j - (i - 1)] = s[j + 1]
      BY <1>1, <3>1
    <3>3. QED
      BY <1>1, <2>0, <2>2, <3>1, <3>2
  <2>3. QED
    BY <2>1, <2>2
<1>5. QED
  BY <1>1, <1>3, <1>4 DEF r

-----------------------------------------------------------------------------
(* The inductive invariant.                                                *)

Given == UNION {held[c] : c \in Client}
Headers == [size : Count, used : BOOLEAN]
Ops == [at : Places, need : Count, block : Address]

\* What HeapTypes says of the heap.
HeapTypes ==
  /\ length \in Count
  /\ list \in Seq(Address) /\ header \in [Address -> Headers]
  /\ op \in [Client -> Ops] /\ held \in [Client -> SUBSET Address]

\* Where a task is that has looked at the list.
Inside == {"take", "shrink", "link", "taken", "back", "forward", "done"}

\* What comes behind a block.
After(i) == IF i < Len(list) THEN list[i + 1] ELSE length

OrderInv ==
  /\ list # <<>> /\ list[1] = 0
  /\ \A i, j \in DOMAIN list : i < j => list[i] < list[j]

\* A block that has been shrunk is followed by a block that is not in the list yet.
Rest(a) == IF \E c \in Client : Is(c, "link") /\ op[c].block = a
             THEN header[a + header[a].size].size ELSE 0
TileInv == \A i \in DOMAIN list : list[i] + header[list[i]].size + Rest(list[i]) = After(i)

\* The blocks that are used are those that tasks have, each of them one, and the
\* one that a task is about to get.
Taking(c) == op[c].at \in {"shrink", "link", "taken"}
Gets(a) == \E c \in Client : Taking(c) /\ op[c].block = a
Apart ==
  /\ \A c \in Client : \A a \in held[c] : a \in ToSet(list) /\ header[a].used
  /\ \A c, d \in Client : c # d => held[c] \cap held[d] = {}
HeldInv == Apart /\ \A a \in ToSet(list) : header[a].used => a \in Given \/ Gets(a)

\* Free blocks are joined, but for the one that is being freed.
Joining(a, b) ==
  \E c \in Client : \/ Is(c, "back") /\ op[c].block \in {a, b}
                    \/ Is(c, "forward") /\ op[c].block = a
FreePair(i) == /\ i \in DOMAIN list /\ i + 1 \in DOMAIN list
               /\ ~ header[list[i]].used /\ ~ header[list[i + 1]].used
GapInv == \A i \in DOMAIN list : FreePair(i) => Joining(list[i], list[i + 1])

\* What a call knows of the block it works on.
UsedBehind(a) ==
  \A i \in DOMAIN list : list[i] = a /\ i + 1 \in DOMAIN list => header[list[i + 1]].used
PhaseInv(c) ==
  LET a == op[c].block
      n == op[c].need
      b == a + Span(n)
  IN /\ Asking(c) => n \in Sizes
     /\ op[c].at \in Inside \ {"done"} => a \in ToSet(list)
     /\ Is(c, "take") => Fits(a, n)
     /\ Taking(c) => header[a].used /\ a \notin Given /\ header[a].size >= Span(n)
     /\ Is(c, "shrink") => /\ header[a].size > Span(n)
                           /\ header[b] = [size |-> header[a].size - Span(n), used |-> FALSE]
                           /\ UsedBehind(a)
     /\ Is(c, "link") => /\ header[a].size = Span(n) /\ UsedBehind(a)
                         /\ b \in Address /\ header[b].size > 0 /\ ~ header[b].used
     /\ Is(c, "free") => a \in held[c]
     /\ op[c].at \in {"back", "forward"} => ~ header[a].used
Phases == \A c \in Client : PhaseInv(c)

HeapInv == HeapTypes /\ OrderInv /\ TileInv /\ HeldInv /\ GapInv /\ Phases

-----------------------------------------------------------------------------
(* The invariant as a task sees it that no other task is in the way of.    *)

Alone(c) == \A d \in Client \ {c} : op[d].at \notin Inside

RestOf(c, a) == IF Is(c, "link") /\ op[c].block = a THEN header[a + header[a].size].size ELSE 0
TileOf(c) == \A i \in DOMAIN list : list[i] + header[list[i]].size + RestOf(c, list[i]) = After(i)
HeldOf(c) ==
  Apart /\ \A a \in ToSet(list) : header[a].used => a \in Given \/ (Taking(c) /\ op[c].block = a)
JoiningOf(c, a, b) == \/ Is(c, "back") /\ op[c].block \in {a, b}
                      \/ Is(c, "forward") /\ op[c].block = a
GapOf(c) == \A i \in DOMAIN list : FreePair(i) => JoiningOf(c, list[i], list[i + 1])

LEMMA ViewOf ==
  ASSUME NEW c \in Client, Alone(c), TileInv, HeldInv, GapInv
  PROVE  TileOf(c) /\ HeldOf(c) /\ GapOf(c)
<1>1. \A d \in Client : op[d].at \in Inside => d = c
  BY DEF Alone
<1>2. \A a : Rest(a) = RestOf(c, a)
  BY <1>1 DEF Rest, RestOf, Is, Inside
<1>3. TileOf(c)
  BY <1>2 DEF TileInv, TileOf
<1>4. \A a : Gets(a) => Taking(c) /\ op[c].block = a
  BY <1>1 DEF Gets, Taking, Inside
<1>5. \A a, b : Joining(a, b) => JoiningOf(c, a, b)
  BY <1>1 DEF Joining, JoiningOf, Is, Inside
<1>6. HeldOf(c)
  BY <1>4 DEF HeldInv, HeldOf
<1>7. GapOf(c)
  BY <1>5, Zenon DEF GapInv, GapOf
<1>8. QED
  BY <1>3, <1>6, <1>7

\* A task has done a step that no other task is in the way of.
StepOf(c) ==
  /\ Alone(c)
  /\ \A d \in Client \ {c} : op'[d] = op[d] /\ held'[d] = held[d]

LEMMA InvOf ==
  ASSUME NEW c \in Client, StepOf(c), Phases, HeapTypes', OrderInv',
         TileOf(c)', HeldOf(c)', GapOf(c)', PhaseInv(c)'
  PROVE  HeapInv'
<1>1. \A d \in Client : op'[d].at \in Inside => d = c
  BY DEF StepOf, Alone
<1>3. \A a : Rest(a)' = RestOf(c, a)'
  BY <1>1 DEF Rest, RestOf, Is, Inside
<1>4. TileInv'
  BY <1>3 DEF TileInv, TileOf
<1>5. \A a : Taking(c)' /\ op'[c].block = a => Gets(a)'
  BY DEF Gets
<1>6. HeldInv'
  BY <1>5 DEF HeldInv, HeldOf
<1>7. \A a, b : JoiningOf(c, a, b)' => Joining(a, b)'
  BY DEF Joining, JoiningOf
<1>8. GapInv'
  BY <1>7 DEF GapInv, GapOf
<1>9. ASSUME NEW d \in Client \ {c} PROVE PhaseInv(d)'
  <2>1. op'[d] = op[d] /\ held'[d] = held[d] /\ op[d].at \notin Inside /\ PhaseInv(d)
    BY DEF StepOf, Alone, Phases
  <2>2. QED
    BY <2>1 DEF PhaseInv, Inside, Is, Taking, Asking
<1>10. Phases'
  BY <1>9 DEF Phases
<1>11. QED
  BY <1>4, <1>6, <1>8, <1>10 DEF HeapInv

-----------------------------------------------------------------------------
(* Places in the list and in a call.                                       *)

LEMMA Types ==
  ASSUME HeapTypes
  PROVE  /\ length \in Nat /\ length < Wrap /\ list \in Seq(Address)
         /\ header \in [Address -> Headers] /\ op \in [Client -> Ops]
         /\ held \in [Client -> SUBSET Address]
         /\ DOMAIN list = 1..Len(list) /\ Len(list) \in Nat
         /\ \A i \in DOMAIN list : list[i] \in Address /\ list[i] \in Nat
         /\ \A a \in Address : /\ header[a].size \in Nat /\ header[a].used \in BOOLEAN
                               /\ header[a] = [size |-> header[a].size, used |-> header[a].used]
<1>1. Wrap \in Nat
  BY HeapAssumption
<1>2. /\ length \in Nat /\ length < Wrap /\ list \in Seq(Address)
      /\ header \in [Address -> Headers] /\ op \in [Client -> Ops]
      /\ held \in [Client -> SUBSET Address]
  BY <1>1 DEF HeapTypes, Address, Headers, Ops, Count
<1>3. \A a \in Address : header[a] \in Headers
  BY <1>2
<1>4. Count \subseteq Nat
  BY <1>1 DEF Count
<1>5. \A i \in DOMAIN list : list[i] \in Address
  BY <1>2
<1>6. Address \subseteq Nat
  BY <1>2 DEF Address
<1>7. DOMAIN list = 1..Len(list) /\ Len(list) \in Nat
  BY <1>2
<1>8. \A a \in Address : /\ header[a].size \in Nat /\ header[a].used \in BOOLEAN
                         /\ header[a] = [size |-> header[a].size, used |-> header[a].used]
  BY <1>3, <1>4 DEF Headers
<1>9. QED
  BY <1>2, <1>5, <1>6, <1>7, <1>8

LEMMA Placed ==
  ASSUME HeapTypes, OrderInv, NEW i \in DOMAIN list
  PROVE  /\ After(i) \in Nat /\ list[i] < After(i) /\ After(i) <= length
         /\ \A x \in Int : list[i] < x /\ x < After(i) => x \notin ToSet(list)
         /\ \A j \in DOMAIN list : list[j] = list[i] => j = i
         /\ \A j \in DOMAIN list : j > i => After(i) <= list[j]
         /\ \A j \in DOMAIN list : j < i => After(j) <= list[i]
<1>1. /\ length \in Nat /\ list \in Seq(Address) /\ DOMAIN list = 1..Len(list) /\ Len(list) \in Nat
      /\ \A j \in DOMAIN list : list[j] \in Nat /\ list[j] < length
  BY Types DEF Address
<1>2. \A j, l \in DOMAIN list : j < l => list[j] < list[l]
  BY DEF OrderInv
<1>3. After(i) \in Nat /\ list[i] < After(i) /\ After(i) <= length
  <2>1. CASE i < Len(list)
    <3>1. i + 1 \in DOMAIN list /\ i < i + 1
      BY <1>1, <2>1
    <3>2. QED
      BY <1>1, <1>2, <2>1, <3>1 DEF After
  <2>2. CASE ~ i < Len(list)
    BY <1>1, <2>2 DEF After
  <2>3. QED
    BY <2>1, <2>2
<1>4. ASSUME NEW j \in DOMAIN list, NEW l \in DOMAIN list, j < l PROVE After(j) <= list[l]
  <2>1. j < Len(list) /\ j + 1 \in DOMAIN list /\ After(j) = list[j + 1]
    BY <1>1, <1>4 DEF After
  <2>2. CASE l = j + 1
    BY <1>1, <2>1, <2>2
  <2>3. CASE l # j + 1
    <3>1. j + 1 < l
      BY <1>1, <1>4, <2>3
    <3>2. QED
      BY <1>1, <1>2, <2>1, <3>1
  <2>4. QED
    BY <2>2, <2>3
<1>5. \A j \in DOMAIN list : list[j] = list[i] => j = i
  <2> SUFFICES ASSUME NEW j \in DOMAIN list, j # i PROVE list[j] # list[i]
    OBVIOUS
  <2>1. j < i \/ i < j
    BY <1>1
  <2>2. QED
    BY <1>1, <1>2, <2>1
<1>6. ASSUME NEW x \in Int, list[i] < x, x < After(i) PROVE x \notin ToSet(list)
  <2>1. SUFFICES ASSUME NEW j \in DOMAIN list, list[j] = x PROVE FALSE
    BY DEF ToSet
  <2>2. j < i \/ j = i \/ i < j
    BY <1>1
  <2>3. CASE j < i
    BY <1>1, <1>2, <1>6, <2>1, <2>3
  <2>4. CASE i < j
    BY <1>1, <1>3, <1>4, <1>6, <2>1, <2>4
  <2>5. QED
    BY <1>6, <2>1, <2>2, <2>3, <2>4, <1>1
<1>7. QED
  BY <1>3, <1>4, <1>5, <1>6

LEMMA PlaceOf ==
  ASSUME HeapTypes, OrderInv, NEW a \in ToSet(list)
  PROVE  /\ IndexOf(a) \in DOMAIN list /\ list[IndexOf(a)] = a /\ a \in Address
         /\ \A j \in DOMAIN list : list[j] = a => j = IndexOf(a)
<1>1. \E i \in DOMAIN list : list[i] = a
  BY DEF ToSet
<1>2. IndexOf(a) \in DOMAIN list /\ list[IndexOf(a)] = a
  BY <1>1 DEF IndexOf
<1>3. QED
  BY <1>2, Placed, Types

\* A call goes on at another place, or with another block.
LEMMA GoesTo ==
  ASSUME op \in [Client -> Ops], NEW c \in Client, NEW place \in Places, GoTo(c, place)
  PROVE  /\ op' \in [Client -> Ops] /\ op'[c].at = place
         /\ op'[c].need = op[c].need /\ op'[c].block = op[c].block
         /\ \A d \in Client \ {c} : op'[d] = op[d]
<1> DEFINE new == [op[c] EXCEPT !.at = place]
<1>1. op' = [op EXCEPT ![c] = new]
  BY DEF GoTo
<1>2. new \in Ops /\ new.at = place /\ new.need = op[c].need /\ new.block = op[c].block
  BY DEF Ops
<1> HIDE DEF new
<1>3. QED
  BY <1>1, <1>2

LEMMA OpSet ==
  ASSUME op \in [Client -> Ops], NEW c \in Client, NEW new \in Ops, op' = [op EXCEPT ![c] = new]
  PROVE  op' \in [Client -> Ops] /\ op'[c] = new /\ \A d \in Client \ {c} : op'[d] = op[d]
OBVIOUS

LEMMA IdleIs == ASSUME length \in Nat, length > 0, length < Wrap
                PROVE  Idle \in Ops /\ Idle.at = "idle" /\ Idle.need = 0 /\ Idle.block = 0
<1>1. Wrap \in Nat
  BY HeapAssumption
<1>2. 0 \in Count /\ 0 \in Address
  BY <1>1 DEF Count, Address
<1>3. QED
  BY <1>2 DEF Idle, Ops, Places

\* What HeapTypes comes down to when the length stays.
LEMMA TypesNext ==
  ASSUME HeapTypes, length' = length, list' \in Seq(Address), header' \in [Address -> Headers],
         op' \in [Client -> Ops],
         held' \in [Client -> SUBSET Address]
  PROVE  HeapTypes'
BY DEF HeapTypes, Address, Headers, Ops

-----------------------------------------------------------------------------
(* Every step keeps the invariant.                                         *)

\* A step of a task outside the critical section, which changes its call alone.
LEMMA OutsideStep ==
  ASSUME HeapInv, NEW c \in Client, op[c].at \notin Inside, op'[c].at \notin Inside,
         \A d \in Client \ {c} : op'[d] = op[d],
         UNCHANGED <<length, list, header, held>>, HeapTypes', PhaseInv(c)'
  PROVE  HeapInv'
<1>1. \A d \in Client : (op[d].at \in Inside \/ op'[d].at \in Inside) => op'[d] = op[d]
  OBVIOUS
<1>3. \A a : Rest(a)' = Rest(a)
  BY <1>1 DEF Rest, Is, Inside
<1>4. TileInv'
  BY <1>3 DEF HeapInv, TileInv, After
<1>5. \A a : Gets(a)' <=> Gets(a)
  BY <1>1 DEF Gets, Taking, Inside
<1>6. HeldInv'
  BY <1>5 DEF HeapInv, HeldInv, Apart, Given
<1>7. \A a, b : Joining(a, b)' <=> Joining(a, b)
  BY <1>1 DEF Joining, Is, Inside
<1>8. GapInv'
  BY <1>7 DEF HeapInv, GapInv, FreePair
<1>9. ASSUME NEW d \in Client \ {c} PROVE PhaseInv(d)'
  <2>1. op'[d] = op[d] /\ PhaseInv(d)
    BY DEF HeapInv, Phases
  <2>2. QED
    BY <2>1 DEF PhaseInv, Is, Taking, Asking, Given, UsedBehind, Fits, Address
<1>10. QED
  BY <1>4, <1>6, <1>8, <1>9 DEF HeapInv, OrderInv, Phases

LEMMA CallKeeps == ASSUME HeapInv, NEW c \in Client, Call(c) PROVE HeapInv'
<1>0. HeapTypes /\ OrderInv
  BY DEF HeapInv
<1> USE Types, <1>0
<1>1. PICK r \in Requests : op' = [op EXCEPT ![c] = [Idle EXCEPT !.at = "find",
                                                 !.need = (r.nmemb * r.size) % Wrap]]
  BY DEF Call
<1> DEFINE n == r.nmemb * r.size
           new == [Idle EXCEPT !.at = "find", !.need = n % Wrap]
<1>2. n \in Sizes
  BY DEF Sizes
<1>3. n \in Count /\ n % Wrap = n
  <2>1. n \in Nat /\ n \in 0..(Wrap - 1) /\ Wrap \in Nat
    BY <1>2, SpanIs, HeapAssumption DEF Count
  <2> HIDE DEF n
  <2>2. QED
    BY <2>1, SmallMod DEF Count
<1> HIDE DEF n
<1>4. new.at = "find" /\ new.need = n /\ new \in Ops
  <2>1. 0 \in Address /\ length > 0
    BY DEF OrderInv, Address
  <2>2. Idle \in Ops
    BY <2>1, IdleIs
  <2>3. QED
    BY <1>3, <2>2 DEF Ops, Places, Idle
<1>5. op' = [op EXCEPT ![c] = new]
  BY <1>1 DEF n
<1> HIDE DEF new
<1>6. op' \in [Client -> Ops] /\ op'[c] = new /\ \A d \in Client \ {c} : op'[d] = op[d]
  BY <1>4, <1>5, OpSet
<1>7. UNCHANGED <<length, list, header, held>> /\ op[c].at = "idle"
  BY DEF Call, Begins, Is, heapVars
<1>8. HeapTypes'
  BY <1>6, <1>7, TypesNext DEF HeapTypes
<1>9. PhaseInv(c)'
  BY <1>2, <1>4, <1>6 DEF PhaseInv, Asking, Is, Taking, Inside
<1>10. QED
  BY <1>4, <1>6, <1>7, <1>8, <1>9, OutsideStep DEF Inside

LEMMA CallFreeKeeps == ASSUME HeapInv, NEW c \in Client, CallFree(c) PROVE HeapInv'
<1>0. HeapTypes /\ OrderInv
  BY DEF HeapInv
<1> USE Types, <1>0
<1>1. PICK a \in held[c] : op' = [op EXCEPT ![c] = [Idle EXCEPT !.at = "free", !.block = a]]
  BY DEF CallFree
<1> DEFINE new == [Idle EXCEPT !.at = "free", !.block = a]
<1>2. new.at = "free" /\ new.block = a /\ new \in Ops
  <2>1. a \in Address
    OBVIOUS
  <2>2. 0 \in Address /\ length > 0
    BY DEF OrderInv, Address
  <2>3. Idle \in Ops
    BY <2>2, IdleIs
  <2>4. QED
    BY <2>1, <2>3 DEF Ops, Places, Idle
<1>3. op' = [op EXCEPT ![c] = new]
  BY <1>1
<1> HIDE DEF new
<1>4. op' \in [Client -> Ops] /\ op'[c] = new /\ \A d \in Client \ {c} : op'[d] = op[d]
  BY <1>2, <1>3, OpSet
<1>5. UNCHANGED <<length, list, header, held>> /\ op[c].at = "idle"
  BY DEF CallFree, Begins, Is, heapVars
<1>6. HeapTypes'
  BY <1>4, <1>5, TypesNext DEF HeapTypes
<1>7. PhaseInv(c)'
  BY <1>2, <1>4, <1>5 DEF PhaseInv, Asking, Is, Taking, Inside
<1>8. QED
  BY <1>2, <1>4, <1>5, <1>6, <1>7, OutsideStep DEF Inside

LEMMA View ==
  ASSUME HeapInv, NEW c \in Client, Alone(c)
  PROVE  /\ HeapTypes /\ OrderInv /\ Phases /\ Alone(c)
         /\ TileOf(c) /\ HeldOf(c) /\ GapOf(c) /\ PhaseInv(c)
BY ViewOf DEF HeapInv, Phases

LEMMA FindKeeps == ASSUME HeapInv, NEW c \in Client, Alone(c), Find(c) PROVE HeapInv'
<1>1. op[c].at = "find" /\ UNCHANGED <<length, list, header, held>>
  BY DEF Find, Is, heapVars
<1>2. /\ HeapTypes /\ OrderInv /\ Phases /\ Alone(c)
      /\ TileOf(c) /\ HeldOf(c) /\ GapOf(c) /\ PhaseInv(c)
  BY View
<1> DEFINE n == op[c].need
           new == IF Fitting(n) = {} THEN [op[c] EXCEPT !.at = "done"]
                  ELSE [op[c] EXCEPT !.at = "take", !.block = list[Min(Fitting(n))]]
<1>3. op' = [op EXCEPT ![c] = new]
  BY DEF Find
<1>4. op[c] \in Ops
  BY <1>2, Types
<1>5. n \in Sizes
  BY <1>1, <1>2 DEF PhaseInv, Asking
<1>6. ASSUME Fitting(n) # {}
      PROVE  /\ list[Min(Fitting(n))] \in ToSet(list) \cap Address
             /\ Fits(list[Min(Fitting(n))], n)
  <2>1. Fitting(n) \in SUBSET Nat /\ Fitting(n) \subseteq DOMAIN list
    BY <1>2, Types DEF Fitting
  <2>2. Min(Fitting(n)) \in Fitting(n)
    BY <1>6, <2>1, MinOf
  <2>3. QED
    BY <1>2, <2>1, <2>2, Types DEF Fitting, ToSet
<1>7. /\ new \in Ops /\ new.need = n /\ new.at \in {"take", "done"}
      /\ new.at = "take" => new.block \in ToSet(list) /\ Fits(new.block, n)
  <2>1. CASE Fitting(n) = {}
    BY <1>4, <2>1 DEF Ops, Places
  <2>2. CASE Fitting(n) # {}
    <3> DEFINE a == list[Min(Fitting(n))]
    <3>1. a \in ToSet(list) /\ a \in Address /\ Fits(a, n)
      BY <1>6, <2>2
    <3> HIDE DEF a
    <3>2. new = [op[c] EXCEPT !.at = "take", !.block = a]
      BY <2>2 DEF a
    <3>3. new \in Ops /\ new.need = n /\ new.at = "take" /\ new.block = a
      BY <1>4, <3>1, <3>2 DEF Ops, Places
    <3>4. QED
      BY <3>1, <3>3
  <2>3. QED
    BY <2>1, <2>2
<1> HIDE DEF new
<1>8. op' \in [Client -> Ops] /\ op'[c] = new /\ \A d \in Client \ {c} : op'[d] = op[d]
  BY <1>2, <1>3, <1>7, OpSet, Types
<1>9. HeapTypes'
  BY <1>1, <1>2, <1>8, Types, TypesNext
<1>10. StepOf(c)
  BY <1>1, <1>2, <1>7, <1>8 DEF StepOf, Inside
<1>11. OrderInv' /\ TileOf(c)' /\ HeldOf(c)' /\ GapOf(c)'
  <2>1. OrderInv' /\ TileOf(c)'
    BY <1>1, <1>2, <1>7, <1>8 DEF OrderInv, TileOf, RestOf, After, Is
  <2>2. HeldOf(c)'
    BY <1>1, <1>2 DEF HeldOf, Taking, Apart, Given
  <2>3. GapOf(c)'
    BY <1>1, <1>2 DEF GapOf, JoiningOf, FreePair, Is
  <2>4. QED
    BY <2>1, <2>2, <2>3
<1>12. PhaseInv(c)'
  <2>1. op'[c].at = "take" => Fits(op[c].block, op[c].need)'
    BY <1>1, <1>7, <1>8 DEF Fits
  <2>2. QED
    BY <1>1, <1>5, <1>7, <1>8, <2>1 DEF PhaseInv, Asking, Is, Taking, Inside
<1>13. QED
  BY <1>2, <1>9, <1>10, <1>11, <1>12, InvOf

\* Nothing but the call changes.
LEMMA NullKeeps == ASSUME HeapInv, NEW c \in Client, Alone(c), ReturnNull(c) PROVE HeapInv'
<1>1. /\ op[c].at = "done" /\ op' = [op EXCEPT ![c] = Idle]
      /\ UNCHANGED <<length, list, header, held>>
  BY DEF ReturnNull, Is, heapVars
<1>3. /\ HeapTypes /\ OrderInv /\ Phases /\ Alone(c)
      /\ TileOf(c) /\ HeldOf(c) /\ GapOf(c) /\ PhaseInv(c)
  BY View
<1>4. Idle \in Ops /\ Idle.at = "idle"
  BY <1>3, Types, IdleIs DEF OrderInv, Address
<1>5. op' \in [Client -> Ops] /\ op'[c] = Idle /\ \A d \in Client \ {c} : op'[d] = op[d]
  BY <1>1, <1>3, <1>4, OpSet, Types
<1>6. HeapTypes'
  BY <1>1, <1>3, <1>5, Types, TypesNext
<1>7. StepOf(c)
  BY <1>1, <1>3, <1>4, <1>5 DEF StepOf, Inside
<1>8. OrderInv' /\ TileOf(c)'
  BY <1>1, <1>3, <1>4, <1>5 DEF OrderInv, TileOf, RestOf, After, Is
<1>9. HeldOf(c)'
  BY <1>1, <1>3 DEF HeldOf, Taking, Apart, Given
<1>10. GapOf(c)'
  BY <1>1, <1>3 DEF GapOf, JoiningOf, FreePair, Is
<1>11. PhaseInv(c)'
  BY <1>4, <1>5 DEF PhaseInv, Asking, Is, Taking, Inside
<1>12. QED
  BY <1>3, <1>6, <1>7, <1>8, <1>9, <1>10, <1>11, InvOf

LEMMA FieldSet ==
  ASSUME NEW h \in Headers, NEW n, NEW u
  PROVE  /\ [h EXCEPT !.used = u] = [size |-> h.size, used |-> u]
         /\ [h EXCEPT !.size = n] = [size |-> n, used |-> h.used]
BY DEF Headers

\* What tasks have been given stays as large as it was.
SizesKept == \A x \in Given : header'[x].size = header[x].size

LEMMA GivenListed == ASSUME Apart PROVE \A x \in Given : x \in ToSet(list) /\ header[x].used
BY DEF Apart, Given

\* What becomes of the blocks of the list when one of them becomes used.
LEMMA BecomesUsed ==
  ASSUME HeapTypes, OrderInv, NEW c \in Client, TileOf(c), HeldOf(c), GapOf(c), op[c].at = "take",
         NEW a \in ToSet(list), ~ header[a].used, op'[c].block = a,
         op'[c].at \in {"shrink", "taken"}, UNCHANGED <<length, list, held>>,
         header'[a].size = header[a].size, header'[a].used,
         \A x \in ToSet(list) \ {a} : header'[x] = header[x]
  PROVE  OrderInv' /\ TileOf(c)' /\ HeldOf(c)' /\ GapOf(c)' /\ a \notin Given' /\ UsedBehind(a)'
<1>1. \A i \in DOMAIN list : list[i] \in ToSet(list)
  BY DEF ToSet
<1>2. \A x \in ToSet(list) : header'[x].size = header[x].size
  OBVIOUS
<1>3. TileOf(c)'
  BY <1>1, <1>2 DEF TileOf, RestOf, After, Is
<1>4. a \notin Given' /\ a \notin Given
  BY DEF HeldOf, Apart, Given
<1>5. HeldOf(c)'
  <2>1. Apart'
    BY DEF HeldOf, Apart
  <2>2. ASSUME NEW x \in ToSet(list), header'[x].used
        PROVE  x \in Given' \/ (op'[c].block = x /\ op'[c].at \in {"shrink", "link", "taken"})
    <3>1. CASE x = a
      BY <3>1
    <3>2. CASE x # a
      BY <2>2, <3>2 DEF HeldOf, Taking, Given
    <3>3. QED
      BY <3>1, <3>2
  <2>3. QED
    BY <2>1, <2>2 DEF HeldOf, Taking
<1>6. \A i \in DOMAIN list : ~ FreePair(i)
  BY DEF GapOf, JoiningOf, Is
<1>7. GapOf(c)'
  BY <1>1, <1>6 DEF GapOf, FreePair
<1>8. UsedBehind(a)'
  <2> SUFFICES ASSUME NEW i \in DOMAIN list, list[i] = a, i + 1 \in DOMAIN list
               PROVE  header'[list[i + 1]].used
    BY DEF UsedBehind
  <2>1. header[list[i + 1]].used
    BY <1>6 DEF FreePair
  <2>2. list[i + 1] \in ToSet(list) \ {a}
    BY <1>1, <2>1
  <2>3. QED
    BY <2>1, <2>2
<1>9. OrderInv'
  BY DEF OrderInv
<1>10. QED
  BY <1>3, <1>4, <1>5, <1>7, <1>8, <1>9

LEMMA TakeKeeps == ASSUME HeapInv, NEW c \in Client, Alone(c), Take(c) PROVE HeapInv' /\ SizesKept
<1>1. op[c].at = "take" /\ UNCHANGED <<length, list, held>>
  BY DEF Take, Is
<1>3. /\ HeapTypes /\ OrderInv /\ Phases /\ Alone(c)
      /\ TileOf(c) /\ HeldOf(c) /\ GapOf(c) /\ PhaseInv(c)
  BY View
<1>a. PICK a \in ToSet(list) : a = op[c].block
  BY <1>1, <1>3 DEF PhaseInv, Is, Inside
<1>n. PICK n \in Sizes : n = op[c].need
  BY <1>1, <1>3 DEF PhaseInv, Asking
<1> DEFINE b == a + Span(n)
<1>4. Fits(a, n)
  BY <1>1, <1>3, <1>a, <1>n DEF PhaseInv, Is
<1>5. /\ Span(n) \in Nat /\ Span(n) > 0 /\ Header > 0 /\ Header \in Nat
      /\ (Aligned(n) + 2 * Header) % Wrap = Span(n) + Header
  BY SpanIs, HeapAssumption
<1>6. /\ ~ header[a].used /\ header[a].size >= Span(n) /\ a \in Address
      /\ header[a] \in Headers /\ header[a].size \in Nat /\ header[a].size \in Count
      /\ header[a] = [size |-> header[a].size, used |-> header[a].used]
  BY <1>3, <1>4, PlaceOf, Types DEF Fits, Headers
<1> DEFINE now == [size |-> header[a].size, used |-> TRUE]
           rest == [size |-> header[a].size - Span(n), used |-> FALSE]
           place == IF Splits(a, n) THEN "shrink" ELSE "taken"
           new == IF Splits(a, n) THEN [header EXCEPT ![a] = now, ![b] = rest]
                  ELSE [header EXCEPT ![a] = now]
<1>7. [header[a] EXCEPT !.used = TRUE] = now
  BY <1>6, FieldSet
<1>8. header' = new /\ GoTo(c, place)
  <2>1. CASE Splits(a, n)
    BY <1>7, <1>a, <1>n, <2>1 DEF Take
  <2>2. CASE ~ Splits(a, n)
    BY <1>7, <1>a, <1>n, <2>2 DEF Take
  <2>3. QED
    BY <2>1, <2>2
<1>9. now \in Headers
  BY <1>6 DEF Headers
<1>10. ASSUME Splits(a, n)
       PROVE  /\ b \in Address /\ b \notin ToSet(list) /\ b # a /\ rest \in Headers
              /\ header[a].size > Span(n)
  <2>1. header[a].size > Span(n) + Header
    BY <1>5, <1>10 DEF Splits
  <2>2. PICK i \in DOMAIN list : list[i] = a
    BY DEF ToSet
  <2>3. a + header[a].size = After(i) /\ a \in Nat
    <3>1. RestOf(c, a) = 0
      BY <1>1 DEF RestOf, Is
    <3>2. a \in Nat
      BY <1>3, <2>2, Types
    <3>3. QED
      BY <1>3, <1>6, <2>2, <3>1, <3>2 DEF TileOf
  <2>4. After(i) \in Nat /\ After(i) <= length /\ \A x \in Int : a < x /\ x < After(i) => x \notin ToSet(list)
    BY <1>3, <2>2, Placed
  <2>5. b \in Int /\ a < b /\ b < After(i)
    BY <1>5, <1>6, <2>1, <2>3
  <2>6. length \in Nat /\ b \in Address
    BY <1>3, <2>3, <2>4, <2>5, Types DEF Address
  <2>7. header[a].size - Span(n) \in Count
    <3>1. Wrap \in Nat
      BY HeapAssumption
    <3>2. QED
      BY <1>5, <1>6, <2>1, <3>1 DEF Count
  <2>8. rest \in Headers
    BY <2>7 DEF Headers
  <2>9. b \notin ToSet(list)
    BY <2>4, <2>5
  <2>10. b # a /\ header[a].size > Span(n)
    BY <1>5, <1>6, <2>1, <2>3
  <2>11. QED
    BY <2>6, <2>8, <2>9, <2>10
<1>11. op' \in [Client -> Ops] /\ op'[c].at = place /\ op'[c].need = n /\ op'[c].block = a
       /\ \A d \in Client \ {c} : op'[d] = op[d]
  <2>1. place \in Places
    BY DEF Places
  <2>2. QED
    BY <1>3, <1>8, <1>a, <1>n, <2>1, GoesTo, Types
<1> HIDE DEF now, rest, b
<1>12. header \in [Address -> Headers]
  BY <1>3, Types
<1>13. /\ header' \in [Address -> Headers] /\ header'[a] = now
       /\ \A x \in ToSet(list) \ {a} : header'[x] = header[x]
       /\ Splits(a, n) => header'[b] = rest
  <2>1. CASE Splits(a, n)
    <3>1. header' = [header EXCEPT ![a] = now, ![b] = rest]
      BY <1>8, <2>1
    <3>2. \A x \in ToSet(list) : x \in Address
      BY <1>3, PlaceOf
    <3>3. QED
      BY <1>6, <1>9, <1>10, <1>12, <2>1, <3>1, <3>2
  <2>2. CASE ~ Splits(a, n)
    <3>1. header' = [header EXCEPT ![a] = now]
      BY <1>8, <2>2
    <3>2. \A x \in ToSet(list) : x \in Address
      BY <1>3, PlaceOf
    <3>3. QED
      BY <1>6, <1>9, <1>12, <2>2, <3>1, <3>2
  <2>3. QED
    BY <2>1, <2>2
<1>14. header'[a].size = header[a].size /\ header'[a].used
  BY <1>13 DEF now
<1>15. op'[c].at \in {"shrink", "taken"}
  BY <1>11
<1>16. OrderInv' /\ TileOf(c)' /\ HeldOf(c)' /\ GapOf(c)' /\ a \notin Given' /\ UsedBehind(a)'
  BY <1>1, <1>3, <1>4, <1>6, <1>11, <1>13, <1>14, <1>15, BecomesUsed
<1>17. HeapTypes'
  BY <1>1, <1>3, <1>11, <1>13, Types, TypesNext DEF HeapTypes
<1>18. StepOf(c)
  BY <1>1, <1>3, <1>11, <1>15 DEF StepOf, Inside
<1>19. PhaseInv(c)'
  <2>1. op'[c].at = "shrink" => header[a].size > Span(n) /\ header'[b] = rest
    BY <1>10, <1>11, <1>13
  <2>2. QED
    BY <1>1, <1>4, <1>6, <1>11, <1>14, <1>15, <1>16, <2>1
    DEF PhaseInv, Asking, Is, Taking, Inside, b, rest
<1>20. SizesKept
  BY <1>3, <1>13, <1>14, GivenListed DEF SizesKept, HeldOf
<1>21. QED
  BY <1>3, <1>16, <1>17, <1>18, <1>19, <1>20, InvOf

\* The block that follows a block with its rest is not in the list.
LEMMA RestInside ==
  ASSUME HeapTypes, OrderInv, NEW i \in DOMAIN list, NEW x \in Nat, list[i] < x, x < After(i)
  PROVE  x \in Address /\ x \notin ToSet(list)
BY Placed, Types DEF Address

LEMMA ShrinkKeeps == ASSUME HeapInv, NEW c \in Client, Alone(c), Shrink(c) PROVE HeapInv' /\ SizesKept
<1>1. op[c].at = "shrink" /\ UNCHANGED <<length, list, held>> /\ GoTo(c, "link")
  BY DEF Shrink, Is
<1>3. /\ HeapTypes /\ OrderInv /\ Phases /\ Alone(c)
      /\ TileOf(c) /\ HeldOf(c) /\ GapOf(c) /\ PhaseInv(c)
  BY View
<1>a. PICK a \in ToSet(list) : a = op[c].block
  BY <1>1, <1>3 DEF PhaseInv, Is, Inside
<1>n. PICK n \in Sizes : n = op[c].need
  BY <1>1, <1>3 DEF PhaseInv, Asking
<1> DEFINE b == a + Span(n)
           now == [size |-> Span(n), used |-> header[a].used]
<1>4. /\ header[a].used /\ a \notin Given /\ header[a].size > Span(n)
      /\ header[b].size = header[a].size - Span(n) /\ ~ header[b].used /\ UsedBehind(a)
  BY <1>1, <1>3, <1>a, <1>n DEF PhaseInv, Is, Taking
<1>5. /\ a \in Address /\ header[a] \in Headers /\ header[a].size \in Nat
      /\ header \in [Address -> Headers]
  BY <1>3, PlaceOf, Types DEF Headers
<1>6. Span(n) \in Nat /\ Span(n) > 0 /\ Span(n) \in Count
  BY SpanIs
<1>7. header' = [header EXCEPT ![a] = now]
  BY <1>5, <1>a, <1>n, FieldSet DEF Shrink
<1>8. now \in Headers
  BY <1>5, <1>6 DEF Headers
<1>9. PICK i \in DOMAIN list : list[i] = a
  BY DEF ToSet
<1>10. \A j \in DOMAIN list : list[j] = a => j = i
  BY <1>3, <1>9, Placed
<1>11. a \in Nat /\ a + header[a].size = After(i)
  <2>1. RestOf(c, a) = 0
    BY <1>1 DEF RestOf, Is
  <2>2. a \in Nat
    BY <1>3, <1>9, Types
  <2>3. QED
    BY <1>3, <1>5, <1>9, <2>1, <2>2 DEF TileOf
<1>12. b \in Address /\ b \notin ToSet(list) /\ b # a
  <2>1. b \in Nat /\ a < b /\ b < After(i)
    BY <1>4, <1>5, <1>6, <1>11
  <2>2. QED
    BY <1>3, <1>9, <1>11, <2>1, RestInside
<1>13. /\ op' \in [Client -> Ops] /\ op'[c].at = "link" /\ op'[c].need = n /\ op'[c].block = a
       /\ \A d \in Client \ {c} : op'[d] = op[d]
  BY <1>1, <1>3, <1>a, <1>n, GoesTo, Types DEF Places
<1> HIDE DEF b, now
<1>14. /\ header' \in [Address -> Headers] /\ header'[a] = now
       /\ \A x \in Address \ {a} : header'[x] = header[x]
  BY <1>5, <1>7, <1>8
<1>15. header'[a].size = Span(n) /\ header'[a].used
  BY <1>4, <1>14 DEF now
<1>16. header'[b] = header[b]
  BY <1>12, <1>14
<1>17. \A j \in DOMAIN list : list[j] \in Address /\ list[j] \in Nat /\ list[j] \in ToSet(list)
  BY <1>3, Types DEF ToSet
<1>18. TileOf(c)'
  <2> SUFFICES ASSUME NEW j \in DOMAIN list
               PROVE  list[j] + header'[list[j]].size + RestOf(c, list[j])' = After(j)
    BY <1>1 DEF TileOf, After
  <2>1. CASE j = i
    <3>1. RestOf(c, list[j])' = header'[a + header'[a].size].size
      BY <1>9, <1>13, <2>1, <1>1 DEF RestOf, Is
    <3>2. header'[a + header'[a].size].size = header[a].size - Span(n)
      BY <1>4, <1>15, <1>16 DEF b
    <3>3. QED
      BY <1>5, <1>6, <1>9, <1>11, <1>15, <2>1, <3>1, <3>2
  <2>2. CASE j # i
    <3>1. list[j] # a
      BY <1>10, <2>2
    <3>2. header'[list[j]] = header[list[j]] /\ header[list[j]].size \in Nat
      BY <1>3, <1>14, <1>17, <3>1, Types
    <3>3. RestOf(c, list[j])' = 0 /\ RestOf(c, list[j]) = 0
      BY <1>1, <1>13, <3>1 DEF RestOf, Is
    <3>4. QED
      BY <1>3, <3>2, <3>3 DEF TileOf
  <2>3. QED
    BY <2>1, <2>2
<1>19. \A x \in ToSet(list) : header'[x].used = header[x].used
  <2> SUFFICES ASSUME NEW x \in ToSet(list) PROVE header'[x].used = header[x].used
    OBVIOUS
  <2>1. CASE x = a
    BY <1>14, <2>1 DEF now
  <2>2. CASE x # a
    BY <1>3, <1>14, <2>2, PlaceOf
  <2>3. QED
    BY <2>1, <2>2
<1>20. HeldOf(c)'
  <2>1. Apart'
    BY <1>1, <1>3, <1>19 DEF HeldOf, Apart
  <2>2. QED
    BY <1>1, <1>3, <1>13, <1>19, <1>a, <2>1 DEF HeldOf, Taking, Given
<1>21. GapOf(c)'
  BY <1>1, <1>3, <1>17, <1>19 DEF GapOf, FreePair, JoiningOf, Is
<1>22. HeapTypes'
  BY <1>1, <1>3, <1>13, <1>14, Types, TypesNext DEF HeapTypes
<1>23. StepOf(c)
  BY <1>1, <1>3, <1>13 DEF StepOf, Inside
<1>24. PhaseInv(c)'
  <2>1. a \notin Given' /\ UsedBehind(a)'
    BY <1>1, <1>4, <1>17, <1>19 DEF Given, UsedBehind
  <2>2. header'[b].size > 0 /\ ~ header'[b].used /\ b \in Address'
    BY <1>1, <1>4, <1>5, <1>6, <1>12, <1>16 DEF Address
  <2>3. QED
    BY <1>1, <1>6, <1>13, <1>15, <2>1, <2>2
    DEF PhaseInv, Asking, Is, Taking, Inside, b
<1>25. OrderInv'
  BY <1>1, <1>3 DEF OrderInv
<1>26. SizesKept
  <2>1. \A x \in ToSet(list) : x \in Address
    BY <1>3, PlaceOf
  <2>2. QED
    BY <1>3, <1>4, <1>14, <2>1, GivenListed DEF SizesKept, HeldOf
<1>27. QED
  BY <1>3, <1>18, <1>20, <1>21, <1>22, <1>23, <1>24, <1>25, <1>26, InvOf

LEMMA LinkKeeps == ASSUME HeapInv, NEW c \in Client, Alone(c), Link(c) PROVE HeapInv'
<1>1. op[c].at = "link" /\ UNCHANGED <<length, header, held>> /\ GoTo(c, "taken")
  BY DEF Link, Is
<1>3. /\ HeapTypes /\ OrderInv /\ Phases /\ Alone(c)
      /\ TileOf(c) /\ HeldOf(c) /\ GapOf(c) /\ PhaseInv(c)
  BY View
<1>a. PICK a \in ToSet(list) : a = op[c].block
  BY <1>1, <1>3 DEF PhaseInv, Is, Inside
<1>n. PICK n \in Sizes : n = op[c].need
  BY <1>1, <1>3 DEF PhaseInv, Asking
<1> DEFINE b == a + Span(n)
<1>4. /\ header[a].used /\ a \notin Given /\ header[a].size = Span(n)
      /\ b \in Address /\ header[b].size > 0 /\ ~ header[b].used /\ UsedBehind(a)
  BY <1>1, <1>3, <1>a, <1>n DEF PhaseInv, Is, Taking
<1>5. Span(n) \in Nat /\ Span(n) > 0
  BY SpanIs
<1>i. PICK i \in DOMAIN list : i = IndexOf(a) /\ list[i] = a /\ \A j \in DOMAIN list : list[j] = a => j = i
  BY <1>3, PlaceOf
<1>6. /\ Len(list) \in Nat /\ DOMAIN list = 1..Len(list) /\ length \in Nat /\ list \in Seq(Address)
      /\ \A j \in DOMAIN list : list[j] \in Address /\ list[j] \in Nat /\ list[j] \in ToSet(list)
  BY <1>3, Types DEF ToSet
<1>7. a + header[a].size + header[b].size = After(i) /\ After(i) \in Nat /\ After(i) <= length
  <2>1. RestOf(c, a) = header[b].size
    BY <1>1, <1>4, <1>a DEF RestOf, Is
  <2>2. QED
    BY <1>3, <1>i, <2>1, Placed DEF TileOf
<1>8. b \in Address /\ b \in Nat /\ a < b /\ b < After(i)
  <2>1. b \in Nat /\ a < b
    BY <1>5, <1>i, <1>6
  <2>2. header[b].size \in Nat
    BY <1>3, <1>4, Types
  <2>3. QED
    BY <1>4, <1>5, <1>6, <1>7, <1>i, <2>1, <2>2
<1>9. b \notin ToSet(list)
  BY <1>3, <1>8, <1>i, RestInside
<1>10. list' = InsertAt(list, i + 1, b)
  BY <1>a, <1>n, <1>i DEF Link, list_add
<1>11. /\ op' \in [Client -> Ops] /\ op'[c].at = "taken" /\ op'[c].need = n /\ op'[c].block = a
       /\ \A d \in Client \ {c} : op'[d] = op[d]
  BY <1>1, <1>3, <1>a, <1>n, GoesTo, Types DEF Places
<1> HIDE DEF b
<1>12. /\ list' \in Seq(Address) /\ Len(list') = Len(list) + 1 /\ DOMAIN list' = 1..(Len(list) + 1)
       /\ \A j \in 1..(Len(list) + 1) :
            list'[j] = IF j < i + 1 THEN list[j] ELSE IF j = i + 1 THEN b ELSE list[j - 1]
  <2>1. i + 1 \in 1..(Len(list) + 1)
    BY <1>6
  <2>2. /\ list' \in Seq(Address) /\ Len(list') = Len(list) + 1
        /\ \A j \in 1..(Len(list) + 1) :
             list'[j] = IF j < i + 1 THEN list[j] ELSE IF j = i + 1 THEN b ELSE list[j - 1]
    <3>1. list \in Seq(Address) /\ b \in Address
      BY <1>6, <1>8
    <3>2. \A k \in 1..(Len(list) + 1) :
            /\ InsertAt(list, k, b) \in Seq(Address) /\ Len(InsertAt(list, k, b)) = Len(list) + 1
            /\ \A j \in 1..(Len(list) + 1) :
                 InsertAt(list, k, b)[j] = IF j < k THEN list[j] ELSE IF j = k THEN b ELSE list[j - 1]
      BY <3>1, InsertIs
    <3>3. QED
      BY <1>10, <2>1, <3>2, Zenon
  <2>3. DOMAIN list' = 1..Len(list')
    BY <2>2
  <2>4. QED
    BY <2>2, <2>3
\* The new list: the blocks up to the one that was divided, the rest, the others.
<1>13. /\ \A j \in 1..i : list'[j] = list[j]
       /\ list'[i + 1] = b
       /\ \A j \in (i + 2)..(Len(list) + 1) : list'[j] = list[j - 1] /\ j - 1 \in DOMAIN list /\ j - 1 > i
  BY <1>6, <1>12
<1>14. ToSet(list') = ToSet(list) \cup {b}
  <2>1. \A j \in DOMAIN list' : list'[j] \in ToSet(list) \cup {b}
    <3> TAKE j \in DOMAIN list'
    <3>1. j \in 1..i \/ j = i + 1 \/ j \in (i + 2)..(Len(list) + 1)
      BY <1>6, <1>12
    <3>2. QED
      BY SMTT(30), <1>6, <1>13, <3>1
  <2>2. \A j \in DOMAIN list : list[j] \in ToSet(list')
    <3> TAKE j \in DOMAIN list
    <3>1. CASE j <= i
      BY SMTT(30), <1>6, <1>12, <1>13, <3>1 DEF ToSet
    <3>2. CASE j > i
      <4>1. j + 1 \in (i + 2)..(Len(list) + 1) /\ j + 1 \in DOMAIN list' /\ (j + 1) - 1 = j
        BY <1>6, <1>12, <3>2
      <4>2. list'[j + 1] = list[j]
        BY <1>13, <4>1
      <4>3. QED
        BY <4>1, <4>2 DEF ToSet
    <3>3. QED
      BY <1>6, <3>1, <3>2
  <2>3. b \in ToSet(list')
    <3>1. i + 1 \in DOMAIN list'
      BY <1>6, <1>12
    <3>2. QED
      BY <1>13, <3>1 DEF ToSet
  <2>4. QED
    BY <2>1, <2>2, <2>3 DEF ToSet
<1>15. OrderInv'
  <2>1. list' # <<>> /\ list'[1] = 0
    BY <1>3, <1>6, <1>12, <1>13 DEF OrderInv
  <2>2. ASSUME NEW j \in DOMAIN list', NEW l \in DOMAIN list', j < l PROVE list'[j] < list'[l]
    <3>0. \A p, q \in DOMAIN list : p < q => list[p] < list[q]
      BY <1>3 DEF OrderInv
    <3>1. CASE l <= i
      BY <1>6, <1>12, <1>13, <2>2, <3>0, <3>1
    <3>2. CASE l = i + 1
      <4>1. j \in 1..i /\ list'[j] = list[j] /\ list'[l] = b
        BY <1>6, <1>12, <1>13, <2>2, <3>2
      <4>2. list[j] <= a
        BY <1>i, <1>6, <3>0, <4>1
      <4>3. QED
        BY <1>6, <1>8, <1>i, <4>1, <4>2
    <3>3. CASE l > i + 1
      <4>1. list'[l] = list[l - 1] /\ l - 1 \in DOMAIN list /\ l - 1 > i
        BY <1>12, <1>13, <3>3
      <4>2. CASE j <= i
        BY <1>6, <1>12, <1>13, <3>0, <4>1, <4>2
      <4>3. CASE j = i + 1
        <5>1. After(i) <= list[l - 1]
          BY <1>3, <4>1, Placed
        <5>2. QED
          BY <1>6, <1>7, <1>8, <1>13, <4>1, <4>3, <5>1
      <4>4. CASE j > i + 1
        <5>1. list'[j] = list[j - 1] /\ j - 1 \in DOMAIN list /\ j - 1 < l - 1
          BY <1>6, <1>12, <1>13, <2>2, <4>4
        <5>2. list[j - 1] < list[l - 1]
          BY <3>0, <4>1, <5>1, Zenon
        <5>3. QED
          BY <4>1, <5>1, <5>2
      <4>5. QED
        BY <1>6, <1>12, <4>2, <4>3, <4>4
    <3>4. QED
      BY <1>6, <1>12, <3>1, <3>2, <3>3
  <2>3. QED
    BY <2>1, <2>2 DEF OrderInv
<1>16. \A j \in DOMAIN list : After(j) = IF j < Len(list) THEN list[j + 1] ELSE length
  BY DEF After
<1>17. \A j \in DOMAIN list' : After(j)' = IF j < Len(list) + 1 THEN list'[j + 1] ELSE length
  BY <1>1, <1>12 DEF After
<1>18. TileOf(c)'
  <2> SUFFICES ASSUME NEW j \in DOMAIN list'
               PROVE  list'[j] + header[list'[j]].size + 0 = After(j)'
    BY <1>1, <1>11 DEF TileOf, RestOf, Is
  <2>0. ASSUME NEW l \in DOMAIN list, l # i
        PROVE  list[l] + header[list[l]].size + 0 = After(l) /\ header[list[l]].size \in Nat
    <3>1. list[l] # a
      BY <1>i, <2>0
    <3>2. RestOf(c, list[l]) = 0
      BY <1>a, <3>1 DEF RestOf
    <3>3. header[list[l]].size \in Nat
      BY <1>3, <1>6, Types
    <3>4. QED
      BY <1>3, <3>2, <3>3 DEF TileOf
  <2>1. CASE j < i
    <3>1. j \in DOMAIN list /\ j # i /\ j \in 1..i /\ j + 1 \in 1..i /\ j < Len(list)
      BY <1>6, <1>12, <2>1
    <3>2. QED
      BY SMTT(30), <1>6, <1>13, <1>16, <1>17, <2>0, <3>1
  <2>2. CASE j = i
    <3>1. list'[j] = a /\ After(j)' = b
      BY <1>6, <1>12, <1>13, <1>17, <1>i, <2>2
    <3>2. QED
      BY <1>4, <1>5, <1>6, <1>i, <3>1 DEF b
  <2>3. CASE j = i + 1
    <3>1. After(j)' = After(i)
      <4>1. CASE i < Len(list)
        <5>1. i + 2 \in (i + 2)..(Len(list) + 1) /\ (i + 2) - 1 = i + 1
          BY <1>6, <4>1
        <5>2. list'[i + 2] = list[i + 1]
          BY <1>13, <5>1
        <5>3. After(j)' = list'[i + 2]
          BY <1>6, <1>17, <2>3, <4>1
        <5>4. QED
          BY <1>16, <4>1, <5>2, <5>3
      <4>2. CASE ~ i < Len(list)
        BY <1>6, <1>16, <1>17, <2>3, <4>2
      <4>3. QED
        BY <4>1, <4>2
    <3>2. header[b].size \in Nat
      BY <1>3, <1>8, Types
    <3>3. QED
      BY <1>4, <1>5, <1>6, <1>7, <1>8, <1>13, <1>i, <2>3, <3>1, <3>2 DEF b
  <2>4. CASE j > i + 1
    <3>1. list'[j] = list[j - 1] /\ j - 1 \in DOMAIN list /\ j - 1 # i
      BY <1>12, <1>13, <2>4
    <3>2. After(j)' = After(j - 1)
      <4>1. CASE j < Len(list) + 1
        <5>1. j + 1 \in (i + 2)..(Len(list) + 1) /\ (j + 1) - 1 = (j - 1) + 1 /\ j - 1 < Len(list)
          BY <1>6, <1>12, <2>4, <4>1
        <5>2. list'[j + 1] = list[(j - 1) + 1]
          BY <1>13, <5>1
        <5>3. QED
          BY <1>16, <1>17, <3>1, <4>1, <5>1, <5>2
      <4>2. CASE ~ j < Len(list) + 1
        BY <1>6, <1>12, <1>16, <1>17, <3>1, <4>2
      <4>3. QED
        BY <4>1, <4>2
    <3>3. QED
      BY <2>0, <3>1, <3>2
  <2>5. QED
    BY <1>12, <2>1, <2>2, <2>3, <2>4
<1>19. HeldOf(c)'
  <2>1. Apart'
    BY <1>1, <1>3, <1>14 DEF HeldOf, Apart
  <2>2. ASSUME NEW x \in ToSet(list'), header[x].used PROVE x \in Given \/ x = a
    BY <1>3, <1>4, <1>14, <1>a, <2>2 DEF HeldOf
  <2>3. QED
    BY <1>1, <1>11, <2>1, <2>2 DEF HeldOf, Taking, Given
<1>20. GapOf(c)'
  <2> SUFFICES ASSUME NEW j \in DOMAIN list', j + 1 \in DOMAIN list'
               PROVE  header[list'[j]].used \/ header[list'[j + 1]].used
    BY <1>1 DEF GapOf, FreePair
  <2>0. ASSUME NEW l \in DOMAIN list, l + 1 \in DOMAIN list
        PROVE  header[list[l]].used \/ header[list[l + 1]].used
    BY <1>1, <1>3, <2>0 DEF GapOf, FreePair, JoiningOf, Is
  <2>1. CASE j < i
    <3>1. j \in DOMAIN list /\ j + 1 \in DOMAIN list /\ j \in 1..i /\ j + 1 \in 1..i
      BY <1>6, <1>12, <2>1
    <3>2. QED
      BY <1>13, <2>0, <3>1
  <2>2. CASE j = i
    BY <1>4, <1>6, <1>13, <1>i, <2>2
  <2>3. CASE j = i + 1
    <3>1. i + 2 \in (i + 2)..(Len(list) + 1) /\ (i + 2) - 1 = i + 1 /\ j + 1 = i + 2
      BY <1>6, <1>12, <2>3
    <3>2. list'[j + 1] = list[i + 1] /\ i + 1 \in DOMAIN list
      BY <1>13, <3>1
    <3>3. QED
      BY <1>4, <1>i, <3>2 DEF UsedBehind
  <2>4. CASE j > i + 1
    <3>1. /\ j \in (i + 2)..(Len(list) + 1) /\ j + 1 \in (i + 2)..(Len(list) + 1)
          /\ (j + 1) - 1 = (j - 1) + 1
      BY <1>6, <1>12, <2>4
    <3>2. /\ list'[j] = list[j - 1] /\ j - 1 \in DOMAIN list
          /\ list'[j + 1] = list[(j - 1) + 1] /\ (j - 1) + 1 \in DOMAIN list
      BY <1>13, <3>1
    <3>3. QED
      BY <2>0, <3>2
  <2>5. i \in Int /\ j \in Int
    BY <1>6, <1>12
  <2>6. QED
    BY <2>1, <2>2, <2>3, <2>4, <2>5
<1>21. HeapTypes'
  BY <1>1, <1>3, <1>11, <1>12, Types, TypesNext DEF HeapTypes
<1>22. StepOf(c)
  BY <1>1, <1>3, <1>11 DEF StepOf, Inside
<1>23. PhaseInv(c)'
  <2>1. a \notin Given' /\ a \in ToSet(list')
    BY <1>1, <1>4, <1>14 DEF Given
  <2>2. header'[a].size >= Span(n) /\ header'[a].used
    BY <1>1, <1>4, <1>5
  <2>3. QED
    BY <1>1, <1>11, <2>1, <2>2
    DEF PhaseInv, Asking, Is, Taking, Inside
<1>24. QED
  BY <1>3, <1>15, <1>18, <1>19, <1>20, <1>21, <1>22, <1>23, InvOf

LEMMA ReturnKeeps == ASSUME HeapInv, NEW c \in Client, Alone(c), Return(c) PROVE HeapInv'
<1>1. /\ op[c].at = "taken" /\ op' = [op EXCEPT ![c] = Idle]
      /\ UNCHANGED <<length, list, header>>
  BY DEF Return, Is
<1>3. /\ HeapTypes /\ OrderInv /\ Phases /\ Alone(c)
      /\ TileOf(c) /\ HeldOf(c) /\ GapOf(c) /\ PhaseInv(c)
  BY View
<1>a. PICK a \in ToSet(list) : a = op[c].block
  BY <1>1, <1>3 DEF PhaseInv, Is, Inside
<1>4. header[a].used /\ a \notin Given /\ a \in Address
  BY <1>1, <1>3, <1>a, PlaceOf DEF PhaseInv, Is, Taking
<1>5. Idle \in Ops /\ Idle.at = "idle"
  BY <1>3, Types, IdleIs DEF OrderInv, Address
<1>6. op' \in [Client -> Ops] /\ op'[c] = Idle /\ \A d \in Client \ {c} : op'[d] = op[d]
  BY <1>1, <1>3, <1>5, OpSet, Types
<1>7. held' = [held EXCEPT ![c] = held[c] \cup {a}]
  BY <1>a DEF Return
<1>8. /\ held' \in [Client -> SUBSET Address] /\ held'[c] = held[c] \cup {a}
      /\ \A d \in Client \ {c} : held'[d] = held[d]
  BY <1>3, <1>4, <1>7, Types
<1>9. HeapTypes'
  BY <1>1, <1>3, <1>6, <1>8, Types, TypesNext
<1>10. StepOf(c)
  BY <1>1, <1>3, <1>5, <1>6, <1>8 DEF StepOf, Inside
<1>11. OrderInv' /\ TileOf(c)'
  BY <1>1, <1>3, <1>5, <1>6 DEF OrderInv, TileOf, RestOf, After, Is
<1>12. \A x : x \in Given' <=> x \in Given \/ x = a
  BY <1>8 DEF Given
<1>13. HeldOf(c)'
  <2>1. \A d \in Client : a \notin held[d]
    BY <1>4 DEF Given
  <2>2. \A d \in Client : \A x \in held'[d] : x \in ToSet(list') /\ header'[x].used
    BY <1>1, <1>3, <1>4, <1>8 DEF HeldOf, Apart
  <2>3. \A d, e \in Client : d # e => held'[d] \cap held'[e] = {}
    <3>1. \A d, e \in Client : d # e => held[d] \cap held[e] = {}
      BY <1>3 DEF HeldOf, Apart
    <3>2. QED
      BY <1>8, <2>1, <3>1
  <2>4. QED
    BY <1>1, <1>3, <1>a, <1>12, <2>2, <2>3 DEF HeldOf, Apart
<1>14. GapOf(c)'
  BY <1>1, <1>3 DEF GapOf, JoiningOf, FreePair, Is
<1>15. PhaseInv(c)'
  BY <1>5, <1>6 DEF PhaseInv, Asking, Is, Taking, Inside
<1>16. QED
  BY <1>3, <1>9, <1>10, <1>11, <1>13, <1>14, <1>15, InvOf

LEMMA FreeKeeps == ASSUME HeapInv, NEW c \in Client, Alone(c), Free(c) PROVE HeapInv'
<1>1. op[c].at = "free" /\ GoTo(c, "back") /\ UNCHANGED <<length, list>>
  BY DEF Free, Is
<1>2. /\ HeapTypes /\ OrderInv /\ Phases /\ Alone(c)
      /\ TileOf(c) /\ HeldOf(c) /\ GapOf(c) /\ PhaseInv(c)
  BY View
<1>a. PICK a \in held[c] : a = op[c].block
  BY <1>1, <1>2 DEF PhaseInv, Is
<1>3. a \in ToSet(list) /\ header[a].used
  BY <1>2 DEF HeldOf, Apart
<1>4. a \in Address /\ header[a] \in Headers /\ header \in [Address -> Headers]
  BY <1>2, <1>3, PlaceOf, Types
<1> DEFINE now == [size |-> header[a].size, used |-> FALSE]
<1>5. header' = [header EXCEPT ![a] = now]
  BY <1>4, <1>a, FieldSet DEF Free
<1>6. now \in Headers
  BY <1>4 DEF Headers
<1> HIDE DEF now
<1>7. /\ header' \in [Address -> Headers] /\ header'[a] = now
      /\ \A x \in ToSet(list) \ {a} : header'[x] = header[x]
  <2>1. \A x \in ToSet(list) : x \in Address
    BY <1>2, PlaceOf
  <2>2. QED
    BY <1>4, <1>5, <1>6, <2>1
<1>8. header'[a].size = header[a].size /\ ~ header'[a].used
  BY <1>7 DEF now
<1>9. held' = [held EXCEPT ![c] = held[c] \ {a}]
  BY <1>a DEF Free
<1>10. /\ held' \in [Client -> SUBSET Address] /\ held'[c] = held[c] \ {a}
       /\ \A d \in Client \ {c} : held'[d] = held[d]
  BY <1>2, <1>9, Types
<1>11. /\ op' \in [Client -> Ops] /\ op'[c].at = "back" /\ op'[c].block = a
       /\ \A d \in Client \ {c} : op'[d] = op[d]
  BY <1>1, <1>2, <1>a, GoesTo, Types DEF Places
<1>12. HeapTypes'
  BY <1>1, <1>2, <1>7, <1>10, <1>11, Types, TypesNext
<1>13. StepOf(c)
  BY <1>1, <1>2, <1>10, <1>11 DEF StepOf, Inside
<1>14. \A x \in ToSet(list) : header'[x].size = header[x].size
  BY <1>7, <1>8
<1>15. \A i \in DOMAIN list : list[i] \in ToSet(list)
  BY DEF ToSet
<1>16. OrderInv' /\ TileOf(c)'
  BY <1>1, <1>2, <1>11, <1>14, <1>15 DEF OrderInv, TileOf, RestOf, After, Is
<1>17. HeldOf(c)'
  <2>1. \A d, e \in Client : d # e => held[d] \cap held[e] = {}
    BY <1>2 DEF HeldOf, Apart
  <2>2. \A d \in Client \ {c} : a \notin held[d]
    BY <2>1
  <2>3. \A d \in Client : \A x \in held'[d] : x \in held[d] /\ x # a
    BY <1>10, <2>2
  <2>4. \A d \in Client : \A x \in held'[d] : x \in ToSet(list) /\ header'[x].used
    BY <1>2, <1>7, <2>3 DEF HeldOf, Apart
  <2>5. \A d, e \in Client : d # e => held'[d] \cap held'[e] = {}
    BY <2>1, <2>3
  <2>6. ASSUME NEW x \in ToSet(list), header'[x].used PROVE x \in Given'
    <3>1. x # a /\ header[x].used
      BY <1>7, <1>8, <2>6
    <3>2. PICK d \in Client : x \in held[d]
      BY <1>1, <1>2, <3>1 DEF HeldOf, Taking, Given
    <3>3. x \in held'[d]
      BY <1>10, <3>1, <3>2
    <3>4. QED
      BY <3>3 DEF Given
  <2>7. QED
    BY <1>1, <2>4, <2>5, <2>6 DEF HeldOf, Apart
<1>18. GapOf(c)'
  <2> SUFFICES ASSUME NEW i \in DOMAIN list, i + 1 \in DOMAIN list,
                      ~ header'[list[i]].used, ~ header'[list[i + 1]].used
               PROVE  a \in {list[i], list[i + 1]}
    BY <1>1, <1>11 DEF GapOf, FreePair, JoiningOf, Is
  <2>1. ~ FreePair(i)
    BY <1>1, <1>2 DEF GapOf, JoiningOf, Is
  <2>2. QED
    BY <1>7, <1>15, <2>1 DEF FreePair
<1>19. PhaseInv(c)'
  BY <1>1, <1>3, <1>8, <1>11 DEF PhaseInv, Asking, Is, Taking, Inside
<1>20. QED
  BY <1>2, <1>12, <1>13, <1>16, <1>17, <1>18, <1>19, InvOf

\* A free block takes in the free block behind it.
LEMMA JoinIs ==
  ASSUME HeapInv, NEW c \in Client, Alone(c), op[c].at \in {"back", "forward"},
         op'[c].at \in {"back", "forward"}, NEW p \in DOMAIN list, FreePair(p), Join(p),
         UNCHANGED <<length, held>>
  PROVE  /\ list' \in Seq(Address) /\ header' \in [Address -> Headers]
         /\ OrderInv' /\ TileOf(c)' /\ HeldOf(c)' /\ SizesKept
         /\ list[p] \in ToSet(list') /\ ~ header'[list[p]].used
         /\ \A j \in DOMAIN list' :
              FreePair(j)' => \/ j = p /\ list'[j] = list[p]
                              \/ j + 1 = p /\ list'[j + 1] = list[p] /\ FreePair(j)
                              \/ \E m \in DOMAIN list : FreePair(m) /\ m # p /\ m # p + 1 /\ m + 1 # p
<1>2. /\ HeapTypes /\ OrderInv /\ Phases /\ Alone(c)
      /\ TileOf(c) /\ HeldOf(c) /\ GapOf(c) /\ PhaseInv(c)
  BY View
<1>3. /\ Len(list) \in Nat /\ DOMAIN list = 1..Len(list) /\ length \in Nat /\ length < Wrap
      /\ list \in Seq(Address) /\ header \in [Address -> Headers]
      /\ \A j \in DOMAIN list : list[j] \in Address /\ list[j] \in Nat /\ list[j] \in ToSet(list)
  BY <1>2, Types DEF ToSet
<1>4. PICK a \in Address : a = list[p]
  BY <1>3
<1>5. PICK b \in Address : b = list[p + 1]
  BY <1>3 DEF FreePair
<1>6. p \in 1..(Len(list) - 1) /\ p + 1 \in DOMAIN list /\ ~ header[a].used /\ ~ header[b].used
  BY <1>3, <1>4, <1>5 DEF FreePair
<1>7. header[a].size \in Nat /\ header[b].size \in Nat /\ header[a] \in Headers
  BY <1>2, <1>3, Types
<1>8. \A j \in DOMAIN list : (list[j] = a => j = p) /\ (list[j] = b => j = p + 1)
  BY <1>2, <1>4, <1>5, <1>6, Placed
<1>9. \A j \in DOMAIN list : list[j] + header[list[j]].size = After(j)
  <2>1. \A x : RestOf(c, x) = 0
    BY DEF RestOf, Is
  <2>2. \A j \in DOMAIN list : header[list[j]].size \in Nat
    BY <1>2, <1>3, Types
  <2>3. QED
    BY <1>2, <1>3, <2>1, <2>2 DEF TileOf
<1> DEFINE now == [size |-> header[a].size + header[b].size, used |-> header[a].used]
<1>10. a + header[a].size = b /\ b + header[b].size = After(p + 1) /\ After(p + 1) <= length
  <2>1. After(p) = b
    BY <1>3, <1>5, <1>6 DEF After
  <2>2. QED
    BY <1>2, <1>4, <1>5, <1>6, <1>9, <2>1, Placed
<1>11. now \in Headers
  <2>1. header[a].size + header[b].size <= length
    BY <1>3, <1>4, <1>7, <1>10
  <2>2. Wrap \in Nat
    BY HeapAssumption
  <2>3. header[a].size + header[b].size \in Count
    BY <1>3, <1>7, <2>1, <2>2 DEF Count
  <2>4. header[a].used \in BOOLEAN
    BY <1>7 DEF Headers
  <2>5. QED
    BY <2>3, <2>4 DEF Headers
<1>12. header' = [header EXCEPT ![a] = now]
  <2>1. header' = [header EXCEPT ![a] = [header[a] EXCEPT !.size = header[a].size + header[b].size]]
    BY <1>4, <1>5 DEF Join
  <2>2. QED
    BY <1>7, <2>1, FieldSet
<1>13. now.size = header[a].size + header[b].size /\ now.used = header[a].used
  OBVIOUS
<1> HIDE DEF now
<1>14. /\ header' \in [Address -> Headers] /\ header'[a] = now
       /\ \A x \in Address \ {a} : header'[x] = header[x]
  BY <1>3, <1>11, <1>12
<1>15. \A x \in Address : header'[x].used = header[x].used
  BY <1>13, <1>14
<1>16. /\ list' \in Seq(Address) /\ Len(list') = Len(list) - 1 /\ DOMAIN list' = 1..(Len(list) - 1)
       /\ \A j \in 1..(Len(list) - 1) : list'[j] = IF j < p + 1 THEN list[j] ELSE list[j + 1]
  <2>1. \A k \in 1..Len(list) :
          /\ RemoveAt(list, k) \in Seq(Address) /\ Len(RemoveAt(list, k)) = Len(list) - 1
          /\ \A j \in 1..(Len(list) - 1) :
               RemoveAt(list, k)[j] = IF j < k THEN list[j] ELSE list[j + 1]
    BY <1>3, RemoveIs
  <2>2. list' = RemoveAt(list, p + 1) /\ p + 1 \in 1..Len(list)
    BY <1>3, <1>6 DEF Join
  <2>3. /\ list' \in Seq(Address) /\ Len(list') = Len(list) - 1
        /\ \A j \in 1..(Len(list) - 1) : list'[j] = IF j < p + 1 THEN list[j] ELSE list[j + 1]
    BY <2>1, <2>2, Zenon
  <2>4. DOMAIN list' = 1..Len(list')
    BY <2>3
  <2>5. QED
    BY <2>3, <2>4
\* The new list: the blocks up to the one that grows, and those behind its neighbour.
<1>17. /\ \A j \in 1..p : list'[j] = list[j] /\ j \in DOMAIN list' /\ j \in DOMAIN list
       /\ \A j \in (p + 1)..(Len(list) - 1) :
            list'[j] = list[j + 1] /\ j + 1 \in DOMAIN list /\ j + 1 > p + 1
  BY <1>3, <1>6, <1>16
<1>18. ASSUME NEW j \in DOMAIN list' PROVE list'[j] \in ToSet(list) \ {b}
  <2>1. CASE j <= p
    <3>1. list'[j] = list[j] /\ j \in DOMAIN list /\ j # p + 1
      BY <1>3, <1>6, <1>16, <1>17, <2>1
    <3>2. QED
      BY <1>3, <1>8, <3>1
  <2>2. CASE j > p
    <3>1. list'[j] = list[j + 1] /\ j + 1 \in DOMAIN list /\ j + 1 # p + 1
      BY <1>3, <1>6, <1>16, <1>17, <2>2
    <3>2. QED
      BY <1>3, <1>8, <3>1
  <2>3. QED
    BY <1>3, <1>16, <2>1, <2>2
<1>19. ASSUME NEW j \in DOMAIN list, j # p + 1 PROVE list[j] \in ToSet(list')
  <2>1. CASE j <= p
    BY <1>3, <1>6, <1>17, <2>1 DEF ToSet
  <2>2. CASE j > p
    <3>1. j - 1 \in (p + 1)..(Len(list) - 1) /\ (j - 1) + 1 = j /\ j - 1 \in DOMAIN list'
      BY <1>3, <1>6, <1>16, <1>19, <2>2
    <3>2. list'[j - 1] = list[j]
      BY <1>17, <3>1
    <3>3. QED
      BY <3>1, <3>2 DEF ToSet
  <2>3. QED
    BY <1>3, <2>1, <2>2
<1>20. OrderInv'
  <2>0. \A q, r \in DOMAIN list : q < r => list[q] < list[r]
    BY <1>2 DEF OrderInv
  <2>1. list' # <<>> /\ list'[1] = 0
    BY <1>2, <1>3, <1>6, <1>16, <1>17 DEF OrderInv
  <2>2. ASSUME NEW j \in DOMAIN list', NEW l \in DOMAIN list', j < l PROVE list'[j] < list'[l]
    <3>1. PICK q \in DOMAIN list : list'[j] = list[q] /\ q = (IF j < p + 1 THEN j ELSE j + 1)
      BY <1>3, <1>6, <1>16
    <3>2. PICK r \in DOMAIN list : list'[l] = list[r] /\ r = (IF l < p + 1 THEN l ELSE l + 1)
      BY <1>3, <1>6, <1>16
    <3>3. q < r
      BY <1>3, <1>6, <1>16, <2>2, <3>1, <3>2
    <3>4. QED
      BY <2>0, <3>1, <3>2, <3>3
  <2>3. QED
    BY <2>1, <2>2 DEF OrderInv
<1>21. \A j \in DOMAIN list : After(j) = IF j < Len(list) THEN list[j + 1] ELSE length
  BY DEF After
<1>22. \A j \in DOMAIN list' : After(j)' = IF j < Len(list) - 1 THEN list'[j + 1] ELSE length
  BY <1>16 DEF After
<1>23. TileOf(c)'
  <2> SUFFICES ASSUME NEW j \in DOMAIN list'
               PROVE  list'[j] + header'[list'[j]].size + 0 = After(j)'
    BY DEF TileOf, RestOf, Is
  <2>0. \A l \in DOMAIN list : header[list[l]].size \in Nat
    BY <1>2, <1>3, Types
  <2>1. CASE j < p
    <3>1. j \in 1..p /\ j + 1 \in 1..p /\ j < Len(list) - 1 /\ j \in DOMAIN list /\ j # p
      BY <1>3, <1>6, <1>16, <2>1
    <3>2. list'[j] = list[j] /\ After(j)' = After(j)
      BY <1>3, <1>6, <1>17, <1>21, <1>22, <3>1
    <3>3. header'[list[j]] = header[list[j]]
      BY <1>3, <1>8, <1>14, <3>1
    <3>4. QED
      BY <1>3, <1>9, <2>0, <3>1, <3>2, <3>3
  <2>2. CASE j = p
    <3>1. list'[j] = a
      BY <1>4, <1>6, <1>17, <2>2
    <3>2. After(j)' = After(p + 1)
      <4>1. CASE p + 1 < Len(list)
        <5>1. p + 1 \in (p + 1)..(Len(list) - 1) /\ p < Len(list) - 1
          BY <1>3, <1>6, <4>1
        <5>2. list'[p + 1] = list[(p + 1) + 1]
          BY <1>17, <5>1
        <5>3. QED
          BY <1>6, <1>21, <1>22, <2>2, <4>1, <5>1, <5>2
      <4>2. CASE ~ p + 1 < Len(list)
        BY <1>3, <1>6, <1>21, <1>22, <2>2, <4>2
      <4>3. QED
        BY <4>1, <4>2
    <3>3. QED
      BY <1>3, <1>4, <1>5, <1>6, <1>7, <1>10, <1>13, <1>14, <3>1, <3>2
  <2>3. CASE j > p
    <3>1. /\ j \in (p + 1)..(Len(list) - 1) /\ list'[j] = list[j + 1]
          /\ j + 1 \in DOMAIN list /\ j + 1 # p
      BY <1>3, <1>6, <1>16, <1>17, <2>3
    <3>2. After(j)' = After(j + 1)
      <4>1. CASE j < Len(list) - 1
        <5>1. j + 1 \in (p + 1)..(Len(list) - 1) /\ j + 1 < Len(list)
          BY <1>3, <1>6, <3>1, <4>1
        <5>2. list'[j + 1] = list[(j + 1) + 1]
          BY <1>17, <5>1
        <5>3. QED
          BY <1>21, <1>22, <3>1, <4>1, <5>1, <5>2
      <4>2. CASE ~ j < Len(list) - 1
        BY <1>3, <1>16, <1>21, <1>22, <3>1, <4>2
      <4>3. QED
        BY <4>1, <4>2
    <3>3. header'[list[j + 1]] = header[list[j + 1]]
      BY <1>3, <1>8, <1>14, <3>1
    <3>4. QED
      BY <1>3, <1>9, <2>0, <3>1, <3>2, <3>3
  <2>4. QED
    BY <1>3, <1>6, <1>16, <2>1, <2>2, <2>3
<1>24. HeldOf(c)'
  <2>1. \A x \in ToSet(list) : x \in Address
    BY <1>2, PlaceOf
  <2>2. ASSUME NEW d \in Client, NEW x \in held[d] PROVE x \in ToSet(list') /\ header'[x].used
    <3>1. x \in ToSet(list) /\ header[x].used
      BY <1>2 DEF HeldOf, Apart
    <3>2. PICK j \in DOMAIN list : list[j] = x
      BY <3>1 DEF ToSet
    <3>3. j # p + 1
      BY <1>5, <1>6, <3>1, <3>2
    <3>4. QED
      BY <1>15, <1>19, <2>1, <3>1, <3>2, <3>3
  <2>3. Apart'
    BY <1>2, <2>2 DEF HeldOf, Apart
  <2>4. ASSUME NEW x \in ToSet(list'), header'[x].used PROVE x \in Given'
    <3>1. x \in ToSet(list)
      BY <1>18 DEF ToSet
    <3>2. QED
      BY <1>2, <1>15, <2>1, <2>4, <3>1 DEF HeldOf, Taking, Given
  <2>5. QED
    BY <2>3, <2>4 DEF HeldOf
<1>25. a \in ToSet(list') /\ ~ header'[a].used
  BY <1>3, <1>4, <1>6, <1>15, <1>19
<1>26. ASSUME NEW j \in DOMAIN list', FreePair(j)'
       PROVE  \/ j = p /\ list'[j] = list[p]
              \/ j + 1 = p /\ list'[j + 1] = list[p] /\ FreePair(j)
              \/ \E m \in DOMAIN list : FreePair(m) /\ m # p /\ m # p + 1 /\ m + 1 # p
  <2>1. j + 1 \in DOMAIN list' /\ ~ header'[list'[j]].used /\ ~ header'[list'[j + 1]].used
    BY <1>26 DEF FreePair
  <2>2. CASE j < p
    <3>1. /\ j \in 1..p /\ j + 1 \in 1..p /\ j \in DOMAIN list /\ j + 1 \in DOMAIN list
          /\ list'[j] = list[j] /\ list'[j + 1] = list[j + 1]
      BY <1>3, <1>6, <1>16, <1>17, <2>2
    <3>2. FreePair(j)
      BY <1>3, <1>15, <2>1, <3>1 DEF FreePair
    <3>3. CASE j + 1 = p
      BY <3>1, <3>2, <3>3
    <3>4. CASE j + 1 # p
      <4>1. j # p /\ j # p + 1
        BY <1>3, <1>6, <2>2
      <4>2. QED
        BY <3>1, <3>2, <3>4, <4>1
    <3>5. QED
      BY <3>3, <3>4
  <2>3. CASE j = p
    BY <1>6, <1>17, <2>3
  <2>4. CASE j > p
    <3>1. /\ j \in (p + 1)..(Len(list) - 1) /\ j + 1 \in (p + 1)..(Len(list) - 1)
      BY <1>3, <1>6, <1>16, <2>1, <2>4
    <3>2. /\ j + 1 \in DOMAIN list /\ (j + 1) + 1 \in DOMAIN list
          /\ list'[j] = list[j + 1] /\ list'[j + 1] = list[(j + 1) + 1]
      BY <1>17, <3>1
    <3>3. FreePair(j + 1)
      BY <1>3, <1>15, <2>1, <3>2 DEF FreePair
    <3>4. j + 1 # p /\ j + 1 # p + 1 /\ (j + 1) + 1 # p
      BY <1>3, <1>6, <3>1
    <3>5. QED
      BY <3>2, <3>3, <3>4
  <2>5. QED
    BY <1>3, <1>6, <1>16, <2>2, <2>3, <2>4
<1>27. SizesKept
  <2>1. \A x \in ToSet(list) : x \in Address
    BY <1>2, PlaceOf
  <2>2. QED
    BY <1>2, <1>6, <1>14, <2>1, GivenListed DEF SizesKept, HeldOf
<1>28. QED
  BY <1>4, <1>14, <1>16, <1>20, <1>23, <1>24, <1>25, <1>26, <1>27

LEMMA JoinBackKeeps == ASSUME HeapInv, NEW c \in Client, Alone(c), JoinBack(c) PROVE HeapInv' /\ SizesKept
<1>1. op[c].at = "back" /\ UNCHANGED <<length, held>>
  BY DEF JoinBack, Is
<1>3. /\ HeapTypes /\ OrderInv /\ Phases /\ Alone(c)
      /\ TileOf(c) /\ HeldOf(c) /\ GapOf(c) /\ PhaseInv(c)
  BY View
<1>a. PICK a \in ToSet(list) : a = op[c].block
  BY <1>1, <1>3 DEF PhaseInv, Is, Inside
<1>4. ~ header[a].used
  BY <1>1, <1>3, <1>a DEF PhaseInv
<1>i. PICK i \in DOMAIN list : i = IndexOf(a) /\ list[i] = a /\ \A j \in DOMAIN list : list[j] = a => j = i
  BY <1>3, PlaceOf
<1>5. /\ Len(list) \in Nat /\ DOMAIN list = 1..Len(list) /\ op \in [Client -> Ops]
      /\ \A j \in DOMAIN list : list[j] \in Address
  BY <1>3, Types
<1>6. CASE JoinsBack(i)
  <2>1. Join(i - 1) /\ op' = [op EXCEPT ![c].block = list[i - 1]]
    BY <1>6, <1>a, <1>i DEF JoinBack
  <2>2. i - 1 \in DOMAIN list /\ (i - 1) + 1 = i /\ FreePair(i - 1)
    <3>1. i - 1 \in DOMAIN list /\ (i - 1) + 1 = i
      BY <1>5, <1>6 DEF JoinsBack
    <3>2. QED
      BY <1>4, <1>6, <1>i, <3>1 DEF JoinsBack, FreePair
  <2>3. PICK p \in DOMAIN list : p = i - 1
    BY <2>2
  <2> DEFINE new == [op[c] EXCEPT !.block = list[p]]
  <2>4. new \in Ops /\ new.at = "back" /\ new.block = list[p]
    BY <1>1, <1>5 DEF Ops
  <2>5. op' = [op EXCEPT ![c] = new]
    BY <2>1, <2>3
  <2> HIDE DEF new
  <2>6. op' \in [Client -> Ops] /\ op'[c] = new /\ \A d \in Client \ {c} : op'[d] = op[d]
    BY <1>5, <2>4, <2>5, OpSet
  <2>7. op'[c].at = "back" /\ op'[c].block = list[p]
    BY <2>4, <2>6
  <2>8. FreePair(p) /\ Join(p)
    BY <2>1, <2>2, <2>3
  <2>9. /\ list' \in Seq(Address) /\ header' \in [Address -> Headers]
        /\ OrderInv' /\ TileOf(c)' /\ HeldOf(c)' /\ SizesKept
        /\ list[p] \in ToSet(list') /\ ~ header'[list[p]].used
        /\ \A j \in DOMAIN list' :
             FreePair(j)' => \/ j = p /\ list'[j] = list[p]
                             \/ j + 1 = p /\ list'[j + 1] = list[p] /\ FreePair(j)
                             \/ \E m \in DOMAIN list : FreePair(m) /\ m # p /\ m # p + 1 /\ m + 1 # p
    BY <1>1, <2>7, <2>8, JoinIs
  <2>10. GapOf(c)'
    <3> SUFFICES ASSUME NEW j \in DOMAIN list', FreePair(j)'
                 PROVE  list[p] \in {list'[j], list'[j + 1]}
      BY <2>7 DEF GapOf, JoiningOf, Is
    <3>1. SUFFICES ASSUME NEW m \in DOMAIN list, FreePair(m), m # p, m # p + 1, m + 1 # p
                   PROVE  FALSE
      BY <2>9
    <3>2. a \in {list[m], list[m + 1]} /\ m + 1 \in DOMAIN list
      BY <1>1, <1>3, <1>a, <3>1 DEF GapOf, JoiningOf, Is, FreePair
    <3>3. m = i \/ m + 1 = i
      BY <1>i, <3>2
    <3>4. QED
      BY <1>5, <2>3, <3>1, <3>3
  <2>11. HeapTypes'
    BY <1>1, <1>3, <2>6, <2>9, Types, TypesNext DEF HeapTypes
  <2>12. StepOf(c)
    BY <1>1, <1>3, <2>6, <2>7 DEF StepOf, Inside
  <2>13. PhaseInv(c)'
    BY <1>1, <2>7, <2>9 DEF PhaseInv, Asking, Is, Taking, Inside
  <2>14. QED
    BY <1>3, <2>9, <2>10, <2>11, <2>12, <2>13, InvOf
<1>7. CASE ~ JoinsBack(i)
  <2>1. GoTo(c, "forward") /\ UNCHANGED <<list, header>>
    BY <1>7, <1>a, <1>i DEF JoinBack
  <2>2. /\ op' \in [Client -> Ops] /\ op'[c].at = "forward" /\ op'[c].block = a
        /\ \A d \in Client \ {c} : op'[d] = op[d]
    BY <1>5, <1>a, <2>1, GoesTo DEF Places
  <2>3. HeapTypes'
    BY <1>1, <1>3, <2>1, <2>2, Types, TypesNext DEF HeapTypes
  <2>4. StepOf(c)
    BY <1>1, <1>3, <2>2 DEF StepOf, Inside
  <2>5. OrderInv' /\ TileOf(c)'
    BY <1>1, <1>3, <2>1, <2>2 DEF OrderInv, TileOf, RestOf, After, Is
  <2>6. HeldOf(c)'
    BY <1>1, <1>3, <2>1, <2>2 DEF HeldOf, Taking, Apart, Given
  <2>7. GapOf(c)'
    <3> SUFFICES ASSUME NEW j \in DOMAIN list, FreePair(j) PROVE list[j] = a
      BY <2>1, <2>2 DEF GapOf, JoiningOf, FreePair, Is
    <3>1. a \in {list[j], list[j + 1]} /\ j + 1 \in DOMAIN list
      BY <1>1, <1>3, <1>a DEF GapOf, JoiningOf, Is, FreePair
    <3>2. CASE list[j + 1] = a
      <4>1. i = j + 1 /\ i > 1 /\ i - 1 = j
        BY <1>5, <1>i, <3>1, <3>2
      <4>2. QED
        BY <1>7, <4>1 DEF JoinsBack, FreePair
    <3>3. QED
      BY <3>1, <3>2
  <2>8. PhaseInv(c)'
    BY <1>4, <2>1, <2>2 DEF PhaseInv, Asking, Is, Taking, Inside
  <2>9. QED
    BY <1>3, <2>1, <2>3, <2>4, <2>5, <2>6, <2>7, <2>8, InvOf DEF SizesKept
<1>8. QED
  BY <1>6, <1>7

LEMMA JoinForwardKeeps == ASSUME HeapInv, NEW c \in Client, Alone(c), JoinForward(c) PROVE HeapInv' /\ SizesKept
<1>1. op[c].at = "forward" /\ UNCHANGED <<length, held>>
  BY DEF JoinForward, Is
<1>3. /\ HeapTypes /\ OrderInv /\ Phases /\ Alone(c)
      /\ TileOf(c) /\ HeldOf(c) /\ GapOf(c) /\ PhaseInv(c)
  BY View
<1>a. PICK a \in ToSet(list) : a = op[c].block
  BY <1>1, <1>3 DEF PhaseInv, Is, Inside
<1>4. ~ header[a].used
  BY <1>1, <1>3, <1>a DEF PhaseInv
<1>p. PICK p \in DOMAIN list : p = IndexOf(a) /\ list[p] = a /\ \A j \in DOMAIN list : list[j] = a => j = p
  BY <1>3, PlaceOf
<1>5. /\ Len(list) \in Nat /\ DOMAIN list = 1..Len(list) /\ op \in [Client -> Ops]
      /\ \A j \in DOMAIN list : list[j] \in Address
  BY <1>3, Types
\* Of two free neighbours the first is the block that is being freed.
<1>6. \A j \in DOMAIN list : FreePair(j) => j = p
  BY <1>1, <1>3, <1>a, <1>p DEF GapOf, JoiningOf, Is
<1>7. CASE JoinsForward(p)
  <2>1. Join(p) /\ op' = op
    BY <1>7, <1>a, <1>p DEF JoinForward
  <2>2. FreePair(p)
    BY <1>4, <1>5, <1>7, <1>p DEF JoinsForward, FreePair
  <2>3. /\ list' \in Seq(Address) /\ header' \in [Address -> Headers]
        /\ OrderInv' /\ TileOf(c)' /\ HeldOf(c)' /\ SizesKept
        /\ list[p] \in ToSet(list') /\ ~ header'[list[p]].used
        /\ \A j \in DOMAIN list' :
             FreePair(j)' => \/ j = p /\ list'[j] = list[p]
                             \/ j + 1 = p /\ list'[j + 1] = list[p] /\ FreePair(j)
                             \/ \E m \in DOMAIN list : FreePair(m) /\ m # p /\ m # p + 1 /\ m + 1 # p
    BY <1>1, <2>1, <2>2, JoinIs
  <2>4. GapOf(c)'
    <3> SUFFICES ASSUME NEW j \in DOMAIN list', FreePair(j)' PROVE list'[j] = a
      BY <1>1, <1>a, <2>1 DEF GapOf, JoiningOf, Is
    <3>1. CASE j + 1 = p /\ FreePair(j)
      <4>1. j \in DOMAIN list
        BY <3>1 DEF FreePair
      <4>2. QED
        BY <1>5, <1>6, <3>1, <4>1
    <3>2. QED
      BY <1>6, <1>p, <2>3, <3>1
  <2>5. HeapTypes'
    BY <1>1, <1>3, <1>5, <2>1, <2>3, Types, TypesNext DEF HeapTypes
  <2>6. StepOf(c)
    BY <1>1, <1>3, <2>1 DEF StepOf, Inside
  <2>7. PhaseInv(c)'
    BY <1>1, <1>a, <1>p, <2>1, <2>3 DEF PhaseInv, Asking, Is, Taking, Inside
  <2>8. QED
    BY <1>3, <2>3, <2>4, <2>5, <2>6, <2>7, InvOf
<1>8. CASE ~ JoinsForward(p)
  <2>1. GoTo(c, "done") /\ UNCHANGED <<list, header>>
    BY <1>8, <1>a, <1>p DEF JoinForward
  <2>2. /\ op' \in [Client -> Ops] /\ op'[c].at = "done"
        /\ \A d \in Client \ {c} : op'[d] = op[d]
    BY <1>5, <2>1, GoesTo DEF Places
  <2>3. HeapTypes'
    BY <1>1, <1>3, <2>1, <2>2, Types, TypesNext DEF HeapTypes
  <2>4. StepOf(c)
    BY <1>1, <1>3, <2>2 DEF StepOf, Inside
  <2>5. OrderInv' /\ TileOf(c)'
    BY <1>1, <1>3, <2>1, <2>2 DEF OrderInv, TileOf, RestOf, After, Is
  <2>6. HeldOf(c)'
    BY <1>1, <1>3, <2>1, <2>2 DEF HeldOf, Taking, Apart, Given
  <2>7. GapOf(c)'
    <3>1. \A j \in DOMAIN list : ~ FreePair(j)
      BY <1>5, <1>6, <1>8 DEF JoinsForward, FreePair
    <3>2. QED
      BY <2>1, <3>1 DEF GapOf, FreePair
  <2>8. PhaseInv(c)'
    BY <2>2 DEF PhaseInv, Asking, Is, Taking, Inside
  <2>9. QED
    BY <1>3, <2>1, <2>3, <2>4, <2>5, <2>6, <2>7, <2>8, InvOf DEF SizesKept
<1>9. QED
  BY <1>7, <1>8

-----------------------------------------------------------------------------
(* Types and tiles.                                                        *)

LEMMA InitInv == Init => HeapInv
<1> SUFFICES ASSUME Init PROVE HeapInv
  OBVIOUS
<1>1. length \in Nat /\ length > 0 /\ length < Wrap /\ Wrap \in Nat
  <2>1. Wrap \in Nat /\ ListHead \in Nat /\ Header \in Nat /\ Header > 0 /\ MinKeep \in Nat
        /\ ListHead + Header <= MinKeep
    BY HeapAssumption
  <2>2. CASE os_memory_init
    BY <2>1, <2>2, HeapAssumption DEF os_memory_init
  <2>3. CASE os_malloc_keep
    <3>1. PICK n \in Keeps : n >= MinKeep /\ length = n - ListHead
      BY <2>3 DEF os_malloc_keep
    <3>2. n \in 0..(Wrap - 1)
      BY HeapAssumption DEF Count
    <3>3. QED
      BY <2>1, <3>1, <3>2
  <2>4. QED
    BY <2>2, <2>3 DEF Init
<1>2. 0 \in Address /\ 0 \in Count /\ length \in Count
  BY <1>1 DEF Address, Count
<1>3. list = <<0>> /\ op = [c \in Client |-> Idle] /\ held = [c \in Client |-> {}]
  BY DEF Init
<1>4. header = [a \in Address |-> [size |-> IF a = 0 THEN length ELSE 0, used |-> FALSE]]
  BY DEF Init, Address
<1>5. Idle \in Ops /\ Idle.at = "idle"
  BY <1>1, IdleIs
<1>6. header \in [Address -> Headers] /\ header[0].size = length /\ ~ header[0].used
  <2>1. \A a \in Address : [size |-> IF a = 0 THEN length ELSE 0, used |-> FALSE] \in Headers
    BY <1>2 DEF Headers
  <2>2. header[0] = [size |-> length, used |-> FALSE]
    BY <1>2, <1>4
  <2>3. QED
    BY <1>4, <2>1, <2>2
<1>7. list \in Seq(Address) /\ Len(list) = 1 /\ DOMAIN list = {1} /\ list[1] = 0 /\ ToSet(list) = {0}
  BY <1>2, <1>3 DEF ToSet
<1>8. HeapTypes
  BY <1>2, <1>3, <1>5, <1>6, <1>7 DEF HeapTypes, Address, Headers, Ops
<1>9. \A c \in Client : op[c] = Idle /\ held[c] = {}
  BY <1>3
<1>11. OrderInv
  <2>1. list # <<>>
    BY <1>3
  <2>2. QED
    BY <1>7, <2>1 DEF OrderInv
<1>12. TileInv
  <2>1. Rest(0) = 0
    BY <1>5, <1>9 DEF Rest, Is
  <2>2. After(1) = length
    BY <1>7 DEF After
  <2>3. QED
    BY <1>1, <1>6, <1>7, <2>1, <2>2 DEF TileInv
<1>13. HeldInv
  BY <1>6, <1>7, <1>9 DEF HeldInv, Apart
<1>14. GapInv
  BY <1>7 DEF GapInv, FreePair
<1>15. Phases
  BY <1>5, <1>9 DEF Phases, PhaseInv, Asking, Is, Taking, Inside
<1>16. QED
  BY <1>8, <1>11, <1>12, <1>13, <1>14, <1>15 DEF HeapInv

\* A step of a task that has the heap to itself, or the beginning of a call.
LEMMA StepKeeps ==
  ASSUME HeapInv, NEW c \in Client, Alone(c) \/ ~ Step(c),
         Call(c) \/ CallFree(c) \/ Step(c)
  PROVE  HeapInv'
BY CallKeeps, CallFreeKeeps, FindKeeps, TakeKeeps, ShrinkKeeps, LinkKeeps, ReturnKeeps,
   NullKeeps, FreeKeeps, JoinBackKeeps, JoinForwardKeeps DEF Step

LEMMA OthersKeep == ASSUME HeapInv, UNCHANGED <<heapVars, op>> PROVE HeapInv'
<1> USE DEF heapVars, HeapInv
<1>1. HeapTypes' /\ OrderInv'
  BY DEF HeapTypes, OrderInv, Address, Headers, Ops
<1>2. TileInv'
  BY DEF TileInv, Rest, After, Is
<1>3. HeldInv'
  BY DEF HeldInv, Apart, Given, Gets, Taking
<1>4. GapInv'
  BY DEF GapInv, FreePair, Joining, Is
<1>5. ASSUME NEW c \in Client PROVE PhaseInv(c)'
  <2>1. PhaseInv(c)
    BY DEF Phases
  <2>2. QED
    BY <2>1 DEF PhaseInv, Is, Taking, Asking, Given, UsedBehind, Fits, Address
<1>6. QED
  BY <1>1, <1>2, <1>3, <1>4, <1>5 DEF Phases

-----------------------------------------------------------------------------
(* Why no two tasks are in the heap.  The mutex alone does not do it: a    *)
(* woken task takes it whoever has it.  But a task that has locked it since*)
(* then is more urgent, and ready until it has unlocked it.                *)

LockInv ==
  /\ guarded \in BOOLEAN
  /\ mutex \in Client \cup {None} /\ lock \in [Client -> LockPlaces]
  /\ \A c \in Client : lock[c] # "none" => op[c].at \in {"find", "free"}
  /\ guarded => \A c \in Client : mutex = c <=> Holds(c)
  /\ ~ guarded => /\ mutex = None
                  /\ \A c \in Client : lock[c] = "none"
                  /\ \A c, d \in Client : Holds(c) /\ Holds(d) => c = d
  /\ \A c, d \in Client : lock[c] = "woken" /\ Holds(d) => Priority[d] < Priority[c]

\* No two tasks are past the lock of one heap, or in calls of a heap without one.
OneAtATime == \A c, d \in Client : Holds(c) /\ Holds(d) => c = d

LEMMA OneOf == LockInv => OneAtATime
BY DEF LockInv, OneAtATime

LEMMA InsideHolds ==
  ASSUME LockInv, NEW c \in Client, op[c].at \in Inside PROVE Holds(c)
BY DEF LockInv, Inside, Holds, Enters, Is

LEMMA StepAlone ==
  ASSUME LockInv, NEW c \in Client, Step(c) PROVE Holds(c) /\ Alone(c)
<1>1. Holds(c)
  <2>1. op[c].at \in Inside \/ (op[c].at \in {"find", "free"} /\ Enters(c))
    BY DEF Step, Find, Free, Take, Shrink, Link, Return, ReturnNull, JoinBack, JoinForward,
           Is, Inside
  <2>2. QED
    BY <2>1, InsideHolds DEF Holds, Is
<1>2. Alone(c)
  BY <1>1, OneOf, InsideHolds DEF OneAtATime, Alone
<1>3. QED
  BY <1>1, <1>2

\* Where the steps of a task lead it.
Moves(c, S) == op'[c].at \in S /\ \A d \in Client \ {c} : op'[d] = op[d]
Within(c) == \/ Find(c) \/ Take(c) \/ Shrink(c) \/ Link(c) \/ Free(c)
             \/ JoinBack(c) \/ JoinForward(c)

LEMMA BeginMoves ==
  ASSUME HeapTypes, NEW c \in Client, Call(c) \/ CallFree(c)
  PROVE  Moves(c, {"find", "free"})
<1>1. op \in [Client -> Ops]
  BY DEF HeapTypes
<1>2. CASE Call(c)
  BY <1>1, <1>2 DEF Call, Moves, Idle
<1>3. CASE CallFree(c)
  BY <1>1, <1>3 DEF CallFree, Moves, Idle
<1>4. QED
  BY <1>2, <1>3

LEMMA EndMoves ==
  ASSUME HeapTypes, NEW c \in Client, Return(c) \/ ReturnNull(c)
  PROVE  Moves(c, {"idle"})
<1>1. op \in [Client -> Ops] /\ op' = [op EXCEPT ![c] = Idle]
  BY DEF HeapTypes, Return, ReturnNull
<1>2. QED
  BY <1>1 DEF Moves, Idle

LEMMA WithinMoves ==
  ASSUME HeapTypes, NEW c \in Client, Within(c)
  PROVE  Moves(c, Inside)
<1>1. op \in [Client -> Ops]
  BY DEF HeapTypes
<1>2. ASSUME NEW place \in Inside, GoTo(c, place) PROVE Moves(c, Inside)
  BY <1>1, <1>2, GoesTo DEF Moves, Inside, Places
<1>3. ASSUME NEW x, op' = [op EXCEPT ![c].block = x], op[c].at \in Inside
      PROVE  Moves(c, Inside)
  <2> DEFINE new == [op[c] EXCEPT !.block = x]
  <2>1. op' = [op EXCEPT ![c] = new] /\ new.at = op[c].at
    BY <1>1, <1>3 DEF Ops
  <2> HIDE DEF new
  <2>2. QED
    BY <1>1, <1>3, <2>1 DEF Moves
<1>4. CASE Find(c)
  <2> DEFINE n == op[c].need
             new == IF Fitting(n) = {} THEN [op[c] EXCEPT !.at = "done"]
                    ELSE [op[c] EXCEPT !.at = "take", !.block = list[Min(Fitting(n))]]
  <2>1. op' = [op EXCEPT ![c] = new]
    BY <1>4 DEF Find
  <2>2. new.at \in Inside
    BY <1>1 DEF Ops, Inside
  <2> HIDE DEF new
  <2>3. QED
    BY <1>1, <2>1, <2>2 DEF Moves
<1>5. CASE Take(c) \/ Shrink(c) \/ Link(c) \/ Free(c)
  <2>1. \E place \in {"shrink", "taken", "link", "back"} : GoTo(c, place)
    BY <1>5 DEF Take, Shrink, Link, Free
  <2>2. QED
    BY <1>2, <2>1 DEF Inside
<1>6. CASE JoinBack(c)
  <2>1. op[c].at = "back"
    BY <1>6 DEF JoinBack, Is
  <2>2. GoTo(c, "forward") \/ \E x : op' = [op EXCEPT ![c].block = x]
    BY <1>6 DEF JoinBack
  <2>3. QED
    BY <1>2, <1>3, <2>1, <2>2 DEF Inside
<1>7. CASE JoinForward(c)
  <2>1. op[c].at = "forward"
    BY <1>7 DEF JoinForward, Is
  <2>2. GoTo(c, "done") \/ op' = op
    BY <1>7 DEF JoinForward
  <2>3. QED
    BY <1>2, <2>1, <2>2 DEF Inside, Moves
<1>8. QED
  BY <1>4, <1>5, <1>6, <1>7 DEF Within

LEMMA LockInit == Init => LockInv
<1> SUFFICES ASSUME Init PROVE LockInv
  OBVIOUS
<1>1. guarded \in BOOLEAN
  BY DEF Init, os_memory_init, os_malloc_keep
<1>2. \A c \in Client : op[c].at = "idle" /\ lock[c] = "none"
  BY DEF Init, Idle
<1>3. mutex = None /\ lock \in [Client -> LockPlaces] /\ None \notin Client
  BY HeapAssumption DEF Init, LockPlaces
<1>4. QED
  BY <1>1, <1>2, <1>3 DEF LockInv, Holds, Is

\* A woken task takes the mutex when no more urgent task is past it.
LEMMA TakesAlone ==
  ASSUME LockInv, NEW c \in Client, Runs(c), lock[c] = "woken", NEW d \in Client
  PROVE  ~ Holds(d)
<1> SUFFICES ASSUME Holds(d) PROVE FALSE
  OBVIOUS
<1>1. Priority[d] < Priority[c]
  BY DEF LockInv
<1>2. Ready(d)
  BY DEF Ready, Holds, Enters
<1>3. Priority[c] <= Priority[d]
  BY <1>2 DEF Runs
<1>4. Priority[c] \in Nat /\ Priority[d] \in Nat
  BY HeapAssumption
<1>5. QED
  BY <1>1, <1>3, <1>4

\* Who passes the lock is more urgent than every task that was woken and waits for
\* its turn.
LEMMA PassesFirst ==
  ASSUME LockInv, NEW c \in Client, Runs(c), NEW d \in Client, d # c, lock[d] = "woken"
  PROVE  Priority[c] < Priority[d]
<1>1. Ready(d)
  BY DEF LockInv, Ready, Is
<1>2. Priority[c] <= Priority[d] /\ Priority[c] # Priority[d]
  BY <1>1, PriorityAssumption DEF Runs
<1>3. Priority[c] \in Nat /\ Priority[d] \in Nat
  BY HeapAssumption
<1>4. QED
  BY <1>2, <1>3

LEMMA NextLock == ASSUME HeapTypes, LockInv, [Next]_vars PROVE LockInv'
<1>0. \A c \in Client : c # None
  BY HeapAssumption
<1>1. CASE UNCHANGED vars
  BY <1>1 DEF vars, heapVars, lockVars, LockInv, Holds, Enters, Is
<1>2. ASSUME NEW c \in Client, Runs(c), Call(c) \/ CallFree(c) PROVE LockInv'
  <2>1. Moves(c, {"find", "free"})
    BY <1>2, BeginMoves
  <2>2. op[c].at = "idle" /\ Begins(c) /\ UNCHANGED <<guarded, mutex>>
    BY <1>2 DEF Call, CallFree, Begins, Is, heapVars
  <2>3. lock[c] = "none"
    BY <2>2 DEF LockInv
  <2>4. CASE guarded
    <3>1. lock' = [lock EXCEPT ![c] = "begins"]
      BY <2>2, <2>4 DEF Begins
    <3>2. lock' \in [Client -> LockPlaces] /\ lock'[c] = "begins"
          /\ \A d \in Client \ {c} : lock'[d] = lock[d]
      BY <3>1 DEF LockInv, LockPlaces
    <3>3. \A d \in Client : Holds(d)' <=> Holds(d)
      BY <2>1, <2>2, <3>2 DEF Holds, Enters, Is, Moves
    <3>4. QED
      BY <2>1, <2>2, <2>4, <3>2, <3>3 DEF LockInv, Moves
  <2>5. CASE ~ guarded
    <3>1. lock' = lock /\ \A d \in Client : op[d].at = "idle"
      BY <2>2, <2>5 DEF Begins, Is
    <3>2. \A d \in Client \ {c} : ~ Holds(d)'
      BY <2>1, <3>1 DEF Holds, Is, Moves
    <3>3. QED
      BY <2>1, <2>2, <2>5, <3>1, <3>2 DEF LockInv, Moves
  <2>6. QED
    BY <2>4, <2>5
<1>3. ASSUME NEW c \in Client, Runs(c), os_mutex_lock(c) \/ LockReturn(c) PROVE LockInv'
  <2>1. guarded /\ UNCHANGED <<guarded, op>>
    BY <1>3 DEF os_mutex_lock, LockReturn, LockInv, heapVars
  <2>2. op[c].at \in {"find", "free"} /\ lock[c] # "none"
    BY <1>3 DEF os_mutex_lock, LockReturn, LockInv
  <2>3. CASE mutex' = c /\ lock' = [lock EXCEPT ![c] = "none"] /\ \A d \in Client : ~ Holds(d)
    <3>1. /\ lock' \in [Client -> LockPlaces] /\ lock'[c] = "none"
          /\ \A d \in Client \ {c} : lock'[d] = lock[d]
      BY <2>3 DEF LockInv, LockPlaces
    <3>2. \A d \in Client : Holds(d)' <=> d = c
      BY <2>1, <2>2, <2>3, <3>1 DEF Holds, Enters, Is
    <3>3. \A d \in Client : lock'[d] = "woken" => Priority[c] < Priority[d]
      BY <1>3, <3>1, PassesFirst
    <3>4. QED
      BY <2>1, <2>2, <2>3, <3>1, <3>2, <3>3 DEF LockInv
  <2>4. CASE lock[c] = "begins" /\ lock' = [lock EXCEPT ![c] = "waits"] /\ mutex' = mutex
    <3>1. /\ lock' \in [Client -> LockPlaces] /\ lock'[c] = "waits"
          /\ \A d \in Client \ {c} : lock'[d] = lock[d]
      BY <2>4 DEF LockInv, LockPlaces
    <3>2. \A d \in Client : Holds(d)' <=> Holds(d)
      BY <2>1, <2>2, <3>1 DEF Holds, Enters, Is
    <3>3. QED
      BY <2>1, <2>2, <2>4, <3>1, <3>2 DEF LockInv
  <2>5. CASE LockReturn(c)
    BY <1>3, <2>3, <2>5, TakesAlone DEF LockReturn
  <2>6. CASE os_mutex_lock(c)
    <3>1. CASE mutex \in {None, c}
      <4>1. ~ Holds(c)
        BY <2>2 DEF Holds, Enters
      <4>2. \A d \in Client : ~ Holds(d)
        BY <1>0, <2>1, <3>1, <4>1 DEF LockInv
      <4>3. QED
        BY <2>3, <2>6, <3>1, <4>2 DEF os_mutex_lock
    <3>2. CASE mutex \notin {None, c}
      BY <2>4, <2>6, <3>2 DEF os_mutex_lock
    <3>3. QED
      BY <3>1, <3>2
  <2>7. QED
    BY <1>3, <2>5, <2>6
<1>4. ASSUME NEW c \in Client, Within(c) PROVE LockInv'
  <2>1. Holds(c)
    BY <1>4, StepAlone DEF Within, Step
  <2>2. Moves(c, Inside)
    BY <1>4, WithinMoves
  <2>3. UNCHANGED <<guarded, mutex, lock>>
    BY <1>4 DEF Within, Find, Take, Shrink, Link, Free, JoinBack, JoinForward, heapVars, lockVars
  <2>4. \A d \in Client : Holds(d)' <=> Holds(d)
    BY <2>1, <2>2, <2>3 DEF Holds, Enters, Is, Moves, Inside
  <2>5. lock[c] = "none"
    BY <2>1 DEF Holds, Enters
  <2>6. QED
    BY <2>2, <2>3, <2>4, <2>5 DEF LockInv, Moves
<1>5. ASSUME NEW c \in Client, Return(c) \/ ReturnNull(c) PROVE LockInv'
  <2>1. Holds(c)
    BY <1>5, StepAlone DEF Step
  <2>2. Moves(c, {"idle"})
    BY <1>5, EndMoves
  <2>3. os_mutex_unlock(c) /\ guarded' = guarded
    BY <1>5 DEF Return, ReturnNull, heapVars
  <2>4. lock[c] = "none" /\ ~ Holds(c)'
    BY <2>1, <2>2 DEF Holds, Enters, Is, Moves
  <2>5. \A d \in Client \ {c} : ~ Holds(d)
    BY <2>1, OneOf DEF OneAtATime
  <2>6. CASE ~ guarded
    <3>1. UNCHANGED <<mutex, lock>>
      BY <1>0, <2>3, <2>6 DEF os_mutex_unlock, LockInv, lockVars
    <3>2. \A d \in Client : ~ Holds(d)'
      BY <2>2, <2>4, <2>5, <3>1 DEF Holds, Enters, Is, Moves
    <3>3. QED
      BY <2>2, <2>3, <2>4, <2>6, <3>1, <3>2 DEF LockInv, Moves
  <2>7. CASE guarded
    <3>1. mutex = c
      BY <2>1, <2>7 DEF LockInv
    <3>2. mutex' = None /\ \/ lock' = lock
                           \/ \E w \in Waiting : lock' = [lock EXCEPT ![w] = "woken"]
      BY <2>3, <3>1 DEF os_mutex_unlock
    <3>3. /\ lock' \in [Client -> LockPlaces]
          /\ \A d \in Client : /\ lock'[d] = "none" <=> lock[d] = "none"
                               /\ lock'[d] = lock[d] \/ lock[d] = "waits"
      BY <3>2 DEF LockInv, LockPlaces, Waiting
    <3>4. \A d \in Client : ~ Holds(d)'
      BY <2>2, <2>4, <2>5, <3>3 DEF Holds, Enters, Is, Moves
    <3>5. \A d \in Client : lock'[d] # "none" => op'[d].at \in {"find", "free"}
      BY <2>2, <2>4, <3>3 DEF LockInv, Moves
    <3>6. QED
      BY <1>0, <2>3, <2>7, <3>2, <3>3, <3>4, <3>5 DEF LockInv
  <2>8. QED
    BY <2>6, <2>7
<1>6. QED
  BY <1>1, <1>2, <1>3, <1>4, <1>5 DEF Next, Step, Within

Inv == HeapInv /\ LockInv

LEMMA NextKeeps == Inv /\ [Next]_vars => Inv'
<1> SUFFICES ASSUME HeapInv, LockInv, [Next]_vars PROVE HeapInv' /\ LockInv'
  BY DEF Inv
<1>1. LockInv'
  BY NextLock DEF HeapInv
<1>2. CASE UNCHANGED <<heapVars, op>>
  BY <1>1, <1>2, OthersKeep
<1>3. ASSUME NEW c \in Client, Call(c) \/ CallFree(c) \/ Step(c) PROVE HeapInv'
  BY <1>3, StepKeeps, StepAlone
<1>4. QED
  BY <1>1, <1>2, <1>3, OthersKeep DEF Next, vars, os_mutex_lock, LockReturn

LEMMA InvHolds == Spec => []Inv
<1>1. Init => Inv
  BY InitInv, LockInit DEF Inv
<1>2. QED
  BY <1>1, NextKeeps, PTL DEF Spec

\* The heap keeps its types: addresses stay inside it, and no size wraps around.
THEOREM TypeCorrect == Spec => []TypeOK
<1>1. Inv => TypeOK
  BY DEF Inv, HeapInv, HeapTypes, LockInv, TypeOK, Address, Headers, Ops
<1>2. QED
  BY <1>1, InvHolds, PTL

\* No two tasks are past os_mutex_lock in calls of the heap at a time, although a
\* woken task takes the mutex whoever has it: because the priorities differ.
THEOREM TasksExcluded == Spec => []OneAtATime
<1>1. Inv => OneAtATime
  BY OneOf DEF Inv
<1>2. QED
  BY <1>1, InvHolds, PTL

\* The blocks of the list tile the heap whenever nobody is in a call: no call of
\* the functions to allocate and to free loses memory or makes it up.
THEOREM TilesTheHeap == Spec => []BlocksTile
<1>1. Inv => BlocksTile
  <2> SUFFICES ASSUME HeapInv, LockInv, Quiet PROVE BlocksTile
    BY DEF BlocksTile, Inv
  <2>1. \A c \in Client : op[c].at \notin Inside
    BY InsideHolds DEF Quiet
  <2>2. \A a : Rest(a) = 0
    BY <2>1 DEF Rest, Is, Inside
  <2>3. \A i \in DOMAIN list : list[i] \in Nat /\ header[list[i]].size \in Nat
    BY Types DEF HeapInv
  <2>4. \A i \in DOMAIN list : list[i] + header[list[i]].size = After(i)
    BY <2>2, <2>3 DEF HeapInv, TileInv
  <2>5. QED
    BY <2>4 DEF BlocksTile, After, HeapInv, OrderInv
<1>2. QED
  BY <1>1, InvHolds, PTL

-----------------------------------------------------------------------------
(* The heap is an allocator.                                               *)

Interval(a) == [at |-> a, span |-> header[a].size]
Asks == [c \in Client |-> IF Asking(c) THEN op[c].need ELSE None]

LEMMA BlocksAre == Blocks = {Interval(a) : a \in Given}
BY DEF Blocks, Given, Interval

LEMMA BlocksSame == ASSUME UNCHANGED held, SizesKept PROVE Blocks' = Blocks
<1>1. Given' = Given
  BY DEF Given
<1>2. Blocks' = {Interval(a)' : a \in Given}
  BY <1>1 DEF Blocks, Given, Interval
<1>3. \A a \in Given : Interval(a)' = Interval(a)
  BY DEF SizesKept, Interval
<1>4. QED
  BY <1>2, <1>3, BlocksAre

\* Who is refused could not have been served: a gap that has room lies in one
\* free block, because there are no two free neighbours.
LEMMA RoomIsFound ==
  ASSUME HeapInv, \A c \in Client : op[c].at \notin Inside,
         NEW n \in Sizes, Allocates!HasRoom(n)
  PROVE  Fitting(n) # {}
<1>1. HeapTypes /\ OrderInv /\ TileInv /\ HeldInv /\ GapInv
  BY DEF HeapInv
<1>2. \A c \in Client : op[c].at \notin Inside
  OBVIOUS
<1>3. /\ Len(list) \in Nat /\ DOMAIN list = 1..Len(list) /\ length \in Nat
      /\ \A j \in DOMAIN list : list[j] \in Nat /\ list[j] \in Address /\ list[j] \in ToSet(list)
  BY <1>1, Types DEF ToSet
<1>4. \A j \in DOMAIN list : list[j] + header[list[j]].size = After(j) /\ header[list[j]].size \in Nat
  <2>1. \A a : Rest(a) = 0
    BY <1>2 DEF Rest, Is, Inside
  <2>2. \A j \in DOMAIN list : header[list[j]].size \in Nat
    BY <1>1, <1>3, Types
  <2>3. QED
    BY <1>1, <1>3, <2>1, <2>2 DEF TileInv
<1>5. \A j \in DOMAIN list : header[list[j]].used => Interval(list[j]) \in Blocks
  <2>1. \A a \in ToSet(list) : header[a].used => a \in Given
    BY <1>1, <1>2 DEF HeldInv, Gets, Taking, Inside
  <2>2. QED
    BY <1>3, <2>1, BlocksAre
<1>6. \A j \in DOMAIN list : ~ FreePair(j)
  BY <1>1, <1>2 DEF GapInv, Joining, Is, Inside
<1>7. Span(n) \in Nat /\ Span(n) > 0
  BY SpanIs
<1>8. PICK at \in 0..(length - Span(n)) :
        \A b \in Blocks : ~ Allocates!Overlap(b, [at |-> at, span |-> Span(n)])
  BY DEF Allocates!HasRoom
<1>9. at \in Nat /\ at + Span(n) <= length
  BY <1>3, <1>7
<1>10. ASSUME NEW j \in DOMAIN list, header[list[j]].used
       PROVE  ~ (list[j] < at + Span(n) /\ at < After(j))
  BY <1>4, <1>5, <1>8, <1>10 DEF Allocates!Overlap, Interval
<1> DEFINE P == {j \in DOMAIN list : list[j] <= at}
<1>11. PICK i \in P : \A j \in P : j <= i
  <2>1. 1 \in P
    BY <1>1, <1>3, <1>9 DEF OrderInv
  <2>2. P \in SUBSET (1..Len(list)) /\ P # {}
    BY <1>3, <2>1
  <2> HIDE DEF P
  <2>3. QED
    BY <1>3, <2>2, LastPlace
<1>12. i \in DOMAIN list /\ list[i] <= at
  OBVIOUS
<1>13. at < After(i) /\ After(i) \in Nat
  <2>1. CASE i < Len(list)
    <3>1. i + 1 \in DOMAIN list /\ i + 1 \notin P
      BY <1>3, <1>11, <2>1
    <3>2. QED
      BY <1>3, <1>9, <2>1, <3>1 DEF After
  <2>2. CASE ~ i < Len(list)
    BY <1>3, <1>7, <1>9, <2>2 DEF After
  <2>3. QED
    BY <2>1, <2>2
<1> HIDE DEF P
<1>14. ~ header[list[i]].used
  BY <1>3, <1>7, <1>9, <1>10, <1>12, <1>13
<1>15. header[list[i]].size >= Span(n)
  <2> SUFFICES ASSUME header[list[i]].size < Span(n) PROVE FALSE
    BY <1>4, <1>7, <1>12
  <2>1. After(i) < at + Span(n)
    BY <1>3, <1>4, <1>7, <1>9, <1>12
  <2>2. i < Len(list)
    <3>1. After(i) < length
      BY <1>3, <1>7, <1>9, <1>13, <2>1
    <3>2. QED
      BY <1>3, <3>1 DEF After
  <2>3. i + 1 \in DOMAIN list /\ list[i + 1] = After(i)
    BY <1>3, <1>12, <2>2 DEF After
  <2>4. header[list[i + 1]].used
    BY <1>6, <1>12, <1>14, <2>3 DEF FreePair
  <2>5. After(i) < After(i + 1) /\ After(i + 1) \in Nat
    BY <1>1, <2>3, Placed
  <2>6. ~ (list[i + 1] < at + Span(n) /\ at < After(i + 1))
    BY <1>10, <2>3, <2>4
  <2>7. QED
    BY <1>9, <1>13, <2>1, <2>3, <2>5, <2>6
<1>16. QED
  BY <1>12, <1>14, <1>15 DEF Fitting, Fits

LEMMA AsksSame ==
  ASSUME NEW c \in Client, \A d \in Client \ {c} : op'[d] = op[d],
         Asking(c)' <=> Asking(c), Asking(c) => op'[c].need = op[c].need
  PROVE  Asks' = Asks
<1>1. \A d \in Client : (Asking(d)' <=> Asking(d)) /\ (Asking(d) => op'[d].need = op[d].need)
  BY DEF Asking
<1>2. Asks' = [d \in Client |-> IF Asking(d)' THEN op'[d].need ELSE None]
  BY DEF Asks
<1>3. QED
  BY <1>1, <1>2 DEF Asks

LEMMA AsksSet ==
  ASSUME NEW c \in Client, \A d \in Client \ {c} : op'[d] = op[d]
  PROVE  Asks' = [Asks EXCEPT ![c] = IF Asking(c)' THEN op'[c].need ELSE None]
<1>1. Asks' = [d \in Client |-> IF Asking(d)' THEN op'[d].need ELSE None]
  BY DEF Asks
<1>2. \A d \in Client \ {c} : (Asking(d)' <=> Asking(d)) /\ op'[d].need = op[d].need
  BY DEF Asking
<1>3. QED
  BY <1>1, <1>2 DEF Asks

\* A step that neither grants nor frees a block, nor begins or ends a request.
Stutters == UNCHANGED <<length, Blocks, Asks>>

LEMMA CallAsks ==
  ASSUME HeapInv, NEW c \in Client, Call(c)
  PROVE  /\ UNCHANGED <<length, Blocks>> /\ Asks[c] = None
         /\ \E n \in Sizes : Asks' = [Asks EXCEPT ![c] = n]
<1>1. PICK r \in Requests : op' = [op EXCEPT ![c] = [Idle EXCEPT !.at = "find",
                                                 !.need = (r.nmemb * r.size) % Wrap]]
  BY DEF Call
<1>2. PICK n \in Sizes : n = r.nmemb * r.size
  BY DEF Sizes
<1>3. n % Wrap = n
  <2>1. n \in Nat /\ n \in 0..(Wrap - 1) /\ Wrap \in Nat
    BY SpanIs, HeapAssumption DEF Count
  <2>2. QED
    BY <2>1, SmallMod
<1> DEFINE new == [Idle EXCEPT !.at = "find", !.need = n]
<1>4. op' = [op EXCEPT ![c] = new]
  BY <1>1, <1>2, <1>3
<1>5. new.at = "find" /\ new.need = n
  BY DEF Idle
<1> HIDE DEF new
<1>6. op'[c] = new /\ (\A d \in Client \ {c} : op'[d] = op[d]) /\ op[c].at = "idle"
  BY <1>4, Types DEF Call, Begins, Is, HeapInv
<1>7. Asks' = [Asks EXCEPT ![c] = n]
  BY <1>5, <1>6, AsksSet DEF Asking
<1>8. Asks[c] = None
  BY <1>6 DEF Asks, Asking
<1>9. UNCHANGED <<length, Blocks>>
  BY BlocksSame DEF Call, SizesKept, heapVars
<1>10. QED
  BY <1>7, <1>8, <1>9

LEMMA FindRefuses ==
  ASSUME HeapInv, NEW c \in Client, Alone(c), Find(c)
  PROVE  \/ Stutters
         \/ /\ Asks[c] \in Sizes /\ ~ Allocates!HasRoom(Asks[c])
            /\ Asks' = [Asks EXCEPT ![c] = None] /\ UNCHANGED <<length, Blocks>>
<1>1. op[c].at = "find" /\ UNCHANGED <<length, list, header, held>>
  BY DEF Find, Is, heapVars
<1>2. UNCHANGED <<length, Blocks>>
  BY <1>1, BlocksSame DEF SizesKept
<1>3. PICK n \in Sizes : n = op[c].need
  BY <1>1 DEF HeapInv, Phases, PhaseInv, Asking
<1>4. op \in [Client -> Ops]
  BY Types DEF HeapInv
<1>5. Asks[c] = n
  BY <1>1, <1>3 DEF Asks, Asking
<1>6. CASE Fitting(n) = {}
  <2> DEFINE new == [op[c] EXCEPT !.at = "done"]
  <2>1. op' = [op EXCEPT ![c] = new]
    BY <1>3, <1>6 DEF Find
  <2>2. new.at = "done"
    BY <1>4 DEF Ops
  <2> HIDE DEF new
  <2>3. op'[c].at = "done" /\ \A d \in Client \ {c} : op'[d] = op[d]
    BY <1>4, <2>1, <2>2
  <2>4. Asks' = [Asks EXCEPT ![c] = None]
    BY <2>3, AsksSet DEF Asking
  <2>5. ~ Allocates!HasRoom(n)
    BY <1>1, <1>6, RoomIsFound DEF Alone, Inside
  <2>6. QED
    BY <1>2, <1>5, <2>4, <2>5
<1>7. CASE Fitting(n) # {}
  <2> DEFINE new == [op[c] EXCEPT !.at = "take", !.block = list[Min(Fitting(n))]]
  <2>1. op' = [op EXCEPT ![c] = new]
    BY <1>3, <1>7 DEF Find
  <2>2. new.at = "take" /\ new.need = n
    BY <1>3, <1>4 DEF Ops
  <2> HIDE DEF new
  <2>3. op'[c].at = "take" /\ op'[c].need = n /\ \A d \in Client \ {c} : op'[d] = op[d]
    BY <1>4, <2>1, <2>2
  <2>4. Asks' = Asks
    BY <1>1, <1>3, <2>3, AsksSame DEF Asking
  <2>5. QED
    BY <1>2, <2>4 DEF Stutters
<1>8. QED
  BY <1>6, <1>7

LEMMA ReturnGrants ==
  ASSUME HeapInv, NEW c \in Client, Alone(c), Return(c)
  PROVE  /\ Asks[c] \in Sizes /\ Asks' = [Asks EXCEPT ![c] = None] /\ length' = length
         /\ \E at \in 0..(length - 1) : \E span \in Span(Asks[c])..(length - at) :
              /\ \A b \in Blocks : ~ Allocates!Overlap(b, [at |-> at, span |-> span])
              /\ Blocks' = Blocks \cup {[at |-> at, span |-> span]}
<1>1. /\ op[c].at = "taken" /\ op' = [op EXCEPT ![c] = Idle]
      /\ UNCHANGED <<length, list, header>>
  BY DEF Return, Is
<1>3. HeapTypes /\ OrderInv /\ TileOf(c) /\ HeldOf(c) /\ PhaseInv(c)
  BY View
<1>a. PICK a \in ToSet(list) : a = op[c].block
  BY <1>1, <1>3 DEF PhaseInv, Is, Inside
<1>n. PICK n \in Sizes : n = op[c].need
  BY <1>1, <1>3 DEF PhaseInv, Asking
<1>4. a \notin Given /\ header[a].size >= Span(n)
  BY <1>1, <1>3, <1>a, <1>n DEF PhaseInv, Taking
<1>5. Asks[c] = n
  BY <1>1, <1>n DEF Asks, Asking
<1>6. op'[c] = Idle /\ \A d \in Client \ {c} : op'[d] = op[d]
  BY <1>1, <1>3, Types
<1>7. Asks' = [Asks EXCEPT ![c] = None]
  BY <1>6, AsksSet DEF Asking, Idle
<1>8. \A x \in ToSet(list) : /\ x \in Address /\ x \in Nat /\ header[x].size \in Nat
                             /\ \E j \in DOMAIN list : list[j] = x
  BY <1>3, PlaceOf, Types DEF ToSet
<1>9. PICK i \in DOMAIN list : list[i] = a
  BY <1>8
<1>10. \A j \in DOMAIN list : list[j] + header[list[j]].size = After(j)
  <2>1. \A x : RestOf(c, x) = 0
    BY <1>1 DEF RestOf, Is
  <2>2. \A j \in DOMAIN list : header[list[j]].size \in Nat
    BY <1>3, Types
  <2>3. QED
    BY <1>3, <2>1, <2>2, Types DEF TileOf
<1> DEFINE span == header[a].size
           new == [at |-> a, span |-> span]
<1>11. a \in 0..(length - 1) /\ span \in Span(n)..(length - a)
  <2>1. a + span <= length /\ length \in Nat
    BY <1>3, <1>9, <1>10, Placed, Types
  <2>2. Span(n) \in Nat
    BY SpanIs
  <2>3. QED
    BY <1>4, <1>8, <2>1, <2>2 DEF Address
<1>12. ASSUME NEW b \in Blocks PROVE ~ Allocates!Overlap(b, new)
  <2>1. PICK x \in Given : b = Interval(x)
    BY BlocksAre
  <2>2. x \in ToSet(list) /\ x # a
    BY <1>3, <1>4, GivenListed DEF HeldOf
  <2>3. PICK j \in DOMAIN list : list[j] = x
    BY <1>8, <2>2
  <2>4. j # i /\ i \in Nat /\ j \in Nat
    BY <1>3, <1>9, <2>2, <2>3, Types
  <2>5. x + header[x].size <= a \/ a + span <= x
    <3>1. CASE j < i
      BY <1>3, <1>9, <1>10, <2>3, <3>1, Placed
    <3>2. CASE i < j
      BY <1>3, <1>9, <1>10, <2>3, <3>2, Placed
    <3>3. QED
      BY <2>4, <3>1, <3>2
  <2>6. b.at = x /\ b.span = header[x].size /\ new.at = a /\ new.span = span
    BY <2>1 DEF Interval
  <2> HIDE DEF new, span
  <2>7. QED
    BY <1>8, <2>2, <2>5, <2>6 DEF Allocates!Overlap, span
<1>13. Blocks' = Blocks \cup {new}
  <2>1. held' = [held EXCEPT ![c] = held[c] \cup {a}] /\ held \in [Client -> SUBSET Address]
    BY <1>3, <1>a, Types DEF Return
  <2>2. Given' = Given \cup {a}
    BY <2>1 DEF Given
  <2>3. Blocks' = {Interval(x) : x \in Given'}
    BY <1>1 DEF Blocks, Given, Interval
  <2>4. new = Interval(a)
    BY DEF Interval
  <2> HIDE DEF new
  <2>5. QED
    BY <2>2, <2>3, <2>4, BlocksAre
<1>14. QED
  BY <1>1, <1>5, <1>7, <1>11, <1>12, <1>13

LEMMA FreeReleases ==
  ASSUME HeapInv, NEW c \in Client, Alone(c), Free(c)
  PROVE  UNCHANGED <<length, Asks>> /\ \E b \in Blocks : Blocks' = Blocks \ {b}
<1>1. op[c].at = "free" /\ GoTo(c, "back") /\ UNCHANGED <<length, list>>
  BY DEF Free, Is
<1>2. HeapTypes /\ OrderInv /\ HeldOf(c) /\ PhaseInv(c)
  BY View
<1>a. PICK a \in held[c] : a = op[c].block
  BY <1>1, <1>2 DEF PhaseInv, Is
<1>3. op'[c].at = "back" /\ \A d \in Client \ {c} : op'[d] = op[d]
  BY <1>1, <1>2, GoesTo, Types DEF Places
<1>4. Asks' = Asks
  BY <1>1, <1>3, AsksSame DEF Asking
<1>5. a \in Address /\ header \in [Address -> Headers] /\ held \in [Client -> SUBSET Address]
  BY <1>2, Types
<1>6. \A x \in Address : header'[x].size = header[x].size
  <2> DEFINE now == [size |-> header[a].size, used |-> FALSE]
  <2>1. header' = [header EXCEPT ![a] = now]
    BY <1>5, <1>a, FieldSet DEF Free
  <2>2. now.size = header[a].size
    OBVIOUS
  <2> HIDE DEF now
  <2>3. QED
    BY <1>5, <2>1, <2>2
<1>7. held' = [held EXCEPT ![c] = held[c] \ {a}]
  BY <1>a DEF Free
<1>8. Given' = Given \ {a}
  <2>1. \A d \in Client \ {c} : a \notin held[d]
    BY <1>2 DEF HeldOf, Apart
  <2>2. \A d \in Client : held'[d] = held[d] \ {a}
    BY <1>5, <1>7, <2>1
  <2>3. QED
    BY <2>2 DEF Given
<1>9. a \in Given /\ Given \subseteq Address
  BY <1>5 DEF Given
<1>10. Blocks' = {Interval(x)' : x \in Given'}
  BY DEF Blocks, Given, Interval
<1>11. \A x \in Given' : Interval(x)' = Interval(x)
  BY <1>6, <1>8, <1>9 DEF Interval
<1>12. \A x \in Given : Interval(x) = Interval(a) => x = a
  <2>1. \A x : Interval(x).at = x
    BY DEF Interval
  <2>2. QED
    BY <2>1
<1>13. Blocks' = {Interval(x) : x \in Given \ {a}}
  BY <1>8, <1>10, <1>11
<1>14. Blocks' = Blocks \ {Interval(a)}
  BY <1>9, <1>12, <1>13, BlocksAre
<1>15. Interval(a) \in Blocks
  BY <1>9, BlocksAre
<1>16. QED
  BY <1>1, <1>4, <1>14, <1>15

LEMMA OthersStutter ==
  ASSUME HeapInv, NEW c \in Client,
         \/ CallFree(c)
         \/ /\ Alone(c)
            /\ \/ Take(c) \/ Shrink(c) \/ Link(c) \/ ReturnNull(c)
               \/ JoinBack(c) \/ JoinForward(c)
  PROVE  Stutters
<1>0. op \in [Client -> Ops]
  BY Types DEF HeapInv
<1> DEFINE Quietly == length' = length /\ Blocks' = Blocks
<1>1. ASSUME NEW place \in Places, GoTo(c, place), Quietly, Asking(c),
             place \in {"find", "take", "shrink", "link", "taken"}
      PROVE  Stutters
  BY <1>0, <1>1, GoesTo, AsksSame DEF Stutters, Asking
<1>2. ASSUME \A d \in Client \ {c} : op'[d] = op[d], ~ Asking(c), ~ Asking(c)', Quietly
      PROVE  Stutters
  BY <1>2, AsksSame DEF Stutters
<1> HIDE DEF Quietly
<1>3. CASE CallFree(c)
  <2>1. PICK a \in held[c] : op' = [op EXCEPT ![c] = [Idle EXCEPT !.at = "free", !.block = a]]
    BY <1>3 DEF CallFree
  <2>2. op'[c].at = "free" /\ \A d \in Client \ {c} : op'[d] = op[d]
    BY <1>0, <2>1 DEF Idle
  <2>3. Quietly
    BY <1>3, BlocksSame DEF CallFree, SizesKept, Quietly, heapVars
  <2>4. QED
    BY <1>2, <1>3, <2>2, <2>3 DEF CallFree, Begins, Is, Asking
<1>4. CASE Alone(c) /\ Take(c)
  <2>1. Quietly
    BY <1>4, TakeKeeps, BlocksSame DEF Take, Quietly
  <2>2. \E place \in {"shrink", "taken"} : GoTo(c, place)
    BY <1>4 DEF Take
  <2>3. QED
    BY <1>1, <1>4, <2>1, <2>2 DEF Take, Is, Asking, Places
<1>5. CASE Alone(c) /\ Shrink(c)
  <2>1. Quietly
    BY <1>5, ShrinkKeeps, BlocksSame DEF Shrink, Quietly
  <2>2. QED
    BY <1>1, <1>5, <2>1 DEF Shrink, Is, Asking, Places
<1>6. CASE Alone(c) /\ Link(c)
  <2>1. Quietly
    BY <1>6, BlocksSame DEF Link, SizesKept, Quietly
  <2>2. QED
    BY <1>1, <1>6, <2>1 DEF Link, Is, Asking, Places
<1>7. CASE Alone(c) /\ ReturnNull(c)
  <2>1. Quietly
    BY <1>7, BlocksSame DEF ReturnNull, SizesKept, Quietly, heapVars
  <2>2. op'[c].at = "idle" /\ \A d \in Client \ {c} : op'[d] = op[d]
    BY <1>0, <1>7 DEF ReturnNull, Idle
  <2>3. QED
    BY <1>2, <1>7, <2>1, <2>2 DEF ReturnNull, Is, Asking
<1>8. CASE Alone(c) /\ JoinBack(c)
  <2>1. Quietly
    BY <1>8, JoinBackKeeps, BlocksSame DEF JoinBack, Quietly
  <2>2. op'[c].at \in {"back", "forward"} /\ \A d \in Client \ {c} : op'[d] = op[d]
    <3>1. CASE GoTo(c, "forward")
      BY <1>0, <3>1, GoesTo DEF Places
    <3>2. CASE \E x : op' = [op EXCEPT ![c].block = x]
      <4>1. PICK x : op' = [op EXCEPT ![c].block = x]
        BY <3>2
      <4> DEFINE new == [op[c] EXCEPT !.block = x]
      <4>2. op' = [op EXCEPT ![c] = new] /\ new.at = "back"
        BY <1>0, <1>8, <4>1 DEF JoinBack, Is, Ops
      <4> HIDE DEF new
      <4>3. QED
        BY <1>0, <4>2
    <3>3. QED
      BY <1>8, <3>1, <3>2 DEF JoinBack
  <2>3. QED
    BY <1>2, <1>8, <2>1, <2>2 DEF JoinBack, Is, Asking
<1>9. CASE Alone(c) /\ JoinForward(c)
  <2>1. Quietly
    BY <1>9, JoinForwardKeeps, BlocksSame DEF JoinForward, Quietly
  <2>2. op'[c].at \in {"forward", "done"} /\ \A d \in Client \ {c} : op'[d] = op[d]
    <3>1. CASE GoTo(c, "done")
      BY <1>0, <3>1, GoesTo DEF Places
    <3>2. CASE op' = op
      BY <1>9, <3>2 DEF JoinForward, Is
    <3>3. QED
      BY <1>9, <3>1, <3>2 DEF JoinForward
  <2>3. QED
    BY <1>2, <1>9, <2>1, <2>2 DEF JoinForward, Is, Asking
<1>10. QED
  BY <1>3, <1>4, <1>5, <1>6, <1>7, <1>8, <1>9

\* The list of blocks implements an allocator: no memory is ever given to two
\* tasks, each gets as much as it asked for, and is refused only when no gap is
\* large enough, in whatever order blocks are divided, freed and joined.
THEOREM ImplementsAllocator == Spec => IsAllocator
<1>1. Init => Allocates!Init
  <2> SUFFICES ASSUME Init PROVE Allocates!Init
    OBVIOUS
  <2>1. Blocks = {}
    BY DEF Init, Blocks
  <2>2. \A c \in Client : ~ Asking(c)
    BY DEF Init, Asking, Idle
  <2>3. QED
    BY <2>1, <2>2 DEF Allocates!Init
<1>2. Inv /\ [Next]_vars => [Allocates!Next /\ UNCHANGED length]_<<length, Blocks, Asks>>
  <2> SUFFICES ASSUME HeapInv, LockInv, [Next]_vars
               PROVE  (Allocates!Next /\ UNCHANGED length) \/ Stutters
    BY DEF Stutters, Inv
  <2>1. CASE UNCHANGED <<heapVars, op>>
    BY <2>1 DEF heapVars, Stutters, Blocks, Asks, Asking
  <2>2. ASSUME NEW c \in Client, Call(c) PROVE Allocates!Ask(c) /\ UNCHANGED length
    BY <2>2, CallAsks DEF Allocates!Ask, Asks, Sizes
  <2>3. ASSUME NEW n \in Sizes PROVE n # None
    BY SpanIs, HeapAssumption
  <2>a. ASSUME NEW c \in Client, Step(c) PROVE Alone(c)
    BY <2>a, StepAlone
  <2>4. ASSUME NEW c \in Client, Find(c)
        PROVE  (Allocates!Refuse(c) /\ UNCHANGED length) \/ Stutters
    BY <2>3, <2>4, <2>a, FindRefuses DEF Allocates!Refuse, Asks, Step
  <2>5. ASSUME NEW c \in Client, Return(c) PROVE Allocates!Grant(c) /\ UNCHANGED length
    BY <2>3, <2>5, <2>a, ReturnGrants DEF Allocates!Grant, Asks, Step
  <2>6. ASSUME NEW c \in Client, Free(c) PROVE Allocates!Release /\ UNCHANGED length
    BY <2>6, <2>a, FreeReleases DEF Allocates!Release, Asks, Step
  <2>7. ASSUME NEW c \in Client,
               \/ CallFree(c) \/ Take(c) \/ Shrink(c) \/ Link(c) \/ ReturnNull(c)
               \/ JoinBack(c) \/ JoinForward(c)
        PROVE  Stutters
    BY <2>7, <2>a, OthersStutter DEF Step
  <2>8. QED
    BY <2>1, <2>2, <2>4, <2>5, <2>6, <2>7
       DEF Next, Step, Allocates!Next, vars, os_mutex_lock, LockReturn
<1>3. QED
  BY <1>1, <1>2, InvHolds, PTL DEF Spec, IsAllocator, Allocates!Spec, Asks

-----------------------------------------------------------------------------
(* Sums.  A fold is a recursive function on the subsets of what it sums up;*)
(* w has the terms, ch the order.                                          *)

Sums(g, S, ch, w) ==
  \A s \in SUBSET S : g[s] = IF s = {} THEN 0 ELSE w[ch[s]] + g[s \ {ch[s]}]

\* One member more is one term more.
Grows(g, S, w) == \A s \in SUBSET S : \A x \in S \ s : g[s \cup {x}] = g[s] + w[x]

\* Function h does at every set what g does, if it has done so at the set before.
Follows(h, g, S, ch) ==
  \A s \in SUBSET S : (s # {} => h[s \ {ch[s]}] = g[s \ {ch[s]}]) => h[s] = g[s]
Agree(h, g, S) == \A s \in SUBSET S : h[s] = g[s]

Chooses(ch, S) == \A s \in SUBSET S : s # {} => ch[s] \in s

\* The subsets of at most n members.
Small(S, n) == {s \in SUBSET S : Cardinality(s) <= n}

LEMMA SmallFacts ==
  ASSUME NEW S, IsFiniteSet(S)
  PROVE  /\ \A s \in SUBSET S : IsFiniteSet(s) /\ Cardinality(s) \in Nat
         /\ \A s \in SUBSET S : Cardinality(s) = 0 <=> s = {}
         /\ \A s \in SUBSET S : \A x \in s : Cardinality(s \ {x}) = Cardinality(s) - 1
<1>1. \A s \in SUBSET S : IsFiniteSet(s)
  BY FS_Subset
<1>2. \A s \in SUBSET S : Cardinality(s) \in Nat
  BY <1>1, FS_CardinalityType
<1>3. \A s \in SUBSET S : Cardinality(s) = 0 <=> s = {}
  BY <1>1, FS_EmptySet
<1>4. \A s \in SUBSET S : \A x \in s : Cardinality(s \ {x}) = Cardinality(s) - 1
  BY <1>1, FS_RemoveElement
<1>5. QED
  BY <1>1, <1>2, <1>3, <1>4

\* There is such a function, for it can be had for one member more.
LEMMA SumExists ==
  ASSUME NEW S, IsFiniteSet(S), NEW ch, Chooses(ch, S), NEW w \in [S -> Nat]
  PROVE  \E g \in [SUBSET S -> Nat] : Sums(g, S, ch, w)
<1> DEFINE Upto(n) ==
      \E g \in [Small(S, n) -> Nat] :
        \A s \in Small(S, n) : g[s] = IF s = {} THEN 0 ELSE w[ch[s]] + g[s \ {ch[s]}]
<1>1. Upto(0)
  <2> DEFINE g == [s \in Small(S, 0) |-> 0]
  <2>1. \A s \in Small(S, 0) : s = {}
    BY SmallFacts DEF Small
  <2>2. g \in [Small(S, 0) -> Nat]
    OBVIOUS
  <2>3. \A s \in Small(S, 0) : g[s] = IF s = {} THEN 0 ELSE w[ch[s]] + g[s \ {ch[s]}]
    BY <2>1
  <2>4. QED
    BY <2>2, <2>3
<1>2. ASSUME NEW n \in Nat, Upto(n)
      PROVE  Upto(n + 1)
  <2>1. PICK g \in [Small(S, n) -> Nat] :
          \A s \in Small(S, n) : g[s] = IF s = {} THEN 0 ELSE w[ch[s]] + g[s \ {ch[s]}]
    BY <1>2
  <2> DEFINE g1 == [s \in Small(S, n + 1) |->
                      IF s = {} THEN 0 ELSE w[ch[s]] + g[s \ {ch[s]}]]
  <2>2. ASSUME NEW s \in Small(S, n + 1), s # {}
        PROVE  s \ {ch[s]} \in Small(S, n) /\ ch[s] \in S /\ s \in SUBSET S
    <3>1. s \in SUBSET S /\ Cardinality(s) <= n + 1
      BY DEF Small
    <3>2. ch[s] \in s
      BY <2>2, <3>1 DEF Chooses
    <3>3. Cardinality(s \ {ch[s]}) = Cardinality(s) - 1 /\ Cardinality(s) \in Nat
      BY <3>1, <3>2, SmallFacts
    <3>4. QED
      BY <3>1, <3>2, <3>3 DEF Small
  <2>3. g1 \in [Small(S, n + 1) -> Nat]
    <3>1. ASSUME NEW s \in Small(S, n + 1), s # {}
          PROVE  w[ch[s]] + g[s \ {ch[s]}] \in Nat
      <4>1. w[ch[s]] \in Nat /\ g[s \ {ch[s]}] \in Nat
        BY <2>2, <3>1
      <4>2. QED
        BY <4>1
    <3>2. QED
      BY <3>1
  <2>4. \A s \in Small(S, n) : s \in Small(S, n + 1) /\ g1[s] = g[s]
    <3> TAKE s \in Small(S, n)
    <3>1. s \in Small(S, n + 1)
      <4>1. s \in SUBSET S /\ Cardinality(s) \in Nat /\ Cardinality(s) <= n
        BY SmallFacts DEF Small
      <4>2. QED
        BY <4>1 DEF Small
    <3>2. QED
      BY <2>1, <3>1
  <2>5. \A s \in Small(S, n + 1) : g1[s] = IF s = {} THEN 0 ELSE w[ch[s]] + g1[s \ {ch[s]}]
    <3> TAKE s \in Small(S, n + 1)
    <3>1. g1[s] = IF s = {} THEN 0 ELSE w[ch[s]] + g[s \ {ch[s]}]
      OBVIOUS
    <3>2. CASE s # {}
      <4>1. g1[s \ {ch[s]}] = g[s \ {ch[s]}]
        BY <2>2, <2>4, <3>2
      <4>2. QED
        BY <3>1, <4>1
    <3>3. QED
      BY <3>1, <3>2
  <2> HIDE DEF g1
  <2>6. QED
    BY <2>3, <2>5
<1> DEFINE Bad == {n \in Nat : ~ Upto(n)}
<1>3. Bad = {}
  <2> SUFFICES ASSUME Bad # {} PROVE FALSE
    OBVIOUS
  <2> HIDE DEF Upto
  <2>1. PICK n \in Bad : \A m \in Bad : n <= m
    BY SmallestIn
  <2>2. n \in Nat /\ n # 0
    BY <1>1
  <2>3. n - 1 \in Nat /\ n - 1 \notin Bad
    BY <2>1, <2>2
  <2>4. Upto((n - 1) + 1)
    BY <1>2, <2>3
  <2>5. (n - 1) + 1 = n
    BY <2>2
  <2>6. QED
    BY <2>1, <2>4, <2>5
<1>4. Cardinality(S) \in Nat /\ Small(S, Cardinality(S)) = SUBSET S
  BY FS_CardinalityType, FS_Subset DEF Small
<1>5. Upto(Cardinality(S))
  <2> HIDE DEF Upto
  <2>1. QED
    BY <1>3, <1>4
<1>6. QED
  BY <1>4, <1>5 DEF Sums

\* And only one.
LEMMA SumUnique ==
  ASSUME NEW S, IsFiniteSet(S), NEW ch, Chooses(ch, S), NEW w \in [S -> Nat],
         NEW g \in [SUBSET S -> Nat], Sums(g, S, ch, w),
         NEW h, Follows(h, g, S, ch)
  PROVE  Agree(h, g, S)
<1> DEFINE Cards == {Cardinality(s) : s \in {t \in SUBSET S : h[t] # g[t]}}
<1> SUFFICES ASSUME Cards # {} PROVE FALSE
  BY DEF Agree
<1>1. Cards \in SUBSET Nat
  BY SmallFacts
<1>2. PICK n \in Cards : \A m \in Cards : n <= m
  <2> HIDE DEF Cards
  <2>1. QED
    BY <1>1, SmallestIn
<1>3. PICK s \in SUBSET S : h[s] # g[s] /\ n = Cardinality(s)
  OBVIOUS
<1>4. s # {} /\ h[s \ {ch[s]}] # g[s \ {ch[s]}]
  BY <1>3 DEF Follows
<1>5. s \ {ch[s]} \in SUBSET S /\ ch[s] \in s
  BY <1>4 DEF Chooses
<1>6. Cardinality(s \ {ch[s]}) = n - 1 /\ n \in Nat
  BY <1>3, <1>5, SmallFacts
<1>7. n - 1 \in Cards
  BY <1>4, <1>5, <1>6
<1>8. QED
  BY <1>2, <1>6, <1>7

\* The order does not matter: one term more.
LEMMA SumMore ==
  ASSUME NEW S, IsFiniteSet(S), NEW ch, Chooses(ch, S), NEW w \in [S -> Nat],
         NEW g \in [SUBSET S -> Nat], Sums(g, S, ch, w)
  PROVE  Grows(g, S, w)
<1> DEFINE Odd == {t \in SUBSET S : \E x \in S \ t : g[t \cup {x}] # g[t] + w[x]}
           Cards == {Cardinality(s) : s \in Odd}
<1> SUFFICES ASSUME Cards # {} PROVE FALSE
  <2>1. Odd = {} => Grows(g, S, w)
    BY DEF Grows
  <2> HIDE DEF Odd
  <2>2. Odd # {} => Cards # {}
    OBVIOUS
  <2>3. QED
    BY <2>1, <2>2
<1>1. Cards \in SUBSET Nat
  BY SmallFacts
<1>2. PICK n \in Cards : \A m \in Cards : n <= m
  <2> HIDE DEF Cards
  <2>1. QED
    BY <1>1, SmallestIn
<1>3. PICK t \in Odd : n = Cardinality(t)
  OBVIOUS
<1>4. PICK x \in S \ t : g[t \cup {x}] # g[t] + w[x]
  OBVIOUS
<1> DEFINE u == t \cup {x}
           c == ch[u]
<1>5. t \in SUBSET S /\ u \in SUBSET S /\ u # {} /\ c \in u /\ x \in S
  BY DEF Chooses
<1>6. g[u] = w[c] + g[u \ {c}]
  BY <1>5 DEF Sums
<1>7. c # x
  <2> SUFFICES ASSUME c = x PROVE FALSE
    OBVIOUS
  <2>1. u \ {c} = t
    BY <1>4
  <2>2. g[t] \in Nat /\ w[x] \in Nat
    BY <1>5
  <2> HIDE DEF u, c
  <2>3. g[u] = w[x] + g[t]
    <3>1. g[u \ {c}] = g[t] /\ w[c] = w[x]
      BY <2>1
    <3>2. QED
      BY <1>6, <3>1
  <2>4. QED
    BY <1>4, <2>2, <2>3 DEF u
<1> DEFINE r == t \ {c}
<1>8. c \in t /\ r \in SUBSET S /\ c \in S \ r /\ x \in S \ r /\ r \cup {c} = t /\ u \ {c} = r \cup {x}
  <2>1. c \in t
    BY <1>5, <1>7
  <2> HIDE DEF c
  <2>2. r \in SUBSET S /\ c \in S \ r /\ x \in S \ r
    BY <1>4, <1>5, <2>1
  <2>3. r \cup {c} = t
    BY <2>1
  <2>4. u \ {c} = r \cup {x}
    BY <1>7
  <2>5. QED
    BY <2>1, <2>2, <2>3, <2>4
<1>9. r \notin Odd
  <2>1. Cardinality(r) = n - 1 /\ n \in Nat
    BY <1>3, <1>5, <1>8, SmallFacts
  <2>2. n - 1 \notin Cards
    <3> HIDE DEF Cards
    <3>1. \A m \in Cards : n <= m
      BY <1>2
    <3>2. QED
      BY <2>1, <3>1
  <2>3. r \in Odd => n - 1 \in Cards
    <3> HIDE DEF Odd, r
    <3>1. QED
      BY <2>1
  <2>4. QED
    BY <2>2, <2>3
<1>10. g[r \cup {c}] = g[r] + w[c] /\ g[r \cup {x}] = g[r] + w[x]
  BY <1>8, <1>9
<1>11. g[r] \in Nat /\ w[c] \in Nat /\ w[x] \in Nat
  BY <1>5, <1>8
<1> HIDE DEF r, c, u, Odd
<1>12. g[u] = g[t] + w[x]
  <2>1. g[t] = g[r] + w[c] /\ g[u] = w[c] + g[r \cup {x}]
    BY <1>6, <1>8, <1>10
  <2>2. QED
    BY <2>1, <1>10, <1>11
<1>13. QED
  BY <1>4, <1>12 DEF u

\* What is known of such a function.
IsSum(g, S, ch, w) == g \in [SUBSET S -> Nat] /\ Sums(g, S, ch, w) /\ Grows(g, S, w)

LEMMA SumOf ==
  ASSUME NEW S, IsFiniteSet(S), NEW ch, Chooses(ch, S), NEW w \in [S -> Nat]
  PROVE  \E g : IsSum(g, S, ch, w)
<1>1. PICK g \in [SUBSET S -> Nat] : Sums(g, S, ch, w)
  BY SumExists
<1>2. Grows(g, S, w)
  BY <1>1, SumMore
<1>3. QED
  BY <1>1, <1>2 DEF IsSum

\* What UsageCovers compares: the sizes of the blocks at T, and what the command
\* counts along the list q.
SizeSum(h, T) == MapThenSumSet(LAMBDA a : h[a].size, T)
UsageSum(h, q) ==
  FoldLeft(LAMBDA sum, a : IF h[a].used THEN sum + h[a].size ELSE sum, 0, q)

\* One block more is its size more.
GrowsBySize(g, h, T) ==
  \A s \in SUBSET T : \A x \in T \ s : g[s \cup {x}] = g[s] + h[x].size

Some(s) == CHOOSE x \in s : TRUE

LEMMA SizesAddUp ==
  ASSUME NEW A, NEW h \in [A -> Headers], NEW T \in SUBSET A, IsFiniteSet(T)
  PROVE  \E g \in [SUBSET T -> Nat] :
           /\ SizeSum(h, T) = g[T] /\ g[{}] = 0
           /\ GrowsBySize(g, h, T)
<1> DEFINE ch == [s \in SUBSET T |-> Some(s)]
           w == [x \in T |-> h[x].size]
           Is1(g1) == g1 = [s \in SUBSET T |->
             IF s = {} THEN 0
             ELSE h[Some(s)].size + g1[s \ {Some(s)}]]
           it == CHOOSE g1 : Is1(g1)
<1>1. Chooses(ch, T)
  BY DEF Chooses, Some
<1>2. w \in [T -> Nat]
  <2>1. Count \subseteq Nat
    BY HeapAssumption DEF Count
  <2>2. \A x \in T : h[x].size \in Nat
    BY <2>1 DEF Headers
  <2>3. QED
    BY <2>2
<1>3. SizeSum(h, T) = it[T]
  BY Zenon DEF SizeSum, MapThenSumSet, MapThenFoldSet, Some
<1> HIDE DEF w
<1>4. PICK g : IsSum(g, T, ch, w)
  BY <1>1, <1>2, SumOf
<1>5. ASSUME NEW s \in SUBSET T, s # {}
      PROVE  ch[s] = Some(s) /\ ch[s] \in T /\ w[ch[s]] = h[ch[s]].size
  BY <1>1, <1>5 DEF Chooses, w
<1> HIDE DEF ch
<1>6. Is1(g)
  <2>1. \A s \in SUBSET T : g[s] = IF s = {} THEN 0
             ELSE h[Some(s)].size + g[s \ {Some(s)}]
    BY <1>4, <1>5 DEF IsSum, Sums
  <2>2. QED
    BY <1>4, <2>1 DEF IsSum
<1>7. Is1(it)
  <2> HIDE DEF Is1
  <2>1. QED
    BY <1>6, Zenon
<1> HIDE DEF it
<1>8. \A s \in SUBSET T : it[s] = IF s = {} THEN 0 ELSE w[ch[s]] + it[s \ {ch[s]}]
  <2>1. \A s \in SUBSET T : it[s] =
          IF s = {} THEN 0
          ELSE h[Some(s)].size + it[s \ {Some(s)}]
    BY <1>7
  <2>2. QED
    BY <1>5, <2>1
<1>9. \A s \in SUBSET T : it[s] = g[s]
  <2>1. Follows(it, g, T, ch)
    BY <1>4, <1>8 DEF IsSum, Sums, Follows
  <2>2. g \in [SUBSET T -> Nat] /\ Sums(g, T, ch, w)
    BY <1>4 DEF IsSum
  <2>3. Agree(it, g, T)
    BY <1>1, <1>2, <2>1, <2>2, SumUnique
  <2>4. QED
    BY <2>3 DEF Agree
<1>10. SizeSum(h, T) = g[T]
  BY <1>3, <1>9
<1>11. g[{}] = 0
  BY <1>4 DEF IsSum, Sums
<1>12. \A s \in SUBSET T : \A x \in T \ s : g[s \cup {x}] = g[s] + h[x].size
  <2>1. \A s \in SUBSET T : \A x \in T \ s : g[s \cup {x}] = g[s] + w[x]
    BY <1>4 DEF IsSum, Grows
  <2>2. QED
    BY <2>1 DEF w
<1>13. QED
  BY <1>4, <1>10, <1>11, <1>12 DEF IsSum, GrowsBySize

LEMMA MaxOf ==
  ASSUME NEW s, \E y \in s : \A x \in s : y >= x
  PROVE  Max(s) \in s /\ \A x \in s : Max(s) >= x
BY DEF Max

\* p[i] is what has been counted after the first i blocks.
LEMMA UsageAddsUp ==
  ASSUME NEW A, NEW h \in [A -> Headers], NEW q \in Seq(A)
  PROVE  \E p \in [0..Len(q) -> Nat] :
           /\ UsageSum(h, q) = p[Len(q)]
           /\ p[0] = 0
           /\ \A i \in 1..Len(q) :
                p[i] = IF h[q[i]].used THEN p[i - 1] + h[q[i]].size ELSE p[i - 1]
<1> DEFINE D == DOMAIN q
           n == Len(q)
           ch == [s \in SUBSET D |-> Max(s)]
           w == [i \in D |-> IF h[q[i]].used THEN h[q[i]].size ELSE 0]
           Is1(g1) == g1 = [s \in SUBSET D |->
             IF s = {} THEN 0
             ELSE IF h[q[Max(s)]].used THEN g1[s \ {Max(s)}] + h[q[Max(s)]].size
                  ELSE g1[s \ {Max(s)}]]
           it == CHOOSE g1 : Is1(g1)
<1>1. D = 1..n /\ n \in Nat /\ IsFiniteSet(D)
  BY FS_Interval
<1>2. \A s \in SUBSET D : s # {} => Max(s) \in s /\ \A x \in s : Max(s) >= x
  <2> TAKE s \in SUBSET D
  <2> HAVE s # {}
  <2>1. PICK i \in s : \A j \in s : j <= i
    BY <1>1, LastPlace
  <2>2. \E y \in s : \A x \in s : y >= x
    BY <1>1, <2>1
  <2>3. QED
    BY <2>2, MaxOf
<1>3. Chooses(ch, D)
  BY <1>2 DEF Chooses
<1>4. w \in [D -> Nat]
  <2>1. Count \subseteq Nat
    BY HeapAssumption DEF Count
  <2>2. \A i \in D : h[q[i]] \in Headers
    BY <1>1
  <2>3. \A i \in D : h[q[i]].size \in Nat
    BY <2>1, <2>2 DEF Headers
  <2>4. QED
    BY <2>3
<1>5. UsageSum(h, q) = it[D]
  BY Zenon DEF UsageSum, FoldLeft, MapThenFoldSet
<1> HIDE DEF w
<1>6. PICK g : IsSum(g, D, ch, w)
  BY <1>1, <1>3, <1>4, SumOf
<1>7. ASSUME NEW s \in SUBSET D, s # {}
      PROVE  /\ ch[s] = Max(s) /\ ch[s] \in D /\ s \ {ch[s]} \in SUBSET D
             /\ w[ch[s]] = IF h[q[Max(s)]].used THEN h[q[Max(s)]].size ELSE 0
  BY <1>3, <1>7 DEF Chooses, w
<1> HIDE DEF ch, D
<1>8. ASSUME NEW s \in SUBSET D, s # {}, NEW f, f[s \ {ch[s]}] = g[s \ {ch[s]}]
      PROVE  (IF h[q[Max(s)]].used THEN f[s \ {Max(s)}] + h[q[Max(s)]].size ELSE f[s \ {Max(s)}])
               = g[s]
  <2>1. g[s] = w[ch[s]] + g[s \ {ch[s]}]
    BY <1>6, <1>8 DEF IsSum, Sums
  <2>2. g[s \ {ch[s]}] \in Nat /\ w[ch[s]] \in Nat
    BY <1>4, <1>6, <1>7, <1>8 DEF IsSum
  <2>3. f[s \ {Max(s)}] = g[s \ {ch[s]}]
    BY <1>7, <1>8
  <2>4. CASE h[q[Max(s)]].used
    <3>1. w[ch[s]] = h[q[Max(s)]].size
      BY <1>7, <1>8, <2>4
    <3>2. QED
      BY <2>1, <2>2, <2>3, <2>4, <3>1
  <2>5. CASE ~ h[q[Max(s)]].used
    <3>1. w[ch[s]] = 0
      BY <1>7, <1>8, <2>5
    <3>2. QED
      BY <2>1, <2>2, <2>3, <2>5, <3>1
  <2>6. QED
    BY <2>4, <2>5
<1>9. Is1(g)
  <2>1. \A s \in SUBSET D : g[s] =
          IF s = {} THEN 0
          ELSE IF h[q[Max(s)]].used THEN g[s \ {Max(s)}] + h[q[Max(s)]].size
               ELSE g[s \ {Max(s)}]
    BY <1>6, <1>8 DEF IsSum, Sums
  <2>2. QED
    BY <1>6, <2>1 DEF IsSum
<1>10. Is1(it)
  <2> HIDE DEF Is1
  <2>1. QED
    BY <1>9, Zenon
<1> HIDE DEF it
<1>11. \A s \in SUBSET D : it[s] = g[s]
  <2>1. Follows(it, g, D, ch)
    <3> SUFFICES ASSUME NEW s \in SUBSET D, s # {} => it[s \ {ch[s]}] = g[s \ {ch[s]}]
                 PROVE  it[s] = g[s]
      BY DEF Follows
    <3>1. CASE s = {}
      BY <1>6, <1>10, <3>1 DEF IsSum, Sums
    <3>2. CASE s # {}
      BY <1>8, <1>10, <3>2
    <3>3. QED
      BY <3>1, <3>2
  <2>2. g \in [SUBSET D -> Nat] /\ Sums(g, D, ch, w)
    BY <1>6 DEF IsSum
  <2>3. Agree(it, g, D)
    BY <1>1, <1>3, <1>4, <2>1, <2>2, SumUnique
  <2>4. QED
    BY <2>3 DEF Agree
<1> DEFINE p == [i \in 0..n |-> g[1..i]]
<1>12. \A i \in 0..n : 1..i \in SUBSET D
  BY <1>1
<1>13. p \in [0..n -> Nat]
  BY <1>6, <1>12 DEF IsSum
<1>14. p[0] = 0
  <2>1. 1..0 = {} /\ 0 \in 0..n
    BY <1>1
  <2>2. QED
    BY <1>6, <2>1 DEF IsSum, Sums
<1>15. p[n] = it[D]
  BY <1>1, <1>11, <1>12
<1>16. ASSUME NEW i \in 1..n
       PROVE  p[i] = IF h[q[i]].used THEN p[i - 1] + h[q[i]].size ELSE p[i - 1]
  <2>0. i \in Nat /\ i >= 1 /\ i <= n
    BY <1>1
  <2>1. i \in 1..i /\ 1..i # {} /\ 1..i \in SUBSET D /\ i \in 0..n /\ i - 1 \in 0..n
    <3>1. i \in 1..i /\ i \in 0..n /\ i - 1 \in 0..n
      BY <1>1, <2>0
    <3>2. QED
      BY <1>12, <3>1
  <2>2. Max(1..i) = i
    <3>1. Max(1..i) \in 1..i /\ Max(1..i) >= i
      BY <1>2, <2>1
    <3>2. QED
      BY <1>1, <3>1
  <2>3. (1..i) \ {i} = 1..(i - 1)
    BY <1>1
  <2>4. g[1..i] = IF h[q[Max(1..i)]].used THEN g[(1..i) \ {Max(1..i)}] + h[q[Max(1..i)]].size
                  ELSE g[(1..i) \ {Max(1..i)}]
    BY <1>8, <2>1
  <2>5. QED
    BY <2>1, <2>2, <2>3, <2>4
<1> HIDE DEF p
<1>17. QED
  BY <1>5, <1>13, <1>14, <1>15, <1>16

-----------------------------------------------------------------------------
(* The usage that the command reports.                                     *)

\* A block ends where the next one begins, or before that.
LEMMA EndsInTime ==
  ASSUME HeapInv, NEW i \in DOMAIN list
  PROVE  list[i] + header[list[i]].size <= After(i)
<1>1. /\ list[i] \in Nat /\ header[list[i]].size \in Nat
      /\ \A a \in Address : header[a].size \in Nat
  BY Types DEF HeapInv
<1>2. Rest(list[i]) \in Nat
  <2>1. CASE \E c \in Client : Is(c, "link") /\ op[c].block = list[i]
    <3>1. PICK c \in Client : Is(c, "link") /\ op[c].block = list[i]
      BY <2>1
    <3>2. header[list[i]].size = Span(op[c].need) /\ list[i] + Span(op[c].need) \in Address
      BY <3>1 DEF HeapInv, Phases, PhaseInv
    <3>3. QED
      BY <1>1, <2>1, <3>2 DEF Rest
  <2>2. CASE ~ \E c \in Client : Is(c, "link") /\ op[c].block = list[i]
    BY <2>2 DEF Rest
  <2>3. QED
    BY <2>1, <2>2
<1>3. list[i] + header[list[i]].size + Rest(list[i]) = After(i)
  BY DEF HeapInv, TileInv
<1>4. QED
  BY <1>1, <1>2, <1>3

\* The walk of the command has counted, wherever it has got to, at least what the
\* tasks have of the blocks it has passed, and at most the bytes it has passed.
LEMMA UsageInside == HeapInv => UsageCovers
<1> SUFFICES ASSUME HeapInv
             PROVE  /\ SizeSum(header, Given) <= UsageSum(header, list)
                    /\ UsageSum(header, list) <= length
  BY DEF UsageCovers, Given, SizeSum, UsageSum, memory_used
<1> DEFINE n == Len(list)
<1>1. /\ length \in Nat /\ list \in Seq(Address) /\ header \in [Address -> Headers]
      /\ DOMAIN list = 1..n /\ n \in Nat /\ n # 0
      /\ \A i \in 1..n : list[i] \in Address /\ list[i] \in Nat /\ header[list[i]].size \in Nat
  <2>1. list # <<>>
    BY DEF HeapInv, OrderInv
  <2>2. QED
    BY Types, <2>1 DEF HeapInv
<1>2. \A x \in Given : x \in ToSet(list) /\ header[x].used
  BY GivenListed DEF HeapInv, HeldInv
<1>3. Given \in SUBSET Address /\ IsFiniteSet(Given)
  <2>1. ToSet(list) \subseteq Address
    BY <1>1 DEF ToSet
  <2>2. Given \in SUBSET Address
    BY <1>2, <2>1
  <2>3. IsFiniteSet(Address)
    BY <1>1, FS_Interval DEF Address
  <2>4. QED
    BY <2>2, <2>3, FS_Subset
<1>4. PICK g \in [SUBSET Given -> Nat] :
        /\ SizeSum(header, Given) = g[Given] /\ g[{}] = 0
        /\ GrowsBySize(g, header, Given)
  BY <1>1, <1>3, SizesAddUp
<1>5. PICK p \in [0..n -> Nat] :
        /\ UsageSum(header, list) = p[n] /\ p[0] = 0
        /\ \A i \in 1..n :
             p[i] = IF header[list[i]].used THEN p[i - 1] + header[list[i]].size ELSE p[i - 1]
  BY <1>1, UsageAddsUp
<1> DEFINE Passed(i) == {x \in Given : \E j \in 1..i : list[j] = x}
           Bound(i) == IF i = 0 THEN 0 ELSE After(i)
           Counts(i) == g[Passed(i)] <= p[i] /\ p[i] <= Bound(i)
           Bad == {i \in 0..n : ~ Counts(i)}
<1>6. Counts(0)
  <2>1. Passed(0) = {}
    OBVIOUS
  <2>2. 0 \in 0..n
    BY <1>1
  <2>3. g[Passed(0)] = 0 /\ p[0] = 0 /\ Bound(0) = 0
    BY <1>4, <1>5, <2>1
  <2> HIDE DEF Passed, Bound
  <2>4. QED
    BY <2>3
<1>7. ASSUME NEW i \in 1..n, Counts(i - 1)
      PROVE  Counts(i)
  <2> DEFINE a == list[i]
  <2>0. g[Passed(i - 1)] <= p[i - 1] /\ p[i - 1] <= Bound(i - 1)
    BY <1>7
  <2>1. i \in DOMAIN list /\ i - 1 \in 0..n /\ i \in 0..n
    BY <1>1
  <2>2. a \in Nat /\ header[a].size \in Nat /\ a \in Address /\ After(i) \in Nat
        /\ a + header[a].size <= After(i)
    BY <1>1, <2>1, EndsInTime, Placed DEF HeapInv
  <2>3. Bound(i - 1) <= a /\ Bound(i - 1) \in Nat
    <3>1. CASE i = 1
      BY <2>2, <3>1
    <3>2. CASE i # 1
      <4>1. i - 1 \in DOMAIN list /\ i - 1 < i
        BY <1>1, <3>2
      <4>2. After(i - 1) <= a /\ After(i - 1) \in Nat
        BY <2>1, <4>1, Placed DEF HeapInv
      <4>3. QED
        BY <3>2, <4>2
    <3>3. QED
      BY <3>1, <3>2
  <2>4. p[i - 1] \in Nat /\ p[i] \in Nat
    BY <2>1
  <2>5. Bound(i) = After(i)
    BY <1>1
  <2>6. p[i] = IF header[a].used THEN p[i - 1] + header[a].size ELSE p[i - 1]
    BY <1>5
  <2>7. Passed(i - 1) \in SUBSET Given /\ g[Passed(i - 1)] \in Nat
    BY <1>4
  <2>8. Passed(i) = IF a \in Given THEN Passed(i - 1) \cup {a} ELSE Passed(i - 1)
    <3>1. \A j \in 1..i : j = i \/ j \in 1..(i - 1)
      BY <2>1, <1>1
    <3>2. i \in 1..i /\ \A j \in 1..(i - 1) : j \in 1..i
      BY <2>1, <1>1
    <3>3. QED
      BY <3>1, <3>2
  <2>9. a \notin Passed(i - 1)
    <3>1. \A j \in 1..(i - 1) : j \in DOMAIN list /\ j # i
      BY <1>1, <2>1
    <3>2. \A j \in 1..(i - 1) : list[j] # a
      BY <2>1, <3>1, Placed DEF HeapInv
    <3>3. QED
      BY <3>2
  <2> HIDE DEF Passed, Bound
  <2>10. /\ g[Passed(i - 1)] <= p[i - 1] /\ g[Passed(i - 1)] <= p[i - 1] + header[a].size
         /\ g[Passed(i - 1)] + header[a].size <= p[i - 1] + header[a].size
         /\ p[i - 1] <= After(i) /\ p[i - 1] + header[a].size <= After(i)
    <3> DEFINE x == g[Passed(i - 1)]
               y == p[i - 1]
               z == header[a].size
               b == Bound(i - 1)
               e == After(i)
    <3>1. x \in Nat /\ y \in Nat /\ z \in Nat /\ b \in Nat /\ a \in Nat /\ e \in Nat
      BY <2>2, <2>3, <2>4, <2>7
    <3>2. x <= y /\ y <= b /\ b <= a /\ a + z <= e
      BY <2>0, <2>2, <2>3
    <3> HIDE DEF a, x, y, z, b, e
    <3>3. x <= y /\ x <= y + z /\ x + z <= y + z /\ y <= e /\ y + z <= e
      BY <3>1, <3>2
    <3>4. QED
      BY <3>3 DEF x, y, z, e
  <2>11. CASE a \in Given
    <3>1. Passed(i) = Passed(i - 1) \cup {a} /\ a \in Given \ Passed(i - 1)
      BY <2>8, <2>9, <2>11
    <3>2. g[Passed(i)] = g[Passed(i - 1)] + header[a].size
      <4> HIDE DEF a
      <4>1. QED
        BY <1>4, <2>7, <3>1 DEF GrowsBySize
    <3>3. p[i] = p[i - 1] + header[a].size
      BY <1>2, <2>6, <2>11
    <3>4. QED
      BY <2>5, <2>10, <3>2, <3>3
  <2>12. CASE a \notin Given
    <3>1. g[Passed(i)] = g[Passed(i - 1)]
      BY <2>8, <2>12
    <3>2. p[i] = p[i - 1] \/ p[i] = p[i - 1] + header[a].size
      BY <2>6
    <3>3. QED
      BY <2>5, <2>10, <3>1, <3>2
  <2>13. QED
    BY <2>11, <2>12
<1> HIDE DEF Counts
<1>8. Bad = {}
  <2> SUFFICES ASSUME Bad # {} PROVE FALSE
    OBVIOUS
  <2>1. Bad \in SUBSET Nat
    BY <1>1
  <2>2. PICK m \in Bad : \A l \in Bad : m <= l
    <3> HIDE DEF Bad
    <3>1. QED
      BY <2>1, SmallestIn
  <2>3. m # 0 /\ m \in 1..n /\ m - 1 \in 0..n
    BY <1>1, <1>6
  <2>4. m - 1 \notin Bad
    BY <2>2, <2>3
  <2>5. Counts(m)
    BY <1>7, <2>3, <2>4
  <2>6. QED
    BY <2>5
<1>9. Counts(n)
  BY <1>1, <1>8
<1>10. Passed(n) = Given
  BY <1>1, <1>2 DEF ToSet
<1>11. Bound(n) = length
  BY <1>1 DEF After
<1>12. QED
  BY <1>4, <1>5, <1>9, <1>10, <1>11 DEF Counts

\* The usage that the command reports covers what the tasks have and does not
\* exceed the heap, also between two steps of a task that is dividing or joining
\* blocks (memory_used, __os_malloc_base, os_free_safe).
THEOREM UsageIsCovered == Spec => []UsageCovers
<1>1. Inv => UsageCovers
  BY UsageInside DEF Inv
<1>2. QED
  BY <1>1, InvHolds, PTL
=============================================================================
