--------------------------- MODULE TimerListProofs ---------------------------
(***************************************************************************)
(* What the timers and the scheduler need of ticks and of the kernel's     *)
(* linked lists: taking an element out of a list, putting one in before a  *)
(* place, and searching that place.                                        *)
(***************************************************************************)
EXTENDS TimerList, SequenceTheorems, FiniteSetTheorems, WellFoundedInduction, TLAPS

-----------------------------------------------------------------------------
(* Ticks.                                                                  *)

\* RT_TICK_MAX / 2 is half the range, rounded down.
LEMMA HalfRange == Half \in Nat /\ Half >= 1 /\ 2 * Half + 1 <= TickMod /\ TickMod <= 2 * Half + 2
  BY TickModAssumption DEF Half, RT_TICK_MAX

\* Differences of ticks wrap once.
LEMMA MinusWraps ==
    ASSUME NEW a \in Ticks, NEW b \in Ticks
    PROVE  Minus(a, b) = IF a >= b THEN a - b ELSE a - b + TickMod
  BY TickModAssumption DEF Minus, Ticks

\* And so do sums.
LEMMA PlusWraps ==
    ASSUME NEW a \in Ticks, NEW b \in Ticks
    PROVE  Plus(a, b) = IF a + b < TickMod THEN a + b ELSE a + b - TickMod
  BY TickModAssumption DEF Plus, Ticks

\* Both stay within rt_tick_t, and undo each other.
LEMMA TicksClosed ==
    ASSUME NEW a \in Ticks, NEW b \in Ticks
    PROVE  /\ Plus(a, b) \in Ticks /\ Minus(a, b) \in Ticks
           /\ Minus(Plus(a, b), a) = b
<1>1. Plus(a, b) = IF a + b < TickMod THEN a + b ELSE a + b - TickMod
  BY PlusWraps
<1>2. Minus(a, b) = IF a >= b THEN a - b ELSE a - b + TickMod
  BY MinusWraps
<1>3. Plus(a, b) \in Ticks /\ Minus(a, b) \in Ticks
  BY <1>1, <1>2, TickModAssumption DEF Ticks
<1>4. Minus(Plus(a, b), a) = IF Plus(a, b) >= a THEN Plus(a, b) - a ELSE Plus(a, b) - a + TickMod
  BY <1>3, MinusWraps
<1>5. Minus(Plus(a, b), a) = b
  BY <1>1, <1>4, TickModAssumption DEF Ticks
<1>. QED BY <1>3, <1>5

-----------------------------------------------------------------------------
(* The list.                                                               *)

\* A set of naturals that is not empty has a least element, and Min finds it.
LEMMA MinIsLeast ==
    ASSUME NEW T, T \subseteq Nat, T # {}
    PROVE  Min(T) \in T /\ \A y \in T : Min(T) <= y
<1>1. PICK x \in T : \A y \in T : ~(<<y, x>> \in OpToRel(<, Nat))
  BY NatLessThanWellFounded, WFMin, Zenon
<1>2. ASSUME NEW y \in T PROVE x <= y
  <2>1. ~(<<y, x>> \in OpToRel(<, Nat))
    BY <1>1, Zenon
  <2>2. ~(y < x)
    BY <2>1, Zenon DEF OpToRel
  <2>. QED BY <2>2
<1>3. \E z \in T : \A y \in T : z <= y
  BY <1>2
<1>. QED BY <1>3 DEF Min

\* r is list without its k-th element.
Without(E, list, k, r) ==
    /\ r \in Seq(E)
    /\ Len(r) = Len(list) - 1
    /\ \A i \in 1..Len(r) : \/ i < k /\ r[i] = list[i]
                            \/ i >= k /\ i + 1 \in 1..Len(list) /\ r[i] = list[i + 1]

\* rt_list_remove takes out one element, if it is there.
LEMMA Removed ==
    ASSUME NEW E, NEW list \in Seq(E), NEW t \in E
    PROVE  \/ /\ \A i \in 1..Len(list) : list[i] # t
              /\ _rt_timer_remove(list, t) = list
           \/ \E k \in 1..Len(list) : list[k] = t /\ Without(E, list, k, _rt_timer_remove(list, t))
<1>1. CASE \A i \in 1..Len(list) : list[i] # t
  BY <1>1 DEF _rt_timer_remove, RemoveFirst
<1>2. CASE \E i \in 1..Len(list) : list[i] = t
  <2>. DEFINE T == {i \in 1..Len(list) : list[i] = t}
              k == Min(T)
              a == SubSeq(list, 1, k - 1)
              b == SubSeq(list, k + 1, Len(list))
              r == a \o b
  <2>1. T \subseteq Nat /\ T # {}
    BY <1>2
  <2>2. k \in T
    BY <2>1, MinIsLeast
  <2>3. k \in 1..Len(list) /\ list[k] = t /\ k \in Int /\ Len(list) \in Nat
    BY <2>2
  <2>4. _rt_timer_remove(list, t) = r
    BY <1>2, <2>1 DEF _rt_timer_remove, RemoveFirst, RemoveAt, SelectInSeq
  <2>. HIDE DEF k, T
  <2>5. /\ a \in Seq(E) /\ Len(a) = k - 1
        /\ \A i \in 1..k-1 : a[i] = list[i]
    <3>1. \A i \in 1..k-1 : list[i] \in E
      BY <2>3
    <3>2. /\ a \in Seq(E) /\ Len(a) = IF 1 <= k - 1 THEN (k - 1) - 1 + 1 ELSE 0
          /\ \A i \in 1..(k-1)-1+1 : a[i] = list[1 + i - 1]
      BY <2>3, <3>1, SubSeqProperties
    <3>. HIDE DEF a
    <3>. QED BY <2>3, <3>2
  <2>6. /\ b \in Seq(E) /\ Len(b) = Len(list) - k
        /\ \A i \in 1..Len(list)-k : b[i] = list[k + i]
    <3>1. \A i \in k+1..Len(list) : list[i] \in E
      BY <2>3
    <3>2. /\ b \in Seq(E)
          /\ Len(b) = IF k + 1 <= Len(list) THEN Len(list) - (k + 1) + 1 ELSE 0
          /\ \A i \in 1..Len(list)-(k+1)+1 : b[i] = list[(k + 1) + i - 1]
      BY <2>3, <3>1, SubSeqProperties
    <3>. HIDE DEF b
    <3>. QED BY <2>3, <3>2
  <2>. HIDE DEF a, b
  <2>7. /\ r \in Seq(E) /\ Len(r) = Len(list) - 1
        /\ \A i \in 1..Len(list)-1 : r[i] = IF i <= k - 1 THEN a[i] ELSE b[i - (k - 1)]
    <3>1. /\ a \o b \in Seq(E) /\ Len(a \o b) = Len(a) + Len(b)
          /\ \A i \in 1..Len(a)+Len(b) :
               (a \o b)[i] = IF i <= Len(a) THEN a[i] ELSE b[i - Len(a)]
      BY <2>5, <2>6, ConcatProperties
    <3>2. Len(a) + Len(b) = Len(list) - 1
      BY <2>3, <2>5, <2>6
    <3>. QED BY <2>5, <3>1, <3>2
  <2>. HIDE DEF r
  <2>8. ASSUME NEW i \in 1..Len(r)
        PROVE  \/ i < k /\ r[i] = list[i]
               \/ i >= k /\ i + 1 \in 1..Len(list) /\ r[i] = list[i + 1]
    <3>0. i \in Int /\ i \in 1..Len(list)-1
      BY <2>3, <2>7
    <3>1. CASE i < k
      BY <2>3, <2>5, <2>7, <3>0, <3>1
    <3>2. CASE i >= k
      <4>. DEFINE j == i - (k - 1)
      <4>1. j \in 1..Len(list)-k /\ k + j = i + 1 /\ r[i] = b[j]
        BY <2>3, <2>7, <3>0, <3>2
      <4>. HIDE DEF j
      <4>2. b[j] = list[i + 1]
        BY <2>6, <4>1
      <4>. QED BY <2>3, <3>0, <3>2, <4>1, <4>2
    <3>. QED BY <2>3, <3>0, <3>1, <3>2
  <2>9. Without(E, list, k, r)
    BY <2>7, <2>8 DEF Without
  <2>. QED BY <2>3, <2>4, <2>9
<1>. QED BY <1>1, <1>2

\* r is list with t put in at k.
With(E, list, k, t, r) ==
    /\ r \in Seq(E)
    /\ Len(r) = Len(list) + 1
    /\ \A i \in 1..Len(r) : \/ i < k /\ i \in 1..Len(list) /\ r[i] = list[i]
                            \/ i = k /\ r[i] = t
                            \/ i > k /\ i - 1 \in 1..Len(list) /\ r[i] = list[i - 1]

\* Linking t in at place k.
LEMMA InsertedAt ==
    ASSUME NEW E, NEW list \in Seq(E), NEW t \in E, NEW k \in 1..Len(list)+1
    PROVE  With(E, list, k, t, InsertAt(list, k, t))
<1>. DEFINE a == SubSeq(list, 1, k - 1)
            b == SubSeq(list, k, Len(list))
            r == a \o <<t>> \o b
<1>1. Len(list) \in Nat
  OBVIOUS
<1>2. InsertAt(list, k, t) = r
  BY DEF InsertAt
<1>3. k \in 1..Len(list)+1
  OBVIOUS
<1>5. /\ a \in Seq(E) /\ Len(a) = k - 1
      /\ \A i \in 1..k-1 : a[i] = list[i]
  <2>1. k \in Int /\ \A i \in 1..k-1 : list[i] \in E
    BY <1>1, <1>3
  <2>2. /\ a \in Seq(E) /\ Len(a) = IF 1 <= k - 1 THEN (k - 1) - 1 + 1 ELSE 0
        /\ \A i \in 1..(k-1)-1+1 : a[i] = list[1 + i - 1]
    BY <2>1, SubSeqProperties
  <2>. HIDE DEF a
  <2>. QED BY <1>1, <1>3, <2>2
<1>6. /\ b \in Seq(E) /\ Len(b) = Len(list) - k + 1
      /\ \A i \in 1..Len(list)-k+1 : b[i] = list[k + i - 1]
  <2>1. k \in Int /\ Len(list) \in Int /\ \A i \in k..Len(list) : list[i] \in E
    BY <1>1, <1>3
  <2>2. /\ b \in Seq(E) /\ Len(b) = IF k <= Len(list) THEN Len(list) - k + 1 ELSE 0
        /\ \A i \in 1..Len(list)-k+1 : b[i] = list[k + i - 1]
    BY <2>1, SubSeqProperties
  <2>. HIDE DEF b
  <2>. QED BY <1>1, <1>3, <2>2
<1>. HIDE DEF a, b
<1>. DEFINE c == a \o <<t>>
<1>7. c \in Seq(E) /\ Len(c) = k /\ c[k] = t /\ \A i \in 1..k-1 : c[i] = a[i]
  <2>1. <<t>> \in Seq(E) /\ Len(<<t>>) = 1 /\ <<t>>[1] = t
    OBVIOUS
  <2>2. /\ c \in Seq(E) /\ Len(c) = Len(a) + 1
        /\ \A i \in 1..Len(a)+1 : c[i] = IF i <= Len(a) THEN a[i] ELSE <<t>>[i - Len(a)]
    BY <1>5, <2>1, ConcatProperties
  <2>. HIDE DEF c
  <2>. QED BY <1>1, <1>3, <1>5, <2>1, <2>2
<1>. HIDE DEF c
<1>8. /\ r \in Seq(E) /\ Len(r) = Len(list) + 1
      /\ \A i \in 1..Len(list)+1 : r[i] = IF i <= k THEN c[i] ELSE b[i - k]
  <2>1. r = c \o b
    BY DEF c
  <2>2. /\ c \o b \in Seq(E) /\ Len(c \o b) = Len(c) + Len(b)
        /\ \A i \in 1..Len(c)+Len(b) :
             (c \o b)[i] = IF i <= Len(c) THEN c[i] ELSE b[i - Len(c)]
    BY <1>6, <1>7, ConcatProperties
  <2>3. Len(c) + Len(b) = Len(list) + 1
    BY <1>1, <1>3, <1>6, <1>7
  <2>. HIDE DEF r
  <2>. QED BY <1>7, <2>1, <2>2, <2>3
<1>. HIDE DEF r
<1>9. ASSUME NEW i \in 1..Len(r)
      PROVE  \/ i < k /\ i \in 1..Len(list) /\ r[i] = list[i]
             \/ i = k /\ r[i] = t
             \/ i > k /\ i - 1 \in 1..Len(list) /\ r[i] = list[i - 1]
  <2>0. i \in Int /\ i \in 1..Len(list)+1 /\ k \in Int
    BY <1>1, <1>3, <1>8
  <2>1. CASE i < k
    BY <1>1, <1>3, <1>5, <1>7, <1>8, <2>0, <2>1
  <2>2. CASE i = k
    BY <1>1, <1>3, <1>7, <1>8, <2>0, <2>2
  <2>3. CASE i > k
    <3>. DEFINE j == i - k
    <3>1. j \in 1..Len(list)-k+1 /\ k + j - 1 = i - 1 /\ r[i] = b[j]
      BY <1>1, <1>3, <1>8, <2>0, <2>3
    <3>. HIDE DEF j
    <3>2. b[j] = list[i - 1]
      BY <1>6, <3>1
    <3>. QED BY <1>1, <1>3, <2>0, <2>3, <3>1, <3>2
  <2>. QED BY <2>0, <2>1, <2>2, <2>3
<1>10. With(E, list, k, t, r)
  BY <1>8, <1>9 DEF With
<1>. QED BY <1>2, <1>10

\* rt_timer_start puts the timer before the first one that is due later.
LEMMA PutIn ==
    ASSUME NEW E, NEW list \in Seq(E), NEW timeout, NEW t \in E
    PROVE  \E k \in 1..Len(list)+1 :
             /\ With(E, list, k, t, InsertTimer(list, timeout, t))
             /\ \A i \in 1..k-1 : ~StopsSearch(timeout[list[i]], timeout[t])
             /\ k <= Len(list) => StopsSearch(timeout[list[k]], timeout[t])
<1>. DEFINE T == {i \in DOMAIN list : StopsSearch(timeout[list[i]], timeout[t])}
            k == IF T = {} THEN Len(list) + 1 ELSE Min(T)
<1>1. T \subseteq 1..Len(list) /\ T \subseteq Nat /\ Len(list) \in Nat
  OBVIOUS
<1>2. InsertTimer(list, timeout, t) = InsertAt(list, k, t)
  BY DEF InsertTimer
<1>3. /\ k \in 1..Len(list)+1
      /\ \A i \in 1..k-1 : i \notin T
      /\ k <= Len(list) => k \in T
  <2>1. CASE T = {}
    BY <1>1, <2>1
  <2>2. CASE T # {}
    <3>1. k \in T /\ \A y \in T : k <= y
      BY <1>1, <2>2, MinIsLeast
    <3>. HIDE DEF k, T
    <3>. QED BY <1>1, <3>1
  <2>. QED BY <2>1, <2>2
<1>4. /\ \A i \in 1..k-1 : ~StopsSearch(timeout[list[i]], timeout[t])
      /\ k <= Len(list) => StopsSearch(timeout[list[k]], timeout[t])
  <2>. HIDE DEF k
  <2>. QED BY <1>1, <1>3
<1>. HIDE DEF T, k
<1>5. With(E, list, k, t, InsertAt(list, k, t))
  BY <1>3, InsertedAt
<1>. QED BY <1>2, <1>3, <1>4, <1>5

\* Nobody is in the list twice; who is in it; it is in descending order of f.
Once(list) == \A i, j \in 1..Len(list) : list[i] = list[j] => i = j
Members(list) == {list[i] : i \in 1..Len(list)}
Descending(list, f) == \A i, j \in 1..Len(list) : i < j => f[list[i]] >= f[list[j]]

\* Taking a timer out leaves the others, each once.
LEMMA RemovedMembers ==
    ASSUME NEW E, NEW list \in Seq(E), NEW t \in E, Once(list)
    PROVE  LET r == _rt_timer_remove(list, t)
           IN  r \in Seq(E) /\ Once(r) /\ Members(r) = Members(list) \ {t}
<1>. DEFINE r == _rt_timer_remove(list, t)
<1>1. CASE r = list /\ \A i \in 1..Len(list) : list[i] # t
  <2>. HIDE DEF r
  <2>. QED BY <1>1 DEF Members, r
<1>2. CASE \E k \in 1..Len(list) : list[k] = t /\ Without(E, list, k, r)
  <2>1. PICK k \in 1..Len(list) : list[k] = t /\ Without(E, list, k, r)
    BY <1>2
  <2>. HIDE DEF r
  <2>2. k \in Int /\ Len(list) \in Nat /\ r \in Seq(E) /\ Len(r) = Len(list) - 1
    BY <2>1 DEF Without
  <2>3. ASSUME NEW i \in 1..Len(r)
        PROVE  \E m \in 1..Len(list) : m # k /\ r[i] = list[m] /\ m = IF i < k THEN i ELSE i + 1
    <3>1. i \in Int /\ i \in 1..Len(list) /\ i + 1 \in 1..Len(list)
      BY <2>2
    <3>2. \/ i < k /\ r[i] = list[i]
          \/ i >= k /\ r[i] = list[i + 1]
      BY <2>1 DEF Without
    <3>. QED BY <2>2, <3>1, <3>2
  <2>4. ASSUME NEW i \in 1..Len(r), NEW j \in 1..Len(r), r[i] = r[j] PROVE i = j
    <3>1. PICK m \in 1..Len(list) : r[i] = list[m] /\ m = IF i < k THEN i ELSE i + 1
      BY <2>3
    <3>2. PICK n \in 1..Len(list) : r[j] = list[n] /\ n = IF j < k THEN j ELSE j + 1
      BY <2>3
    <3>3. m = n
      BY <2>4, <3>1, <3>2 DEF Once
    <3>. QED BY <2>2, <3>1, <3>2, <3>3
  <2>5. ASSUME NEW i \in 1..Len(list), list[i] # t PROVE \E j \in 1..Len(r) : r[j] = list[i]
    <3>0. i \in Int /\ i # k
      BY <2>1, <2>5
    <3>1. CASE i < k
      <4>1. i \in 1..Len(r)
        BY <2>2, <3>0, <3>1
      <4>. QED BY <2>1, <3>0, <3>1, <4>1 DEF Without
    <3>2. CASE i > k
      <4>. DEFINE j == i - 1
      <4>1. j \in 1..Len(r) /\ j >= k /\ j + 1 = i /\ ~(j < k)
        BY <2>2, <3>0, <3>2
      <4>. HIDE DEF j
      <4>2. r[j] = list[j + 1]
        BY <2>1, <4>1 DEF Without
      <4>. QED BY <4>1, <4>2
    <3>. QED BY <2>2, <3>0, <3>1, <3>2
  <2>6. ASSUME NEW i \in 1..Len(r) PROVE r[i] \in Members(list) \ {t}
    <3>1. PICK m \in 1..Len(list) : m # k /\ r[i] = list[m]
      BY <2>3
    <3>2. list[m] # t
      BY <2>1, <3>1 DEF Once
    <3>. QED BY <3>1, <3>2 DEF Members
  <2>7. Members(r) = Members(list) \ {t}
    <3>1. Members(r) \subseteq Members(list) \ {t}
      BY <2>6 DEF Members
    <3>2. ASSUME NEW x \in Members(list) \ {t} PROVE x \in Members(r)
      BY <2>5, <3>2 DEF Members
    <3>. QED BY <3>1, <3>2
  <2>. QED BY <2>2, <2>4, <2>7 DEF Once, r
<1>. QED BY <1>1, <1>2, Removed

\* It leaves them in order.
LEMMA RemovedInOrder ==
    ASSUME NEW E, NEW list \in Seq(E), NEW t \in E, NEW f \in [E -> Int],
           Descending(list, f)
    PROVE  Descending(_rt_timer_remove(list, t), f)
<1>. DEFINE r == _rt_timer_remove(list, t)
<1>1. CASE \E k \in 1..Len(list) : list[k] = t /\ Without(E, list, k, r)
  <2>1. PICK k \in 1..Len(list) : list[k] = t /\ Without(E, list, k, r)
    BY <1>1
  <2>. HIDE DEF r
  <2>2. k \in Int /\ Len(list) \in Nat /\ Len(r) = Len(list) - 1
    BY <2>1 DEF Without
  <2>3. ASSUME NEW i \in 1..Len(r)
        PROVE  \E m \in 1..Len(list) : r[i] = list[m] /\ m = IF i < k THEN i ELSE i + 1
    <3>1. i \in Int /\ i \in 1..Len(list) /\ i + 1 \in 1..Len(list)
      BY <2>2
    <3>2. \/ i < k /\ r[i] = list[i]
          \/ i >= k /\ r[i] = list[i + 1]
      BY <2>1 DEF Without
    <3>. QED BY <2>2, <3>1, <3>2
  <2>4. ASSUME NEW i \in 1..Len(r), NEW j \in 1..Len(r), i < j PROVE f[r[i]] >= f[r[j]]
    <3>1. PICK m \in 1..Len(list) : r[i] = list[m] /\ m = IF i < k THEN i ELSE i + 1
      BY <2>3
    <3>2. PICK n \in 1..Len(list) : r[j] = list[n] /\ n = IF j < k THEN j ELSE j + 1
      BY <2>3
    <3>3. m < n
      BY <2>2, <2>4, <3>1, <3>2
    <3>. QED BY <3>1, <3>2, <3>3 DEF Descending
  <2>. QED BY <2>4 DEF Descending, r
<1>. QED BY <1>1, Removed

\* Putting an element in leaves the others, each once.
LEMMA WithMembers ==
    ASSUME NEW E, NEW list \in Seq(E), NEW t \in E, Once(list), t \notin Members(list),
           NEW k \in 1..Len(list)+1, NEW r, With(E, list, k, t, r)
    PROVE  r \in Seq(E) /\ Once(r) /\ Members(r) = Members(list) \cup {t}
<1>1. With(E, list, k, t, r)
  OBVIOUS
<1>2. k \in Int /\ Len(list) \in Nat /\ r \in Seq(E) /\ Len(r) = Len(list) + 1
  BY <1>1 DEF With
<1>3. ASSUME NEW i \in 1..Len(r)
      PROVE  \/ i < k /\ i \in 1..Len(list) /\ r[i] = list[i]
             \/ i = k /\ r[i] = t
             \/ i > k /\ i - 1 \in 1..Len(list) /\ r[i] = list[i - 1]
  BY <1>1 DEF With
<1>4. \A m \in 1..Len(list) : list[m] # t
  BY DEF Members
<1>5. ASSUME NEW i \in 1..Len(r), NEW j \in 1..Len(r), r[i] = r[j] PROVE i = j
  <2>1. i \in Int /\ j \in Int
    BY <1>2
  <2>2. /\ \/ i < k /\ i \in 1..Len(list) /\ r[i] = list[i]
           \/ i = k /\ r[i] = t
           \/ i > k /\ i - 1 \in 1..Len(list) /\ r[i] = list[i - 1]
        /\ \/ j < k /\ j \in 1..Len(list) /\ r[j] = list[j]
           \/ j = k /\ r[j] = t
           \/ j > k /\ j - 1 \in 1..Len(list) /\ r[j] = list[j - 1]
    BY <1>3
  <2>. QED BY <1>2, <1>4, <1>5, <2>1, <2>2 DEF Once
<1>6. ASSUME NEW i \in 1..Len(list) PROVE \E j \in 1..Len(r) : r[j] = list[i]
  <2>1. CASE i < k
    <3>1. i \in 1..Len(r)
      BY <1>2
    <3>. QED BY <1>1, <1>2, <2>1, <3>1 DEF With
  <2>2. CASE i >= k
    <3>. DEFINE j == i + 1
    <3>1. j \in 1..Len(r) /\ j > k /\ j - 1 = i
      BY <1>2, <2>2
    <3>. HIDE DEF j
    <3>2. r[j] = list[j - 1]
      BY <1>2, <1>3, <3>1
    <3>. QED BY <3>1, <3>2
  <2>. QED BY <1>2, <2>1, <2>2
<1>7. k \in 1..Len(r) /\ r[k] = t
  BY <1>1, <1>2 DEF With
<1>8. ASSUME NEW i \in 1..Len(r) PROVE r[i] \in Members(list) \cup {t}
  BY <1>3 DEF Members
<1>9. Members(r) = Members(list) \cup {t}
  BY <1>6, <1>7, <1>8 DEF Members
<1>. QED BY <1>2, <1>5, <1>9 DEF Once

LEMMA PutInMembers ==
    ASSUME NEW E, NEW list \in Seq(E), NEW timeout, NEW t \in E, Once(list), t \notin Members(list)
    PROVE  LET r == InsertTimer(list, timeout, t)
           IN  r \in Seq(E) /\ Once(r) /\ Members(r) = Members(list) \cup {t}
<1>. DEFINE r == InsertTimer(list, timeout, t)
<1>1. PICK k \in 1..Len(list)+1 : With(E, list, k, t, r)
  BY PutIn
<1>. HIDE DEF r
<1>2. r \in Seq(E) /\ Once(r) /\ Members(r) = Members(list) \cup {t}
  BY <1>1, WithMembers
<1>. QED BY <1>2 DEF r

\* And the list in order, if the search loop compares as f does.
LEMMA PutInOrder ==
    ASSUME NEW E, NEW list \in Seq(E), NEW timeout, NEW t \in E, NEW f \in [E -> Int],
           Descending(list, f),
           \A u \in Members(list) : StopsSearch(timeout[u], timeout[t]) <=> f[u] < f[t]
    PROVE  Descending(InsertTimer(list, timeout, t), f)
<1>. DEFINE r == InsertTimer(list, timeout, t)
<1>1. PICK k \in 1..Len(list)+1 :
        /\ With(E, list, k, t, r)
        /\ \A i \in 1..k-1 : ~StopsSearch(timeout[list[i]], timeout[t])
        /\ k <= Len(list) => StopsSearch(timeout[list[k]], timeout[t])
  BY PutIn
<1>. HIDE DEF r
<1>2. k \in Int /\ Len(list) \in Nat /\ r \in Seq(E) /\ Len(r) = Len(list) + 1
  BY <1>1 DEF With
<1>3. ASSUME NEW m \in 1..k-1 PROVE f[list[m]] >= f[t]
  <2>1. m \in 1..Len(list) /\ list[m] \in E
    BY <1>2
  <2>2. list[m] \in Members(list)
    BY <2>1 DEF Members
  <2>3. ~(f[list[m]] < f[t])
    BY <1>1, <2>2
  <2>. QED BY <2>1, <2>3
<1>4. ASSUME NEW m \in k..Len(list) PROVE f[t] >= f[list[m]]
  <2>1. m \in 1..Len(list) /\ k \in 1..Len(list) /\ list[m] \in E /\ list[k] \in E
    BY <1>2
  <2>2. list[k] \in Members(list) /\ (k = m \/ k < m) /\ k <= Len(list)
    BY <1>2, <2>1 DEF Members
  <2>3. f[list[k]] < f[t]
    BY <1>1, <2>2
  <2>4. f[list[k]] >= f[list[m]]
    BY <2>1, <2>2 DEF Descending
  <2>. QED BY <2>1, <2>3, <2>4
<1>5. ASSUME NEW i \in 1..Len(r), NEW j \in 1..Len(r), i < j PROVE f[r[i]] >= f[r[j]]
  <2>1. i \in Int /\ j \in Int
    BY <1>2
  <2>2. /\ \/ i < k /\ i \in 1..Len(list) /\ r[i] = list[i]
           \/ i = k /\ r[i] = t
           \/ i > k /\ i - 1 \in 1..Len(list) /\ r[i] = list[i - 1]
        /\ \/ j < k /\ j \in 1..Len(list) /\ r[j] = list[j]
           \/ j = k /\ r[j] = t
           \/ j > k /\ j - 1 \in 1..Len(list) /\ r[j] = list[j - 1]
    BY <1>1 DEF With
  <2>. USE <1>2, <1>5, <2>1
  <2>3. CASE j < k
    <3>1. i \in 1..Len(list) /\ j \in 1..Len(list) /\ r[i] = list[i] /\ r[j] = list[j]
      BY <2>2, <2>3
    <3>. QED BY <3>1 DEF Descending
  <2>4. CASE j = k
    <3>1. i \in 1..k-1 /\ r[i] = list[i] /\ r[j] = t
      BY <2>2, <2>4
    <3>. QED BY <1>3, <3>1
  <2>5. CASE i = k
    <3>1. j - 1 \in k..Len(list) /\ r[j] = list[j - 1] /\ r[i] = t
      BY <2>2, <2>5
    <3>. QED BY <1>4, <3>1
  <2>6. CASE i < k /\ j > k
    <3>0. i \in 1..Len(list) /\ r[i] = list[i] /\ j - 1 \in 1..Len(list) /\ r[j] = list[j - 1]
      BY <2>2, <2>6
    <3>1. i \in 1..k-1
      BY <2>6, <3>0
    <3>5. j - 1 \in k..Len(list)
      BY <2>6, <3>0
    <3>2. f[r[i]] >= f[t] /\ f[t] >= f[r[j]]
      BY <1>3, <1>4, <3>0, <3>1, <3>5
    <3>3. r[i] \in E /\ r[j] \in E
      OBVIOUS
    <3>4. f[r[i]] \in Int /\ f[t] \in Int /\ f[r[j]] \in Int
      BY <3>3
    <3>. QED BY <3>2, <3>4
  <2>7. CASE i > k
    <3>1. /\ i - 1 \in 1..Len(list) /\ j - 1 \in 1..Len(list) /\ i - 1 < j - 1
          /\ r[i] = list[i - 1] /\ r[j] = list[j - 1]
      BY <2>2, <2>7
    <3>. QED BY <3>1 DEF Descending
  <2>. QED BY <2>2, <2>3, <2>4, <2>5, <2>6, <2>7
<1>. QED BY <1>5 DEF Descending, r

\* A list without duplicates is as long as the set of its members is large.
LEMMA OnceCounts ==
    ASSUME NEW E, NEW list \in Seq(E), Once(list)
    PROVE  Cardinality(Members(list)) = Len(list)
<1>. DEFINE n == Len(list)
<1>1. n \in Nat /\ list \in [1..n -> Members(list)]
  BY DEF Members
<1>2. list \in Bijection(1..n, Members(list))
  BY <1>1 DEF Bijection, Injection, Surjection, IsInjective, Once, Members
<1>3. ExistsBijection(1..n, Members(list))
  BY <1>2 DEF ExistsBijection
<1>. QED BY <1>1, <1>3, FS_CountingElements
=============================================================================
