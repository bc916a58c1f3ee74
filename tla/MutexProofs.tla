----------------------------- MODULE MutexProofs -----------------------------
(***************************************************************************)
(* Proofs about the mutex and about the threads that share the stopwatch,  *)
(* for any number of threads, any priorities, any depth of nesting and any *)
(* size of the lap table.                                                  *)
(***************************************************************************)
EXTENDS StopwatchThreads, SequenceTheorems, WellFoundedInduction, TLAPS

-----------------------------------------------------------------------------
(* The queue of waiters.                                                   *)

\* A set of naturals that is not empty has a least element.
LEMMA LeastElement ==
    ASSUME NEW T, T \subseteq Nat, T # {}
    PROVE  \E x \in T : \A y \in T : x <= y
<1>1. PICK x \in T : \A y \in T : ~(<<y, x>> \in OpToRel(<, Nat))
  BY NatLessThanWellFounded, WFMin, Zenon
<1>2. ASSUME NEW y \in T PROVE x <= y
  <2>1. ~(<<y, x>> \in OpToRel(<, Nat))
    BY <1>1, Zenon
  <2>2. ~(y < x)
    BY <2>1, Zenon DEF OpToRel
  <2>. QED BY <2>2
<1>. QED BY <1>2

\* rt_ipc_list_suspend finds a place: the one before the first waiter of lower
\* priority, or the end.
LEMMA PlaceExists ==
    ASSUME NEW s \in Seq(Threads), NEW t \in Threads, current_priority \in [Threads -> Nat]
    PROVE  /\ QueuePosition(s, t) \in 1..Len(s)+1
           /\ BehindAll(s, t, QueuePosition(s, t))
<1>. DEFINE T == {k \in 1..Len(s)+1 : k <= Len(s) => current_priority[t] < current_priority[s[k]]}
<1>1. T \subseteq Nat /\ Len(s) + 1 \in T
  OBVIOUS
<1>2. PICK k \in T : \A y \in T : k <= y
  BY <1>1, LeastElement
<1>3. ASSUME NEW i \in 1..k-1
      PROVE  current_priority[s[i]] <= current_priority[t]
  <2>1. i \in 1..Len(s) /\ i \notin T
    BY <1>2
  <2>2. s[i] \in Threads
    BY <2>1
  <2>. QED BY <2>1, <2>2
<1>4. k \in 1..Len(s)+1 /\ BehindAll(s, t, k)
  BY <1>2, <1>3 DEF BehindAll
<1>. HIDE DEF T
<1>. QED BY <1>4 DEF QueuePosition

\* q is s with t put in at k, behind nobody of lower priority than t.
Inserted(s, t, k, q) ==
    /\ q \in Seq(Threads)
    /\ Len(q) = Len(s) + 1
    /\ \A i \in 1..Len(q) : \/ i < k /\ i \in 1..Len(s) /\ q[i] = s[i]
                            \/ i = k /\ q[i] = t
                            \/ i > k /\ i - 1 \in 1..Len(s) /\ q[i] = s[i-1]
    /\ \A i \in 1..k-1 : current_priority[s[i]] <= current_priority[t]
    /\ k <= Len(s) => current_priority[t] < current_priority[s[k]]

\* The new queue has the new waiter at its place and the others as they were.
LEMMA Enqueued ==
    ASSUME NEW s \in Seq(Threads), NEW t \in Threads, current_priority \in [Threads -> Nat]
    PROVE  \E k \in 1..Len(s)+1 : Inserted(s, t, k, Enqueue(s, t))
<1>. DEFINE k == QueuePosition(s, t)
            q == Enqueue(s, t)
<1>1. k \in 1..Len(s)+1 /\ BehindAll(s, t, k)
  BY PlaceExists
<1>2. q = [i \in 1..Len(s)+1 |-> IF i < k THEN s[i] ELSE IF i = k THEN t ELSE s[i-1]]
  BY DEF Enqueue
<1>. HIDE DEF k, q
<1>3. \A i \in 1..Len(s)+1 : q[i] \in Threads
  BY <1>1, <1>2
<1>4. q \in Seq(Threads) /\ Len(q) = Len(s) + 1
  BY <1>2, <1>3
<1>5. Inserted(s, t, k, q)
  BY <1>1, <1>2, <1>4 DEF BehindAll, Inserted
<1>. QED BY <1>1, <1>5 DEF q

\* Whoever was queued still is, and t with them.
LEMMA InsertedMembers ==
    ASSUME NEW s \in Seq(Threads), NEW t \in Threads, NEW k \in 1..Len(s)+1, NEW q,
           Inserted(s, t, k, q)
    PROVE  /\ \A i \in 1..Len(q) : q[i] = t \/ \E j \in 1..Len(s) : q[i] = s[j]
           /\ \A i \in 1..Len(s) : \E j \in 1..Len(q) : q[j] = s[i]
           /\ \E j \in 1..Len(q) : q[j] = t
<1>1. ASSUME NEW i \in 1..Len(q) PROVE q[i] = t \/ \E j \in 1..Len(s) : q[i] = s[j]
  BY DEF Inserted
<1>2. ASSUME NEW i \in 1..Len(s) PROVE \E j \in 1..Len(q) : q[j] = s[i]
  <2>1. CASE i < k
    BY <2>1 DEF Inserted
  <2>2. CASE i >= k
    <3>. DEFINE j == i + 1
    <3>1. j \in 1..Len(q) /\ j > k /\ j - 1 = i
      BY <2>2 DEF Inserted
    <3>. HIDE DEF j
    <3>2. q[j] = s[j-1]
      BY <3>1 DEF Inserted
    <3>. QED BY <3>1, <3>2
  <2>. QED BY <2>1, <2>2
<1>3. k \in 1..Len(q) /\ q[k] = t
  BY DEF Inserted
<1>. QED BY <1>1, <1>2, <1>3

\* Nobody is queued twice.
LEMMA InsertedOnce ==
    ASSUME NEW s \in Seq(Threads), NEW t \in Threads, NEW k \in 1..Len(s)+1, NEW q,
           Inserted(s, t, k, q),
           \A m \in 1..Len(s) : s[m] # t,
           \A m, n \in 1..Len(s) : s[m] = s[n] => m = n,
           NEW i \in 1..Len(q), NEW j \in 1..Len(q), q[i] = q[j]
    PROVE  i = j
<1>1. i \in Int /\ j \in Int /\ k \in Int
  BY DEF Inserted
<1>2. /\ \/ i < k /\ i \in 1..Len(s) /\ q[i] = s[i]
         \/ i = k /\ q[i] = t
         \/ i > k /\ i - 1 \in 1..Len(s) /\ q[i] = s[i-1]
      /\ \/ j < k /\ j \in 1..Len(s) /\ q[j] = s[j]
         \/ j = k /\ q[j] = t
         \/ j > k /\ j - 1 \in 1..Len(s) /\ q[j] = s[j-1]
  BY DEF Inserted
<1>. QED BY <1>1, <1>2

\* The queue stays in the order of priorities.
LEMMA InsertedInOrder ==
    ASSUME NEW s \in Seq(Threads), NEW t \in Threads, NEW k \in 1..Len(s)+1, NEW q,
           Inserted(s, t, k, q), current_priority \in [Threads -> Nat],
           \A i, j \in 1..Len(s) : i < j => current_priority[s[i]] <= current_priority[s[j]],
           NEW i \in 1..Len(q), NEW j \in 1..Len(q), i < j
    PROVE  current_priority[q[i]] <= current_priority[q[j]]
<1>0. i \in Int /\ j \in Int /\ k \in Int /\ Len(s) \in Nat /\ k <= Len(s) + 1 /\ k >= 1
  BY DEF Inserted
<1>1. /\ \/ i < k /\ i \in 1..Len(s) /\ q[i] = s[i]
         \/ i = k /\ q[i] = t
         \/ i > k /\ i - 1 \in 1..Len(s) /\ q[i] = s[i-1]
      /\ \/ j < k /\ j \in 1..Len(s) /\ q[j] = s[j]
         \/ j = k /\ q[j] = t
         \/ j > k /\ j - 1 \in 1..Len(s) /\ q[j] = s[j-1]
  BY DEF Inserted
<1>. USE <1>0
<1>2. \A m \in 1..k-1 : current_priority[s[m]] <= current_priority[t]
  BY DEF Inserted
<1>3. ASSUME NEW m \in k..Len(s) PROVE current_priority[t] < current_priority[s[m]]
  <2>1. current_priority[t] < current_priority[s[k]]
    BY <1>1 DEF Inserted
  <2>2. k \in 1..Len(s) /\ m \in 1..Len(s) /\ (k < m \/ k = m)
    OBVIOUS
  <2>3. s[m] \in Threads /\ s[k] \in Threads
    BY <2>2
  <2>4. k = m \/ current_priority[s[k]] <= current_priority[s[m]]
    BY <2>2
  <2>. QED BY <2>1, <2>3, <2>4
<1>4. CASE j < k
  BY <1>1, <1>4
<1>5. CASE j = k
  <2>1. i \in 1..k-1 /\ q[i] = s[i] /\ q[j] = t
    BY <1>1, <1>5
  <2>. QED BY <1>2, <2>1
<1>6. CASE i = k
  <2>1. j - 1 \in k..Len(s) /\ q[j] = s[j-1] /\ q[i] = t /\ s[j-1] \in Threads
    BY <1>1, <1>6
  <2>2. current_priority[t] < current_priority[s[j-1]]
    BY <2>1, <1>3
  <2>. QED BY <2>1, <2>2
<1>7. CASE i < k /\ j > k
  <2>1. /\ i \in 1..k-1 /\ j - 1 \in k..Len(s) /\ q[i] = s[i] /\ q[j] = s[j-1]
        /\ s[i] \in Threads /\ s[j-1] \in Threads
    BY <1>1, <1>7
  <2>2. current_priority[s[i]] <= current_priority[t] /\ current_priority[t] < current_priority[s[j-1]]
    BY <2>1, <1>2, <1>3
  <2>. QED BY <2>1, <2>2
<1>8. CASE i > k
  <2>1. /\ i - 1 \in 1..Len(s) /\ j - 1 \in 1..Len(s) /\ i - 1 < j - 1
        /\ q[i] = s[i-1] /\ q[j] = s[j-1]
    BY <1>1, <1>8
  <2>. QED BY <2>1
<1>. QED BY <1>1, <1>4, <1>5, <1>6, <1>7, <1>8

-----------------------------------------------------------------------------
(* The mutex: MutexSound is inductive as it stands.                        *)

\* A mutex nobody holds, with every thread asleep, is sound.
LEMMA MutexInit == Init => MutexSound
<1>. SUFFICES ASSUME Init PROVE MutexSound
  OBVIOUS
<1>. USE MutexConstants DEF Init
<1>1. TypeOK
  BY DEF TypeOK, Stats
<1>2. Consistent
  BY DEF Consistent, Waiters
<1>3. Restored
  BY DEF Restored
<1>4. Inherited
  BY DEF Inherited, Waiters
<1>. QED BY <1>1, <1>2, <1>3, <1>4 DEF MutexSound

\* rt_mutex_take by the owner.
LEMMA TakeAgainSound ==
    ASSUME MutexSound, NEW t \in Threads, TakeAgain(t)
    PROVE  MutexSound'
<1>. USE MutexConstants DEF TakeAgain, MutexSound
<1>1. TypeOK'
  BY DEF TypeOK
<1>2. Waiters' = Waiters
  BY DEF Waiters
<1>3. Consistent'
  BY <1>2 DEF Consistent, TypeOK
<1>4. Restored' /\ Inherited'
  BY <1>2 DEF Restored, Inherited
<1>. QED BY <1>1, <1>3, <1>4

\* rt_mutex_take of a free mutex.
LEMMA TakeFreeSound ==
    ASSUME MutexSound, NEW t \in Threads, TakeFree(t)
    PROVE  MutexSound'
<1>. USE MutexConstants DEF TakeFree
<1>1. /\ TypeOK /\ Consistent /\ Restored /\ Inherited
  BY DEF MutexSound
<1>2. /\ value = 1 /\ owner = NoThread /\ hold = 0 /\ suspend_thread = <<>>
  BY <1>1 DEF TypeOK, Consistent
<1>3. TypeOK'
  BY <1>1, <1>2 DEF TypeOK
<1>4. Waiters' = Waiters
  BY DEF Waiters
<1>5. Consistent'
  BY <1>1, <1>2, <1>4 DEF Consistent, Running
<1>6. Restored'
  BY <1>1, <1>2 DEF Restored, TypeOK
<1>7. Inherited'
  BY <1>2 DEF Inherited, Waiters
<1>. QED BY <1>3, <1>5, <1>6, <1>7 DEF MutexSound

\* rt_mutex_release of an inner hold.
LEMMA ReleaseInnerSound ==
    ASSUME MutexSound, NEW t \in Threads, ReleaseInner(t)
    PROVE  MutexSound'
<1>. USE MutexConstants DEF ReleaseInner, MutexSound
<1>1. TypeOK'
  BY DEF TypeOK
<1>2. Waiters' = Waiters
  BY DEF Waiters
<1>3. Consistent'
  BY <1>2 DEF Consistent, TypeOK
<1>4. Restored' /\ Inherited'
  BY <1>2 DEF Restored, Inherited
<1>. QED BY <1>1, <1>3, <1>4

\* rt_mutex_release of the last hold, nobody waiting.
LEMMA ReleaseFreeSound ==
    ASSUME MutexSound, NEW t \in Threads, ReleaseFree(t)
    PROVE  MutexSound'
<1>. USE MutexConstants DEF ReleaseFree
<1>1. /\ TypeOK /\ Consistent /\ Restored /\ Inherited
  BY DEF MutexSound
<1>2. owner \in Threads /\ value = 0 /\ original_priority = init_priority[t]
  BY <1>1 DEF TypeOK, Consistent, Restored
<1>3. TypeOK'
  BY <1>1, <1>2 DEF TypeOK
<1>4. Waiters' = Waiters
  BY DEF Waiters
<1>5. Consistent'
  BY <1>1, <1>2, <1>4 DEF Consistent
<1>6. Restored'
  BY <1>1, <1>2 DEF Restored, TypeOK
<1>7. Inherited'
  BY DEF Inherited, Waiters
<1>. QED BY <1>3, <1>5, <1>6, <1>7 DEF MutexSound

\* rt_thread_sleep.
LEMMA SleepSound ==
    ASSUME MutexSound, NEW t \in Threads, rt_thread_sleep(t)
    PROVE  MutexSound'
<1>. USE MutexConstants DEF rt_thread_sleep, mutexvars, MutexSound
<1>1. TypeOK'
  BY DEF TypeOK, Stats
<1>2. Waiters' = Waiters
  BY DEF Waiters
<1>3. {u \in Threads : stat'[u] = "waiting"} = {u \in Threads : stat[u] = "waiting"}
  BY DEF TypeOK, Running
<1>4. Consistent'
  BY <1>2, <1>3 DEF Consistent, TypeOK
<1>5. Restored' /\ Inherited'
  BY <1>2 DEF Restored, Inherited
<1>. QED BY <1>1, <1>4, <1>5

\* The tick interrupt.
LEMMA TickSound ==
    ASSUME MutexSound, NEW due \in SUBSET Threads, rt_timer_check(due)
    PROVE  MutexSound'
<1>. USE MutexConstants DEF rt_timer_check, mutexvars, MutexSound
<1>1. TypeOK'
  BY DEF TypeOK, Stats
<1>2. Waiters' = Waiters
  BY DEF Waiters
<1>3. {u \in Threads : stat'[u] = "waiting"} = {u \in Threads : stat[u] = "waiting"}
  BY DEF TypeOK
<1>4. Consistent'
  BY <1>2, <1>3 DEF Consistent, TypeOK
<1>5. Restored' /\ Inherited'
  BY <1>2 DEF Restored, Inherited
<1>. QED BY <1>1, <1>4, <1>5

\* rt_mutex_take of a held mutex: the caller runs, so it is no less urgent than
\* the owner and, through the owner, than anybody in the queue.
LEMMA TakeHeldSound ==
    ASSUME MutexSound, NEW t \in Threads, TakeHeld(t)
    PROVE  MutexSound'
<1>. DEFINE s == suspend_thread
            q == suspend_thread'
<1>. USE MutexConstants
<1>1. /\ TypeOK /\ Consistent /\ Restored /\ Inherited
  BY DEF MutexSound
<1>2. /\ s \in Seq(Threads) /\ current_priority \in [Threads -> Nat]
      /\ owner \in Threads /\ owner # t /\ stat[t] = "ready" /\ stat[owner] = "ready"
      /\ stat \in [Threads -> Stats]
  BY <1>1 DEF TypeOK, Consistent, TakeHeld, Running
<1>3. PICK k \in 1..Len(s)+1 : Inserted(s, t, k, q)
  BY <1>2, Enqueued DEF TakeHeld
<1>4. /\ stat' = [stat EXCEPT ![t] = "waiting"]
      /\ UNCHANGED <<value, owner, hold, original_priority>>
      /\ current_priority' = Boosted(t)
      /\ ops' = [ops EXCEPT ![t] = @ + 1] /\ ops[t] < MaxOps
  BY DEF TakeHeld
<1>5. /\ current_priority' \in [Threads -> Nat]
      /\ \A u \in Threads : u # owner => current_priority'[u] = current_priority[u]
      /\ current_priority'[owner] <= current_priority[owner]
      /\ current_priority'[owner] <= current_priority[t]
  BY <1>2, <1>4 DEF Boosted
<1>6. TypeOK'
  <2>1. stat' \in [Threads -> Stats]
    BY <1>2, <1>4 DEF Stats
  <2>2. ops' \in [Threads -> 0..MaxOps]
    BY <1>1, <1>4 DEF TypeOK
  <2>3. q \in Seq(Threads)
    BY <1>3 DEF Inserted
  <2>. QED BY <2>1, <2>2, <2>3, <1>1, <1>4, <1>5 DEF TypeOK
<1>7. \A i \in 1..Len(s) : s[i] \in Threads /\ s[i] # t /\ s[i] # owner
  BY <1>1, <1>2 DEF Consistent, Waiters
<1>8. Waiters' = Waiters \cup {t}
  <2>1. /\ \A i \in 1..Len(q) : q[i] = t \/ \E j \in 1..Len(s) : q[i] = s[j]
        /\ \A i \in 1..Len(s) : \E j \in 1..Len(q) : q[j] = s[i]
        /\ \E j \in 1..Len(q) : q[j] = t
    <3>. HIDE DEF s, q
    <3>1. s \in Seq(Threads) /\ k \in 1..Len(s)+1 /\ Inserted(s, t, k, q)
      BY <1>2, <1>3
    <3>2. \A i \in 1..Len(q) : q[i] = t \/ \E j \in 1..Len(s) : q[i] = s[j]
      BY <3>1, InsertedMembers
    <3>3. \A i \in 1..Len(s) : \E j \in 1..Len(q) : q[j] = s[i]
      BY <3>1, InsertedMembers
    <3>4. \E j \in 1..Len(q) : q[j] = t
      BY <3>1, InsertedMembers
    <3>. QED BY <3>2, <3>3, <3>4
  <2>2. Waiters' = {q[i] : i \in 1..Len(q)} /\ Waiters = {s[i] : i \in 1..Len(s)}
    BY DEF Waiters
  <2>3. \A x \in Waiters' : x \in Waiters \cup {t}
    BY <2>1, <2>2
  <2>4. \A x \in Waiters \cup {t} : x \in Waiters'
    BY <2>1, <2>2
  <2>. QED BY <2>3, <2>4
<1>9. Consistent'
  <2>1. Waiters' = {u \in Threads : stat'[u] = "waiting"}
    BY <1>1, <1>2, <1>4, <1>8 DEF Consistent
  <2>2. ASSUME NEW i \in 1..Len(q), NEW j \in 1..Len(q), q[i] = q[j] PROVE i = j
    <3>1. \A m, n \in 1..Len(s) : s[m] = s[n] => m = n
      BY <1>1 DEF Consistent
    <3>2. \A m \in 1..Len(s) : s[m] # t
      BY <1>7
    <3>. HIDE DEF s, q
    <3>3. s \in Seq(Threads) /\ Inserted(s, t, k, q)
      BY <1>2, <1>3
    <3>. QED BY <2>2, <3>1, <3>2, <3>3, InsertedOnce, Zenon
  <2>3. /\ (owner = NoThread) <=> (value = 1)
        /\ (owner = NoThread) <=> (hold = 0)
    BY <1>1 DEF Consistent
  <2>. QED BY <2>1, <2>2, <2>3, <1>2, <1>4 DEF Consistent
<1>10. Restored'
  <2>1. \A u \in Threads : u # owner => current_priority'[u] = init_priority[u]
    BY <1>1, <1>5 DEF Restored
  <2>2. original_priority = init_priority[owner] /\ current_priority[owner] <= init_priority[owner]
    BY <1>1, <1>2 DEF Restored
  <2>3. current_priority'[owner] <= init_priority[owner]
    BY <2>2, <1>2, <1>5
  <2>. QED BY <2>1, <2>2, <2>3, <1>4 DEF Restored
<1>11. Inherited'
  <2>1. ASSUME NEW i \in 1..Len(q), NEW j \in 1..Len(q), i < j
        PROVE  current_priority[q[i]] <= current_priority[q[j]]
    <3>1. \A m, n \in 1..Len(s) : m < n => current_priority[s[m]] <= current_priority[s[n]]
      BY <1>1 DEF Inherited
    <3>. HIDE DEF s, q
    <3>. QED BY <3>1, <2>1, <1>2, <1>3, InsertedInOrder
  <2>2. \A i \in 1..Len(q) : q[i] \in Waiters'
    BY DEF Waiters
  <2>3. \A w \in Waiters' : /\ w \in Threads /\ w # owner
                            /\ current_priority'[owner] <= current_priority[w]
    <3>1. \A w \in Waiters : w \in Threads /\ w # owner /\ current_priority[owner] <= current_priority[w]
      BY <1>1, <1>7 DEF Inherited, Waiters
    <3>. QED BY <3>1, <1>2, <1>5, <1>8
  <2>4. \A w \in Waiters' : current_priority'[w] = current_priority[w]
    BY <2>3, <1>5
  <2>. QED BY <2>1, <2>2, <2>3, <2>4, <1>4 DEF Inherited
<1>. QED BY <1>6, <1>9, <1>10, <1>11 DEF MutexSound

\* rt_mutex_release of the last hold: the first waiter, the most urgent one, takes
\* over at the priority it was created with, which is enough for the others.
LEMMA HandOverSound ==
    ASSUME MutexSound, NEW t \in Threads, ReleaseHandOver(t)
    PROVE  MutexSound'
<1>. DEFINE s == suspend_thread
            next == Head(suspend_thread)
<1>. USE MutexConstants
<1>1. /\ TypeOK /\ Consistent /\ Restored /\ Inherited
  BY DEF MutexSound
<1>2. /\ s \in Seq(Threads) /\ s # <<>> /\ owner = t /\ stat[t] = "ready"
      /\ stat \in [Threads -> Stats] /\ current_priority \in [Threads -> Nat]
      /\ original_priority = init_priority[t] /\ init_priority \in [Threads -> Nat]
      /\ value = 0
  BY <1>1 DEF TypeOK, Consistent, Restored, ReleaseHandOver, Running
<1>3. /\ next = s[1] /\ next \in Threads /\ Len(s) \in Nat \ {0}
      /\ Tail(s) \in Seq(Threads) /\ Len(Tail(s)) = Len(s) - 1
      /\ \A i \in 1..Len(s)-1 : Tail(s)[i] = s[i+1]
  BY <1>2
<1>4. \A i \in 1..Len(s) : s[i] \in Threads /\ s[i] # t /\ stat[s[i]] = "waiting"
  BY <1>1, <1>2 DEF Consistent, Waiters
<1>5. next # t /\ stat[next] = "waiting" /\ current_priority[next] = init_priority[next]
  BY <1>1, <1>2, <1>3, <1>4 DEF Restored
<1>6. /\ current_priority' = [current_priority EXCEPT ![t] = original_priority]
      /\ owner' = next /\ original_priority' = current_priority[next]
      /\ stat' = [stat EXCEPT ![next] = "ready"]
      /\ hold' = 1 /\ suspend_thread' = Tail(s) /\ UNCHANGED <<value, ops>>
  BY DEF ReleaseHandOver
<1>7. TypeOK'
  BY <1>1, <1>2, <1>3, <1>6 DEF TypeOK, Stats
<1>8. Waiters' = Waiters \ {next}
  <2>1. Waiters' = {Tail(s)[i] : i \in 1..Len(s)-1}
    BY <1>3, <1>6 DEF Waiters
  <2>2. ASSUME NEW i \in 1..Len(s)-1 PROVE Tail(s)[i] \in Waiters \ {next}
    <3>1. Tail(s)[i] = s[i+1] /\ i + 1 \in 1..Len(s) /\ i + 1 # 1
      BY <1>3
    <3>2. s[i+1] # s[1]
      BY <3>1, <1>1, <1>3 DEF Consistent
    <3>. QED BY <3>1, <3>2, <1>3 DEF Waiters
  <2>3. ASSUME NEW w \in Waiters \ {next} PROVE \E i \in 1..Len(s)-1 : Tail(s)[i] = w
    <3>1. PICK j \in 1..Len(s) : s[j] = w
      BY DEF Waiters
    <3>2. j - 1 \in 1..Len(s)-1 /\ (j - 1) + 1 = j
      BY <3>1, <1>3
    <3>. QED BY <3>1, <3>2, <1>3
  <2>. QED BY <2>1, <2>2, <2>3
<1>9. Consistent'
  <2>1. Waiters' = {u \in Threads : stat'[u] = "waiting"}
    BY <1>1, <1>2, <1>3, <1>6, <1>8 DEF Consistent
  <2>2. \A i, j \in 1..Len(Tail(s)) : Tail(s)[i] = Tail(s)[j] => i = j
    BY <1>1, <1>3 DEF Consistent
  <2>. QED BY <2>1, <2>2, <1>2, <1>3, <1>6 DEF Consistent
<1>10. Restored'
  BY <1>1, <1>2, <1>3, <1>5, <1>6 DEF Restored
<1>11. Inherited'
  <2>1. \A i \in 1..Len(s) : current_priority'[s[i]] = current_priority[s[i]]
    BY <1>2, <1>4, <1>6
  <2>2. \A i, j \in 1..Len(s) : i < j => current_priority'[s[i]] <= current_priority'[s[j]]
    BY <2>1, <1>1 DEF Inherited
  <2>3. \A i, j \in 1..Len(Tail(s)) :
           i < j => current_priority'[Tail(s)[i]] <= current_priority'[Tail(s)[j]]
    BY <2>2, <1>3
  <2>4. \A i \in 1..Len(Tail(s)) : current_priority'[next] <= current_priority'[Tail(s)[i]]
    BY <2>2, <1>3
  <2>. QED BY <2>3, <2>4, <1>6 DEF Inherited, Waiters
<1>. QED BY <1>7, <1>9, <1>10, <1>11 DEF MutexSound

\* Every kernel call keeps the mutex sound.
LEMMA MutexStep == MutexSound /\ [Next]_vars => MutexSound'
<1>. SUFFICES ASSUME MutexSound, [Next]_vars PROVE MutexSound'
  OBVIOUS
<1>1. CASE UNCHANGED vars
  BY <1>1 DEF vars, mutexvars, MutexSound, TypeOK, Consistent, Restored, Inherited, Waiters
<1>2. ASSUME NEW t \in Threads, rt_mutex_take(t) PROVE MutexSound'
  BY <1>2, TakeAgainSound, TakeFreeSound, TakeHeldSound DEF rt_mutex_take
<1>3. ASSUME NEW t \in Threads, rt_mutex_release(t) PROVE MutexSound'
  BY <1>3, ReleaseInnerSound, ReleaseFreeSound, HandOverSound DEF rt_mutex_release
<1>4. ASSUME NEW t \in Threads, rt_thread_sleep(t) PROVE MutexSound'
  BY <1>4, SleepSound
<1>5. ASSUME NEW due \in SUBSET Threads, rt_timer_check(due) PROVE MutexSound'
  BY <1>5, TickSound
<1>. QED BY <1>1, <1>2, <1>3, <1>4, <1>5 DEF Next

\* The mutex of ipc.c is sound for any threads, priorities and depth of nesting: its
\* fields agree, waiters queue by priority, and a boost neither falls short nor
\* outlasts the ownership.
THEOREM MutexCorrect == Spec => []MutexSound
  BY MutexInit, MutexStep, PTL DEF Spec

\* A thread that runs is no less urgent than the owner, who is no less urgent than
\* any waiter.
LEMMA InversionBounded == MutexSound => BoundedInversion
<1>. SUFFICES ASSUME MutexSound, NEW w \in Waiters, NEW t \in Threads, Running(t),
                     init_priority[t] > init_priority[w], t # owner
              PROVE  FALSE
  BY DEF BoundedInversion
<1>. USE MutexConstants
<1>1. w \in Threads /\ stat[w] = "waiting" /\ owner # NoThread /\ owner \in Threads
  <2>1. w \in Threads
    BY DEF MutexSound, TypeOK, Waiters
  <2>2. stat[w] = "waiting"
    BY <2>1 DEF MutexSound, Consistent
  <2>3. owner # NoThread
    BY DEF MutexSound, Consistent, Waiters
  <2>. QED BY <2>1, <2>2, <2>3 DEF MutexSound, TypeOK
<1>2. w # owner /\ stat[owner] = "ready"
  BY <1>1 DEF MutexSound, Consistent
<1>3. current_priority[w] = init_priority[w] /\ current_priority[t] = init_priority[t]
  BY <1>1, <1>2 DEF MutexSound, Restored
<1>4. /\ current_priority[owner] <= current_priority[w]
      /\ current_priority[t] <= current_priority[owner]
      /\ current_priority[owner] \in Nat
  BY <1>1, <1>2 DEF MutexSound, Inherited, Running, TypeOK
<1>. QED BY <1>1, <1>3, <1>4

-----------------------------------------------------------------------------
(* The threads that share the stopwatch.                                   *)

\* Whoever is inside the service and not suspended owns the lock.
Exclusive == \A t \in Threads : phase[t] # "call" /\ stat[t] # "waiting" => owner = t

\* What thread t may have left to call.
Remaining(t) ==
    CASE t = "timer" -> {csv_timer_cb, <<"get_lap_count", "get_latest_lap">>,
                         <<"get_latest_lap">>, <<>>}
      [] t = "shell" -> {<<m>> : m \in Mutators}
                        \cup {sw_status, <<"get_total", "get_lap_count", "get_lap">>,
                              <<"get_lap_count", "get_lap">>, <<"get_lap">>, <<>>}
      [] t = "ui"    -> {draw_main_page, <<"get_lap_count", "get_latest_lap">>,
                         <<"get_latest_lap">>, draw_laps_page, <<"get_lap">>, <<>>}
      [] OTHER       -> {indicator_led_entry, <<>>}

Calling(t, c) == todo[t] # <<>> /\ Head(todo[t]) = c
Millis == 0..MaxMs
Results == [state : {"IDLE", "RUNNING", "PAUSED"}, total : Millis,
            n : 0..MAX_LAPS, laps : Seq(Millis)]

\* Where t is agrees with what it has still to call and with what it has read.
InStep(t) ==
    /\ todo[t] \in Remaining(t)
    /\ phase[t] \in {"call", "in", "mid", "out"}
    /\ res[t] \in Results
    /\ stat[t] = "sleeping" => todo[t] = <<>> /\ res[t] = NoResult
    /\ stat[t] = "waiting" => phase[t] = "in"
    /\ phase[t] # "call" => todo[t] # <<>>
    /\ phase[t] = "mid" => Head(todo[t]) \in Mutators
    /\ Len(res[t].laps) <= res[t].n
    /\ \A c \in Mutators \cup {"get_state", "get_total"} : Calling(t, c) => res[t].n = 0
    /\ Calling(t, "get_lap_count") => res[t].laps = <<>> /\ (phase[t] # "out" => res[t].n = 0)
    /\ Calling(t, "get_lap") => IF phase[t] = "out" THEN res[t].n > 0
                                                    ELSE Len(res[t].laps) < res[t].n
    /\ Calling(t, "get_latest_lap") => /\ res[t].n > 0
                                       /\ phase[t] # "out" => res[t].laps = <<>>

\* The shell is in the second half of a mutator, or past it.
Writing(ph) ==
    /\ "shell" \in Threads /\ todo["shell"] # <<>>
    /\ Head(todo["shell"]) \in Mutators
    /\ phase["shell"] = ph
Op == Head(todo["shell"])
Retained == SubSeq(lap_ms, 1, lap_count)

\* A total x that may be shown after what has been shown.
Showable(x) == done.seen <= x /\ (done.mode # "RUNNING" => x = done.seen)

\* x is what the total was, and still is unless the watch runs.
Current(x) == x <= now_ms /\ (sw_state # "RUNNING" => x = now_ms)

\* The fields of g_sw, against the calls that have returned.
FieldsOK ==
    /\ sw_state \in {"IDLE", "RUNNING", "PAUSED"}
    /\ now_ms \in Millis /\ last_lap \in Millis /\ total_tmp \in Millis
    /\ lap_ms \in [Slots -> Millis] /\ lap_count \in 0..MAX_LAPS
    /\ last_lap <= now_ms
    /\ done \in [mode : {"IDLE", "RUNNING", "PAUSED"}, mark : Millis,
                 laps : Seq(Millis), seen : Millis]

\* Nobody is writing: the fields are what the calls add up to.
Settled ==
    ~Writing("mid") /\ ~Writing("out") =>
        /\ done.mode = sw_state /\ done.mark = last_lap /\ done.laps = Retained
        /\ Showable(now_ms)

\* Between the two halves of a mutator.
HalfWritten ==
    Writing("mid") =>
        /\ done.mode = sw_state
        /\ Current(total_tmp) /\ Showable(total_tmp) /\ last_lap <= total_tmp
        /\ Op \in {"start", "stop"} => last_lap = done.mark /\ Retained = done.laps
        /\ Op = "lap" => /\ last_lap = done.mark
                         /\ Retained = Ideal!Latest(Append(done.laps, total_tmp - done.mark))
        /\ Op = "reset" => last_lap = 0 /\ lap_count = 0
        /\ Op = "clear_laps" => lap_count = 0

\* After them, before the lock is released.
Written ==
    Writing("out") =>
        /\ Op = "start" => /\ sw_state = "RUNNING" /\ last_lap = done.mark
                           /\ Retained = done.laps /\ done.seen <= now_ms
        /\ Op = "stop" => /\ sw_state = IF done.mode = "RUNNING" THEN "PAUSED" ELSE done.mode
                          /\ last_lap = done.mark /\ Retained = done.laps
                          /\ total_tmp = now_ms /\ Showable(total_tmp)
        /\ Op = "reset" => /\ sw_state = IF done.mode = "RUNNING" THEN "RUNNING" ELSE "IDLE"
                           /\ last_lap = 0 /\ lap_count = 0 /\ total_tmp = 0 /\ Current(0)
        /\ Op = "lap" => /\ sw_state = done.mode /\ last_lap = total_tmp
                         /\ Retained = Ideal!Latest(Append(done.laps, total_tmp - done.mark))
                         /\ Current(total_tmp) /\ Showable(total_tmp)
        /\ Op = "clear_laps" => /\ sw_state = done.mode /\ last_lap = total_tmp
                                /\ lap_count = 0
                                /\ Current(total_tmp) /\ Showable(total_tmp)

\* A total that has been read and not yet returned.
TotalRead ==
    \A t \in Threads : Calling(t, "get_total") /\ phase[t] = "out" =>
        Current(res[t].total) /\ Showable(res[t].total)

\* What the shell has read of the lap table is the lap table.
StatusInv ==
    "shell" \in Threads /\ res["shell"].n > 0 =>
        /\ res["shell"].n = lap_count
        /\ res["shell"].laps = SubSeq(lap_ms, 1, Len(res["shell"].laps))
        /\ todo["shell"] = <<>> => Len(res["shell"].laps) = lap_count

\* The timer thread has read the lap count and not printed the row.
CountRead ==
    /\ res["timer"].n > 0
    /\ \/ Calling("timer", "get_lap_count") /\ phase["timer"] = "out"
       \/ Calling("timer", "get_latest_lap")
       \/ todo["timer"] = <<>>

LatestRead ==
    \/ Calling("timer", "get_latest_lap") /\ phase["timer"] = "out"
    \/ todo["timer"] = <<>>

\* Once the timer thread has got its first answer the shell, if it was waiting, has
\* been served; from the second answer to the printing of the row it cannot be.
RowInv ==
    "timer" \in Threads =>
        /\ "shell" \in Threads /\ (Calling("timer", "get_lap_count") \/ CountRead)
             => stat["shell"] # "waiting"
        /\ "shell" \in Threads /\ CountRead => owner # "shell"
        /\ CountRead => /\ res["timer"].n = lap_count
                        /\ LatestRead => res["timer"].laps = <<lap_ms[lap_count]>>

-----------------------------------------------------------------------------
(* Mutual exclusion.                                                       *)

\* Every step of the threads is a step of the mutex, or leaves it alone.
LEMMA ThreadsStepMutex == ThreadsNext => [Next]_vars
<1>. SUFFICES ASSUME ThreadsNext PROVE [Next]_vars
  OBVIOUS
<1>1. ASSUME NEW t \in Threads, Activate(t) PROVE Next
  BY <1>1, {t} \in SUBSET Threads DEF Activate, Next
<1>2. ASSUME NEW t \in Threads, Enter(t) PROVE Next
  BY <1>2 DEF Enter, Next, rt_mutex_take
<1>3. ASSUME NEW t \in Threads, Return(t) PROVE Next
  BY <1>3 DEF Return, Next, rt_mutex_release
<1>4. ASSUME NEW t \in Threads, Sleep(t) PROVE Next
  BY <1>4 DEF Sleep, Next
<1>5. ASSUME NEW t \in Threads, Query(t) \/ BeginWrite(t) \/ EndWrite(t) PROVE UNCHANGED vars
  BY <1>5 DEF Query, BeginWrite, EndWrite
<1>6. Elapse => UNCHANGED vars
  BY DEF Elapse
<1>. QED BY <1>1, <1>2, <1>3, <1>4, <1>5, <1>6 DEF ThreadsNext, ThreadStep

\* The firmware's threads use the mutex as ipc.c has it.
THEOREM ThreadsUseMutex == ThreadsSpec => Spec
<1>1. ThreadsInit => Init
  BY DEF ThreadsInit
<1>2. [ThreadsNext]_tvars => [Next]_vars
  <2>1. UNCHANGED tvars => UNCHANGED vars
    BY DEF tvars
  <2>. QED BY <2>1, ThreadsStepMutex
<1>. QED BY <1>1, <1>2, PTL DEF Spec, ThreadsSpec

\* Priority inversion is bounded by one critical section, for any number of threads
\* and any priorities: while a thread waits for swlock nobody of lower priority
\* runs except the owner.
THEOREM InversionCorrect == ThreadsSpec => []BoundedInversion
  BY ThreadsUseMutex, MutexCorrect, InversionBounded, PTL

\* What taking the lock does to owner and threads.
LEMMA TakeEffect ==
    ASSUME MutexSound, NEW t \in Threads, TakeFree(t) \/ TakeHeld(t)
    PROVE  /\ stat[t] = "ready" /\ owner # t
           /\ \/ owner = NoThread /\ owner' = t /\ stat' = stat
              \/ /\ owner \in Threads /\ owner' = owner
                 /\ stat' = [stat EXCEPT ![t] = "waiting"]
<1>1. CASE TakeFree(t)
  <2>1. owner = NoThread
    BY <1>1 DEF TakeFree, MutexSound, Consistent, TypeOK
  <2>. QED BY <1>1, <2>1 DEF TakeFree, Running
<1>2. CASE TakeHeld(t)
  <2>1. owner \in Threads
    BY <1>2 DEF TakeHeld, MutexSound, Consistent, TypeOK
  <2>. QED BY <1>2, <2>1 DEF TakeHeld, Running
<1>. QED BY <1>1, <1>2

\* What releasing it does.
LEMMA ReleaseEffect ==
    ASSUME MutexSound, NEW t \in Threads, ReleaseFree(t) \/ ReleaseHandOver(t)
    PROVE  /\ stat[t] = "ready" /\ owner = t
           /\ \/ owner' = NoThread /\ stat' = stat /\ suspend_thread = <<>>
              \/ \E h \in Threads : /\ stat[h] = "waiting" /\ h = suspend_thread[1]
                                    /\ suspend_thread # <<>> /\ owner' = h
                                    /\ stat' = [stat EXCEPT ![h] = "ready"]
<1>1. CASE ReleaseFree(t)
  BY <1>1 DEF ReleaseFree, Running
<1>2. CASE ReleaseHandOver(t)
  <2>. DEFINE h == suspend_thread[1]
  <2>1. suspend_thread \in Seq(Threads) /\ suspend_thread # <<>>
    BY <1>2 DEF ReleaseHandOver, MutexSound, TypeOK
  <2>2. Head(suspend_thread) = h /\ h \in Threads /\ h \in Waiters
    BY <2>1 DEF Waiters
  <2>3. stat[h] = "waiting"
    BY <2>2 DEF MutexSound, Consistent
  <2>. QED BY <1>2, <2>1, <2>2, <2>3 DEF ReleaseHandOver, Running
<1>. QED BY <1>1, <1>2

\* At most one thread is inside the service: a thread comes in when it gets the
\* lock, or when the lock is handed to it, and leaves as it gives the lock up.
LEMMA ExclusiveStep ==
    ASSUME MutexSound, Exclusive, phase \in [Threads -> {"call", "in", "mid", "out"}],
           [ThreadsNext]_tvars
    PROVE  Exclusive'
<1>. USE MutexConstants DEF Exclusive
<1>0. stat \in [Threads -> Stats] /\ NoThread \notin Threads
  BY DEF MutexSound, TypeOK
<1>1. CASE UNCHANGED tvars
  BY <1>1 DEF tvars, vars, local, mutexvars
<1>2. ASSUME NEW t \in Threads, Activate(t) PROVE Exclusive'
  BY <1>0, <1>2 DEF Activate, rt_timer_check, mutexvars
<1>3. ASSUME NEW t \in Threads, Enter(t) PROVE Exclusive'
  <2>1. \/ owner = NoThread /\ owner' = t /\ stat' = stat
        \/ owner' = owner /\ stat' = [stat EXCEPT ![t] = "waiting"]
    BY <1>3, TakeEffect DEF Enter
  <2>. QED BY <1>0, <1>3, <2>1 DEF Enter
<1>4. ASSUME NEW t \in Threads, Return(t) PROVE Exclusive'
  <2>1. /\ owner = t
        /\ \/ owner' = NoThread /\ stat' = stat
           \/ \E h \in Threads : owner' = h /\ stat' = [stat EXCEPT ![h] = "ready"]
    BY <1>4, ReleaseEffect DEF Return
  <2>. QED BY <1>0, <1>4, <2>1 DEF Return
<1>5. ASSUME NEW t \in Threads, Sleep(t) PROVE Exclusive'
  BY <1>0, <1>5 DEF Sleep, rt_thread_sleep, mutexvars, Running
<1>6. ASSUME NEW t \in Threads, Query(t) \/ BeginWrite(t) \/ EndWrite(t) PROVE Exclusive'
  BY <1>0, <1>6 DEF Query, BeginWrite, EndWrite, Inside, vars, mutexvars, Running
<1>7. CASE Elapse
  BY <1>7 DEF Elapse, vars, local, mutexvars
<1>. QED BY <1>1, <1>2, <1>3, <1>4, <1>5, <1>6, <1>7 DEF ThreadsNext, ThreadStep

-----------------------------------------------------------------------------
(* Programs.                                                               *)

\* A thread that another one only wakes, or does not touch, stays in step.
LEMMA InStepKept ==
    ASSUME NEW u \in Threads, InStep(u), todo'[u] = todo[u], phase'[u] = phase[u],
           res'[u] = res[u], stat'[u] = stat[u] \/ stat'[u] = "ready"
    PROVE  InStep(u)'
  BY DEF InStep, Calling

\* A thread wakes with a program of its own.
LEMMA ProgramsShape ==
    ASSUME NEW t \in Threads, NEW p \in Programs(t)
    PROVE  /\ p \in Remaining(t) /\ p # <<>>
           /\ Head(p) \in Mutators \cup {"get_state", "get_total", "get_lap_count"}
<1>. USE ThreadsConstants DEF Programs, Remaining, csv_timer_cb, sw_status, draw_main_page,
         draw_laps_page, indicator_led_entry
<1>1. CASE t = "timer"
  BY <1>1
<1>2. CASE t = "shell"
  BY <1>2
<1>3. CASE t = "ui"
  BY <1>3
<1>4. CASE t \notin {"timer", "shell", "ui"}
  BY <1>4
<1>. QED BY <1>1, <1>2, <1>3, <1>4

\* What follows the first call of c.
Follows(t, c) ==
    /\ Tail(c) \in Remaining(t)
    /\ Head(c) \in Mutators \cup Queries
    /\ Head(c) \in Mutators => t = "shell" /\ Tail(c) = <<>>
    /\ Head(c) = "get_state" => Tail(c) = <<>> \/ (Tail(c) # <<>> /\ Head(Tail(c)) = "get_total")
    /\ Head(c) = "get_total" => Tail(c) # <<>> /\ Head(Tail(c)) = "get_lap_count"
    /\ Head(c) = "get_lap_count" =>
         Tail(c) # <<>> /\ Head(Tail(c)) \in {"get_lap", "get_latest_lap"}
    /\ Head(c) \in {"get_lap", "get_latest_lap"} => Tail(c) = <<>>
    /\ <<>> \in Remaining(t)

\* Whatever a thread has left to call, the calls come in the order of its program.
LEMMA TailShape ==
    ASSUME NEW t \in Threads, NEW c \in Remaining(t), c # <<>>
    PROVE  Follows(t, c)
<1>. USE ThreadsConstants DEF Remaining, csv_timer_cb, sw_status, draw_main_page,
         draw_laps_page, indicator_led_entry, Mutators, Queries, Follows
<1>1. CASE t = "timer"
  <2>1. CASE c = csv_timer_cb
    BY <1>1, <2>1
  <2>2. CASE c = <<"get_lap_count", "get_latest_lap">>
    BY <1>1, <2>2
  <2>3. CASE c = <<"get_latest_lap">>
    BY <1>1, <2>3
  <2>. QED BY <1>1, <2>1, <2>2, <2>3 DEF Remaining
<1>2. CASE t = "shell"
  <2>1. ASSUME NEW m \in Mutators, c = <<m>> PROVE Follows(t, c)
    <3>1. Head(c) = m /\ Tail(c) = <<>>
      BY <2>1
    <3>. QED BY <1>2, <3>1
  <2>2. CASE c = sw_status
    BY <1>2, <2>2
  <2>3. CASE c = <<"get_total", "get_lap_count", "get_lap">>
    BY <1>2, <2>3
  <2>4. CASE c = <<"get_lap_count", "get_lap">>
    BY <1>2, <2>4
  <2>5. CASE c = <<"get_lap">>
    BY <1>2, <2>5
  <2>. QED BY <1>2, <2>1, <2>2, <2>3, <2>4, <2>5 DEF Remaining
<1>3. CASE t = "ui"
  <2>1. CASE c = draw_main_page
    BY <1>3, <2>1
  <2>2. CASE c = <<"get_lap_count", "get_latest_lap">>
    BY <1>3, <2>2
  <2>3. CASE c = <<"get_latest_lap">>
    BY <1>3, <2>3
  <2>4. CASE c = draw_laps_page
    BY <1>3, <2>4
  <2>5. CASE c = <<"get_lap">>
    BY <1>3, <2>5
  <2>. QED BY <1>3, <2>1, <2>2, <2>3, <2>4, <2>5 DEF Remaining
<1>4. CASE t \notin {"timer", "shell", "ui"}
  <2>1. CASE c = indicator_led_entry
    BY <1>4, <2>1
  <2>. QED BY <1>4, <2>1 DEF Remaining
<1>. QED BY <1>1, <1>2, <1>3, <1>4

\* The variables of the threads are functions on the threads.
LocalOK ==
    /\ todo \in [Threads -> UNION {Remaining(t) : t \in Threads}]
    /\ phase \in [Threads -> {"call", "in", "mid", "out"}]
    /\ res \in [Threads -> Results]

\* Waking up.
LEMMA ActivateInStep ==
    ASSUME LocalOK, MutexSound, \A u \in Threads : InStep(u), NEW t \in Threads, Activate(t)
    PROVE  LocalOK' /\ \A u \in Threads : InStep(u)'
<1>1. PICK p \in Programs(t) : todo' = [todo EXCEPT ![t] = p]
  BY DEF Activate
<1>2. /\ stat \in [Threads -> Stats] /\ stat[t] = "sleeping"
      /\ stat' = [stat EXCEPT ![t] = "ready"] /\ phase' = phase /\ res' = res
  BY DEF Activate, rt_timer_check, MutexSound, TypeOK
<1>3. /\ p \in Remaining(t) /\ p # <<>>
      /\ Head(p) \in Mutators \cup {"get_state", "get_total", "get_lap_count"}
  BY ProgramsShape
<1>4. /\ phase[t] = "call" /\ res[t] = NoResult /\ todo'[t] = p /\ stat'[t] = "ready"
      /\ res[t] \in Results
  BY <1>1, <1>2 DEF InStep, LocalOK
<1>5. /\ res[t].n = 0 /\ res[t].laps = <<>> /\ Len(res[t].laps) = 0
  BY <1>4 DEF NoResult
<1>6. InStep(t)'
  BY <1>2, <1>3, <1>4, <1>5 DEF InStep, Calling, Mutators
<1>7. ASSUME NEW u \in Threads, u # t PROVE InStep(u)'
  BY <1>1, <1>2, <1>7, InStepKept DEF LocalOK
<1>8. LocalOK'
  BY <1>1, <1>2, <1>3 DEF LocalOK
<1>. QED BY <1>6, <1>7, <1>8

\* Taking the lock, or queueing for it.
LEMMA EnterInStep ==
    ASSUME LocalOK, MutexSound, \A u \in Threads : InStep(u), NEW t \in Threads, Enter(t)
    PROVE  LocalOK' /\ \A u \in Threads : InStep(u)'
<1>1. /\ stat[t] = "ready"
      /\ \/ stat' = stat
         \/ stat' = [stat EXCEPT ![t] = "waiting"]
  BY TakeEffect DEF Enter
<1>2. /\ todo[t] # <<>> /\ phase[t] = "call" /\ phase' = [phase EXCEPT ![t] = "in"]
      /\ todo' = todo /\ res' = res /\ stat \in [Threads -> Stats]
  BY DEF Enter, MutexSound, TypeOK
<1>3. phase'[t] = "in" /\ stat'[t] # "sleeping"
  BY <1>1, <1>2 DEF LocalOK
<1>4. InStep(t)'
  BY <1>2, <1>3 DEF InStep, Calling
<1>5. ASSUME NEW u \in Threads, u # t PROVE InStep(u)'
  BY <1>1, <1>2, <1>5, InStepKept DEF LocalOK
<1>6. LocalOK'
  BY <1>2 DEF LocalOK
<1>. QED BY <1>4, <1>5, <1>6

\* Going back to sleep.
LEMMA SleepInStep ==
    ASSUME LocalOK, MutexSound, \A u \in Threads : InStep(u), Exclusive, NEW t \in Threads, Sleep(t)
    PROVE  LocalOK' /\ \A u \in Threads : InStep(u)'
<1>1. /\ todo[t] = <<>> /\ todo' = todo /\ phase' = phase
      /\ res' = [res EXCEPT ![t] = NoResult]
      /\ stat \in [Threads -> Stats] /\ stat' = [stat EXCEPT ![t] = "sleeping"]
  BY DEF Sleep, rt_thread_sleep, MutexSound, TypeOK
<1>2. res'[t] = NoResult /\ stat'[t] = "sleeping" /\ phase[t] = "call"
  BY <1>1 DEF LocalOK, InStep
<1>3. NoResult \in Results /\ Len(NoResult.laps) = 0 /\ NoResult.n = 0 /\ NoResult.laps = <<>>
  BY ThreadsConstants DEF NoResult, Results, Millis
<1>4. InStep(t)'
  BY <1>1, <1>2, <1>3 DEF InStep, Calling
<1>5. ASSUME NEW u \in Threads, u # t PROVE InStep(u)'
  BY <1>1, <1>5, InStepKept DEF LocalOK
<1>6. LocalOK'
  BY <1>1, <1>3 DEF LocalOK
<1>. QED BY <1>4, <1>5, <1>6

\* Leaving the service for the next call.
LEMMA ReturnInStep ==
    ASSUME LocalOK, MutexSound, \A u \in Threads : InStep(u), NEW t \in Threads, Return(t)
    PROVE  LocalOK' /\ \A u \in Threads : InStep(u)'
<1>. DEFINE c == todo[t]
<1>. USE DEF Follows
<1>1. /\ stat[t] = "ready"
      /\ \/ stat' = stat
         \/ \E h \in Threads : stat[h] = "waiting" /\ stat' = [stat EXCEPT ![h] = "ready"]
  BY ReleaseEffect DEF Return
<1>2. /\ c # <<>> /\ phase[t] = "out" /\ phase' = [phase EXCEPT ![t] = "call"]
      /\ todo' = [todo EXCEPT ![t] = Rest(t)] /\ res' = res
      /\ stat \in [Threads -> Stats]
  BY DEF Return, MutexSound, TypeOK
<1>3. c \in Remaining(t) /\ InStep(t) /\ res[t] \in Results
  BY DEF InStep
<1>4. Follows(t, c)
  BY <1>2, <1>3, TailShape
<1>5. /\ phase'[t] = "call" /\ todo'[t] = Rest(t) /\ res'[t] = res[t] /\ stat'[t] = "ready"
  BY <1>1, <1>2 DEF LocalOK
<1>6. /\ res[t].n \in 0..MAX_LAPS /\ res[t].laps \in Seq(Millis) /\ Len(res[t].laps) \in Nat
      /\ Len(res[t].laps) <= res[t].n
  BY <1>3 DEF Results, InStep
<1>7. Rest(t) \in Remaining(t)
  BY <1>3, <1>4 DEF Rest
<1>8. ASSUME Rest(t) = <<>> PROVE InStep(t)'
  BY <1>3, <1>5, <1>7, <1>8, <1>6 DEF InStep, Calling
<1>9. ASSUME Rest(t) # <<>>, res[t].n = 0,
             Head(Rest(t)) \in {"get_state", "get_total", "get_lap_count"}
      PROVE  InStep(t)'
  <2>1. res[t].laps = <<>>
    BY <1>6, <1>9, ThreadsConstants
  <2>. QED BY <1>3, <1>5, <1>7, <1>9, <1>6, <2>1 DEF InStep, Calling, Mutators
<1>10. ASSUME Rest(t) # <<>>, Len(res[t].laps) < res[t].n,
              \/ Head(Rest(t)) = "get_lap"
              \/ Head(Rest(t)) = "get_latest_lap" /\ res[t].laps = <<>>
       PROVE  InStep(t)'
  <2>1. res[t].n > 0
    BY <1>6, <1>10, ThreadsConstants
  <2>. QED BY <1>3, <1>5, <1>7, <1>10, <1>6, <2>1 DEF InStep, Calling, Mutators
<1>11. ASSUME Head(c) \in Mutators PROVE InStep(t)'
  <2>1. Rest(t) = <<>>
    BY <1>4, <1>11 DEF Rest, Mutators
  <2>. QED BY <1>8, <2>1
<1>12. ASSUME Head(c) = "get_state" PROVE InStep(t)'
  <2>1. Rest(t) = Tail(c)
    BY <1>12 DEF Rest
  <2>2. res[t].n = 0
    BY <1>2, <1>3, <1>12 DEF InStep, Calling
  <2>. QED BY <1>4, <1>8, <1>9, <1>12, <2>1, <2>2
<1>13. ASSUME Head(c) = "get_total" PROVE InStep(t)'
  <2>1. Rest(t) = Tail(c)
    BY <1>13 DEF Rest
  <2>2. res[t].n = 0
    BY <1>2, <1>3, <1>13 DEF InStep, Calling
  <2>. QED BY <1>4, <1>9, <1>13, <2>1, <2>2
<1>14. ASSUME Head(c) = "get_lap_count" PROVE InStep(t)'
  <2>1. res[t].laps = <<>>
    BY <1>2, <1>3, <1>14 DEF InStep, Calling
  <2>2. CASE res[t].n = 0
    BY <1>8, <1>14, <2>2 DEF Rest
  <2>3. CASE res[t].n # 0
    <3>1. Rest(t) = Tail(c) /\ Len(res[t].laps) < res[t].n
      BY <1>6, <1>14, <2>1, <2>3 DEF Rest
    <3>. QED BY <1>4, <1>10, <1>14, <2>1, <3>1
  <2>. QED BY <2>2, <2>3
<1>15. ASSUME Head(c) = "get_lap" PROVE InStep(t)'
  <2>1. CASE Len(res[t].laps) < res[t].n
    BY <1>2, <1>10, <1>15, <2>1 DEF Rest
  <2>2. CASE ~(Len(res[t].laps) < res[t].n)
    BY <1>4, <1>8, <1>15, <2>2 DEF Rest
  <2>. QED BY <2>1, <2>2
<1>16. ASSUME Head(c) = "get_latest_lap" PROVE InStep(t)'
  BY <1>4, <1>8, <1>16 DEF Rest
<1>17. InStep(t)'
  BY <1>4, <1>11, <1>12, <1>13, <1>14, <1>15, <1>16 DEF Queries
<1>18. ASSUME NEW u \in Threads, u # t PROVE InStep(u)'
  BY <1>1, <1>2, <1>18, InStepKept DEF LocalOK
<1>19. LocalOK'
  BY <1>2, <1>7 DEF LocalOK
<1>. QED BY <1>17, <1>18, <1>19

\* A query answers with a field of g_sw and changes nothing else.
LEMMA QueryEffect ==
    ASSUME LocalOK, FieldsOK, NEW t \in Threads, InStep(t), Query(t)
    PROVE  /\ stat[t] = "ready" /\ todo[t] # <<>> /\ phase[t] = "in"
           /\ phase' = [phase EXCEPT ![t] = "out"]
           /\ UNCHANGED <<vars, todo, total_tmp, g_sw, done>>
           /\ Head(todo[t]) \in Queries
           /\ res' = [res EXCEPT ![t] = res'[t]] /\ res'[t] \in Results
           /\ Head(todo[t]) = "get_state" => res'[t].n = res[t].n /\ res'[t].laps = res[t].laps
           /\ Head(todo[t]) = "get_total" =>
                res'[t].total = now_ms /\ res'[t].n = res[t].n /\ res'[t].laps = res[t].laps
           /\ Head(todo[t]) = "get_lap_count" =>
                res'[t].n = lap_count /\ res'[t].laps = res[t].laps
           /\ Head(todo[t]) = "get_latest_lap" =>
                /\ res'[t].n = res[t].n
                /\ res'[t].laps = <<IF lap_count > 0 THEN lap_ms[lap_count] ELSE 0>>
           /\ Head(todo[t]) = "get_lap" =>
                /\ res'[t].n = res[t].n
                /\ LET i == Len(res[t].laps) + 1
                   IN  res'[t].laps = Append(res[t].laps, IF i <= lap_count THEN lap_ms[i] ELSE 0)
<1>. DEFINE call == Head(todo[t])
            r == res[t]
            i == Len(res[t].laps) + 1
            lap == IF i <= lap_count THEN lap_ms[i] ELSE 0
            latest == IF lap_count > 0 THEN lap_ms[lap_count] ELSE 0
<1>1. /\ res' = [res EXCEPT ![t] =
             CASE call = "get_state" -> [r EXCEPT !.state = sw_state]
               [] call = "get_total" -> [r EXCEPT !.total = now_ms]
               [] call = "get_lap_count" -> [r EXCEPT !.n = lap_count]
               [] call = "get_latest_lap" -> [r EXCEPT !.laps = <<latest>>]
               [] call = "get_lap" -> [r EXCEPT !.laps = Append(r.laps, lap)]]
      /\ call \in Queries
      /\ stat[t] = "ready" /\ todo[t] # <<>> /\ phase[t] = "in"
      /\ phase' = [phase EXCEPT ![t] = "out"]
      /\ UNCHANGED <<vars, todo, total_tmp, g_sw, done>>
  BY DEF Query, Inside, Running
<1>2. r \in Results /\ res \in [Threads -> Results]
  BY DEF LocalOK
<1>3. /\ i \in Nat \ {0} /\ lap \in Millis /\ latest \in Millis
      /\ now_ms \in Millis /\ lap_count \in 0..MAX_LAPS /\ sw_state \in {"IDLE", "RUNNING", "PAUSED"}
  BY <1>2, ThreadsConstants DEF FieldsOK, Slots, Millis, Results
<1>. HIDE DEF i, lap, latest, r
<1>4. CASE call = "get_state"
  <2>1. res' = [res EXCEPT ![t] = [r EXCEPT !.state = sw_state]]
    BY <1>1, <1>4
  <2>2. res'[t] = [r EXCEPT !.state = sw_state]
    BY <1>2, <2>1
  <2>3. res'[t] \in Results /\ res'[t].n = r.n /\ res'[t].laps = r.laps
    BY <1>2, <1>3, <2>2 DEF Results
  <2>. QED BY <1>1, <1>4, <2>1, <2>2, <2>3 DEF r
<1>5. CASE call = "get_total"
  <2>1. res' = [res EXCEPT ![t] = [r EXCEPT !.total = now_ms]]
    BY <1>1, <1>5
  <2>2. res'[t] = [r EXCEPT !.total = now_ms]
    BY <1>2, <2>1
  <2>3. res'[t] \in Results /\ res'[t].n = r.n /\ res'[t].laps = r.laps /\ res'[t].total = now_ms
    BY <1>2, <1>3, <2>2 DEF Results
  <2>. QED BY <1>1, <1>5, <2>1, <2>2, <2>3 DEF r
<1>6. CASE call = "get_lap_count"
  <2>1. res' = [res EXCEPT ![t] = [r EXCEPT !.n = lap_count]]
    BY <1>1, <1>6
  <2>2. res'[t] = [r EXCEPT !.n = lap_count]
    BY <1>2, <2>1
  <2>3. res'[t] \in Results /\ res'[t].n = lap_count /\ res'[t].laps = r.laps
    BY <1>2, <1>3, <2>2 DEF Results
  <2>. QED BY <1>1, <1>6, <2>1, <2>2, <2>3 DEF r
<1>7. CASE call = "get_latest_lap"
  <2>1. res' = [res EXCEPT ![t] = [r EXCEPT !.laps = <<latest>>]]
    BY <1>1, <1>7
  <2>2. res'[t] = [r EXCEPT !.laps = <<latest>>]
    BY <1>2, <2>1
  <2>3. res'[t] \in Results /\ res'[t].n = r.n /\ res'[t].laps = <<latest>>
    BY <1>2, <1>3, <2>2, <<latest>> \in Seq(Millis) DEF Results
  <2>. QED BY <1>1, <1>7, <2>1, <2>2, <2>3 DEF r, latest
<1>8. CASE call = "get_lap"
  <2>1. res' = [res EXCEPT ![t] = [r EXCEPT !.laps = Append(r.laps, lap)]]
    BY <1>1, <1>8
  <2>2. res'[t] = [r EXCEPT !.laps = Append(r.laps, lap)]
    BY <1>2, <2>1
  <2>3. Append(r.laps, lap) \in Seq(Millis)
    BY <1>2, <1>3 DEF Results
  <2>4. res'[t] \in Results /\ res'[t].n = r.n /\ res'[t].laps = Append(r.laps, lap)
    BY <1>2, <1>3, <2>2, <2>3 DEF Results
  <2>. QED BY <1>1, <1>8, <2>1, <2>2, <2>4 DEF r, lap, i
<1>. QED BY <1>1, <1>4, <1>5, <1>6, <1>7, <1>8 DEF Queries

\* An answer leaves the reader in step.
LEMMA QueryInStep ==
    ASSUME LocalOK, FieldsOK, \A u \in Threads : InStep(u), NEW t \in Threads, Query(t)
    PROVE  LocalOK' /\ \A u \in Threads : InStep(u)'
<1>. DEFINE c == todo[t]
<1>1. /\ stat' = stat /\ todo' = todo /\ phase' = [phase EXCEPT ![t] = "out"]
      /\ c # <<>> /\ Head(c) \in Queries /\ phase[t] = "in" /\ stat[t] = "ready"
      /\ res' = [res EXCEPT ![t] = res'[t]] /\ res'[t] \in Results
  BY QueryEffect DEF vars
<1>2. InStep(t) /\ phase'[t] = "out" /\ todo'[t] = c /\ stat'[t] = "ready"
  BY <1>1 DEF LocalOK
<1>3. /\ res[t].n \in 0..MAX_LAPS /\ res[t].laps \in Seq(Millis)
      /\ Len(res[t].laps) \in Nat /\ Len(res[t].laps) <= res[t].n
      /\ res'[t].n \in 0..MAX_LAPS /\ res'[t].laps \in Seq(Millis) /\ Len(res'[t].laps) \in Nat
  BY <1>1 DEF LocalOK, Results, InStep
<1>4. ASSUME Head(c) \in {"get_state", "get_total"} PROVE InStep(t)'
  <2>1. res'[t].n = res[t].n /\ res'[t].laps = res[t].laps
    BY <1>4, QueryEffect
  <2>. QED BY <1>1, <1>2, <1>3, <1>4, <2>1 DEF InStep, Calling, Mutators
<1>5. ASSUME Head(c) = "get_lap_count" PROVE InStep(t)'
  <2>1. res'[t].n = lap_count /\ res'[t].laps = res[t].laps /\ res[t].laps = <<>>
    BY <1>1, <1>2, <1>5, QueryEffect DEF InStep, Calling
  <2>. QED BY <1>1, <1>2, <1>3, <1>5, <2>1 DEF InStep, Calling, Mutators
<1>6. ASSUME Head(c) = "get_latest_lap" PROVE InStep(t)'
  <2>0. /\ res'[t].n = res[t].n
        /\ res'[t].laps = <<IF lap_count > 0 THEN lap_ms[lap_count] ELSE 0>>
    BY <1>6, QueryEffect
  <2>1. res'[t].n = res[t].n /\ Len(res'[t].laps) = 1 /\ res[t].n > 0
    BY <1>1, <1>2, <1>6, <2>0 DEF InStep, Calling
  <2>. QED BY <1>1, <1>2, <1>3, <1>6, <2>1 DEF InStep, Calling, Mutators
<1>7. ASSUME Head(c) = "get_lap" PROVE InStep(t)'
  <2>1. /\ res'[t].n = res[t].n /\ Len(res'[t].laps) = Len(res[t].laps) + 1
        /\ Len(res[t].laps) < res[t].n
    BY <1>1, <1>2, <1>3, <1>7, QueryEffect DEF InStep, Calling
  <2>2. res[t].n > 0 /\ Len(res'[t].laps) <= res'[t].n
    BY <1>3, <2>1
  <2>. QED BY <1>1, <1>2, <1>3, <1>7, <2>1, <2>2 DEF InStep, Calling, Mutators
<1>8. InStep(t)'
  BY <1>1, <1>4, <1>5, <1>6, <1>7 DEF Queries
<1>9. ASSUME NEW u \in Threads, u # t PROVE InStep(u)'
  BY <1>1, <1>9, InStepKept DEF LocalOK
<1>10. LocalOK'
  BY <1>1 DEF LocalOK
<1>. QED BY <1>8, <1>9, <1>10

\* A mutator is the shell's; its two halves move it on and read nothing.
LEMMA WriteInStep ==
    ASSUME LocalOK, \A u \in Threads : InStep(u), NEW t \in Threads, BeginWrite(t) \/ EndWrite(t)
    PROVE  /\ t = "shell" /\ todo["shell"] # <<>> /\ Head(todo["shell"]) \in Mutators
           /\ LocalOK' /\ \A u \in Threads : InStep(u)'
<1>1. /\ stat' = stat /\ todo' = todo /\ res' = res /\ stat[t] = "ready"
      /\ phase[t] # "call" /\ \E ph \in {"mid", "out"} : phase' = [phase EXCEPT ![t] = ph]
      /\ todo[t] # <<>> /\ Head(todo[t]) \in Mutators
  BY DEF BeginWrite, EndWrite, Inside, Running, vars
<1>2. todo[t] \in Remaining(t) /\ InStep(t)
  BY DEF InStep
<1>3. t = "shell"
  BY <1>1, <1>2, TailShape DEF Follows
<1>4. phase'[t] \in {"mid", "out"}
  BY <1>1 DEF LocalOK
<1>5. InStep(t)'
  BY <1>1, <1>2, <1>4 DEF InStep, Calling, Mutators
<1>6. ASSUME NEW u \in Threads, u # t PROVE InStep(u)'
  BY <1>1, <1>6, InStepKept DEF LocalOK
<1>7. LocalOK'
  BY <1>1 DEF LocalOK
<1>. QED BY <1>1, <1>3, <1>5, <1>6, <1>7

-----------------------------------------------------------------------------
(* The fields of g_sw.                                                     *)

\* The first n laps, as a sequence.
LEMMA PrefixOfTable ==
    ASSUME NEW f \in [Slots -> Millis], NEW n \in 0..MAX_LAPS
    PROVE  /\ SubSeq(f, 1, n) \in Seq(Millis)
           /\ Len(SubSeq(f, 1, n)) = n
           /\ \A i \in 1..n : SubSeq(f, 1, n)[i] = f[i]
<1>1. n \in Int /\ 1 \in Int /\ \A i \in 1..n : f[i] \in Millis
  BY ThreadsConstants DEF Slots
<1>2. /\ SubSeq(f, 1, n) \in Seq(Millis)
      /\ Len(SubSeq(f, 1, n)) = IF 1 <= n THEN n - 1 + 1 ELSE 0
      /\ \A i \in 1..n-1+1 : SubSeq(f, 1, n)[i] = f[1+i-1]
  BY <1>1, SubSeqProperties
<1>3. n - 1 + 1 = n /\ \A i \in 1..n : 1 + i - 1 = i
  BY ThreadsConstants
<1>. QED BY <1>2, <1>3, ThreadsConstants

\* A lap that finds a free slot is appended.
LEMMA LapAppended ==
    ASSUME NEW f \in [Slots -> Millis], NEW n \in 0..MAX_LAPS-1, NEW x \in Millis
    PROVE  SubSeq([f EXCEPT ![n + 1] = x], 1, n + 1) = Ideal!Latest(Append(SubSeq(f, 1, n), x))
<1>. DEFINE g == [f EXCEPT ![n + 1] = x]
            s == SubSeq(f, 1, n)
            a == SubSeq(g, 1, n + 1)
            b == Append(s, x)
<1>0. n + 1 \in Slots /\ n + 1 \in 0..MAX_LAPS /\ n \in 0..MAX_LAPS /\ n \in Nat
  BY ThreadsConstants DEF Slots
<1>1. g \in [Slots -> Millis] /\ g[n + 1] = x /\ \A i \in 1..n : g[i] = f[i]
  BY <1>0, ThreadsConstants DEF Slots
<1>2. s \in Seq(Millis) /\ Len(s) = n /\ \A i \in 1..n : s[i] = f[i]
  BY <1>0, PrefixOfTable
<1>3. a \in Seq(Millis) /\ Len(a) = n + 1 /\ \A i \in 1..n+1 : a[i] = g[i]
  BY <1>0, <1>1, PrefixOfTable
<1>. HIDE DEF g, s, a
<1>4. b \in Seq(Millis) /\ Len(b) = n + 1 /\ b[n + 1] = x /\ \A i \in 1..n : b[i] = s[i]
  BY <1>2
<1>. HIDE DEF b
<1>5. \A i \in 1..n+1 : a[i] = b[i]
  <2>1. \A i \in 1..n+1 : i = n + 1 \/ i \in 1..n
    BY <1>0
  <2>. QED BY <1>1, <1>2, <1>3, <1>4, <2>1
<1>6. a = b
  BY <1>3, <1>4, <1>5, SeqEqual
<1>7. Ideal!Latest(b) = b
  BY <1>0, <1>4, ThreadsConstants DEF Ideal!Latest
<1>. QED BY <1>6, <1>7 DEF g, s, a, b

\* A lap that finds the table full drops the oldest.
LEMMA LapShifted ==
    ASSUME NEW f \in [Slots -> Millis], NEW x \in Millis
    PROVE  SubSeq([i \in Slots |-> IF i < MAX_LAPS THEN f[i + 1] ELSE x], 1, MAX_LAPS)
             = Ideal!Latest(Append(SubSeq(f, 1, MAX_LAPS), x))
<1>. DEFINE M == MAX_LAPS
            g == [i \in Slots |-> IF i < MAX_LAPS THEN f[i + 1] ELSE x]
            s == SubSeq(f, 1, MAX_LAPS)
            a == SubSeq(g, 1, MAX_LAPS)
            b == Append(s, x)
<1>0. M \in 0..MAX_LAPS /\ M \in Nat \ {0} /\ M = MAX_LAPS
  BY ThreadsConstants
<1>1. g \in [Slots -> Millis] /\ g[M] = x /\ \A i \in 1..M-1 : g[i] = f[i + 1]
  BY <1>0 DEF Slots
<1>2. s \in Seq(Millis) /\ Len(s) = M /\ \A i \in 1..M : s[i] = f[i]
  BY <1>0, PrefixOfTable
<1>3. a \in Seq(Millis) /\ Len(a) = M /\ \A i \in 1..M : a[i] = g[i]
  BY <1>0, <1>1, PrefixOfTable
<1>. HIDE DEF g, s, a, M
<1>4. b \in Seq(Millis) /\ Len(b) = M + 1 /\ b[M + 1] = x /\ \A i \in 1..M : b[i] = s[i]
  BY <1>2, <1>0
<1>. HIDE DEF b
<1>5. /\ Tail(b) \in Seq(Millis) /\ Len(Tail(b)) = M
      /\ \A i \in 1..M : Tail(b)[i] = b[i + 1]
  <2>1. b # <<>>
    BY <1>0, <1>4
  <2>2. /\ Tail(b) \in Seq(Millis) /\ Len(Tail(b)) = Len(b) - 1
        /\ \A i \in 1..Len(Tail(b)) : Tail(b)[i] = b[i + 1]
    BY <1>4, <2>1, HeadTailProperties
  <2>. QED BY <1>0, <1>4, <2>2
<1>6. ASSUME NEW i \in 1..M PROVE a[i] = Tail(b)[i]
  <2>1. CASE i = M
    BY <1>0, <1>1, <1>3, <1>4, <1>5, <2>1
  <2>2. CASE i \in 1..M-1
    <3>1. i + 1 \in 1..M /\ i \in 1..M
      BY <1>0, <2>2
    <3>2. Tail(b)[i] = s[i + 1]
      BY <1>4, <1>5, <3>1
    <3>. QED BY <1>1, <1>2, <1>3, <2>2, <3>1, <3>2
  <2>3. i = M \/ i \in 1..M-1
    BY <1>0
  <2>. QED BY <2>1, <2>2, <2>3
<1>7. a = Tail(b)
  BY <1>3, <1>5, <1>6, SeqEqual
<1>8. Ideal!Latest(b) = Tail(b)
  BY <1>0, <1>4 DEF Ideal!Latest
<1>. QED BY <1>7, <1>8 DEF g, s, a, b, M

Fields == FieldsOK /\ Settled /\ HalfWritten /\ Written

\* A step that touches neither the fields nor the shell inside a mutator.
LEMMA FieldsKept ==
    ASSUME Fields, UNCHANGED <<g_sw, total_tmp, done>>,
           Writing("mid")' <=> Writing("mid"), Writing("out")' <=> Writing("out"),
           Writing("mid") \/ Writing("out") => Op' = Op
    PROVE  Fields'
<1>. USE DEF g_sw, Current, Showable, Retained
<1>1. FieldsOK'
  BY DEF Fields, FieldsOK
<1>2. Settled'
  BY DEF Fields, Settled
<1>3. HalfWritten'
  BY DEF Fields, HalfWritten, Ideal!Latest
<1>4. Written'
  BY DEF Fields, Written, Ideal!Latest
<1>. QED BY <1>1, <1>2, <1>3, <1>4 DEF Fields

\* Waking, entering, sleeping and reading are such steps.
LEMMA ReadersKeepFields ==
    ASSUME LocalOK, MutexSound, \A u \in Threads : InStep(u), Fields, NEW t \in Threads,
           Activate(t) \/ Enter(t) \/ Sleep(t) \/ Query(t)
    PROVE  Fields'
<1>. DEFINE Same == /\ Writing("mid")' <=> Writing("mid")
                    /\ Writing("out")' <=> Writing("out")
                    /\ Writing("mid") \/ Writing("out") => Op' = Op
<1>1. UNCHANGED <<g_sw, total_tmp, done>>
  BY DEF Activate, Enter, Sleep, Query
<1>2. CASE t # "shell"
  <2>1. "shell" \in Threads => todo'["shell"] = todo["shell"] /\ phase'["shell"] = phase["shell"]
    BY <1>2 DEF Activate, Enter, Sleep, Query, LocalOK
  <2>2. Same
    BY <2>1 DEF Writing, Op
  <2>. QED BY <1>1, <2>2, FieldsKept
<1>3. CASE t = "shell" /\ ~Query(t)
  <2>1. phase[t] = "call" \/ todo[t] = <<>>
    BY <1>3 DEF Activate, rt_timer_check, Enter, Sleep, InStep
  <2>2. phase[t] = "call"
    BY <2>1 DEF InStep, LocalOK
  <2>3. phase'[t] = "call" \/ phase'[t] = "in"
    BY <1>3, <2>2 DEF Activate, Enter, Sleep, LocalOK
  <2>4. Same
    BY <1>3, <2>2, <2>3 DEF Writing
  <2>. QED BY <1>1, <2>4, FieldsKept
<1>4. CASE t = "shell" /\ Query(t)
  <2>1. todo' = todo /\ todo[t] # <<>> /\ Head(todo[t]) \notin Mutators
    BY <1>4 DEF Query, Inside, Queries, Mutators
  <2>2. Same
    BY <1>4, <2>1 DEF Writing
  <2>. QED BY <1>1, <2>2, FieldsKept
<1>. QED BY <1>2, <1>3, <1>4

\* Time passes only while the watch runs.
LEMMA ElapseKeepsFields ==
    ASSUME LocalOK, Fields, TotalRead, Elapse
    PROVE  Fields' /\ TotalRead'
<1>. USE ThreadsConstants
<1>1. /\ sw_state = "RUNNING" /\ now_ms \in Millis /\ now_ms' = now_ms + 1 /\ now_ms' \in Millis
      /\ UNCHANGED <<todo, phase, res, total_tmp, sw_state, last_lap, lap_ms, lap_count, done>>
  BY DEF Elapse, local, Fields, FieldsOK, Millis
<1>2. FieldsOK'
  BY <1>1 DEF Fields, FieldsOK, Millis
<1>3. /\ (Writing("mid")' <=> Writing("mid")) /\ (Writing("out")' <=> Writing("out"))
      /\ Op' = Op /\ Retained' = Retained
  BY <1>1 DEF Writing, Op, Retained
<1>4. \A x \in Millis : /\ Current(x) => Current(x)'
                        /\ Showable(x) <=> Showable(x)'
  BY <1>1 DEF Current, Showable, Millis
<1>5. total_tmp \in Millis /\ 0 \in Millis /\ done.seen \in Millis
  BY DEF Fields, FieldsOK, Millis
<1>6. Settled'
  <2>1. SUFFICES ASSUME ~Writing("mid"), ~Writing("out")
                 PROVE  /\ done.mode = sw_state /\ done.mark = last_lap /\ done.laps = Retained
                        /\ Showable(now_ms)'
    BY <1>1, <1>3 DEF Settled
  <2>2. /\ done.mode = sw_state /\ done.mark = last_lap /\ done.laps = Retained
        /\ Showable(now_ms)
    BY <2>1 DEF Fields, Settled
  <2>. QED BY <1>1, <1>5, <2>2 DEF Showable, Millis
<1>7. HalfWritten'
  BY <1>1, <1>3, <1>4, <1>5 DEF Fields, HalfWritten, Ideal!Latest, Current, Showable, Millis
<1>8. Written'
  <2>1. SUFFICES ASSUME Writing("out")'
                 PROVE  Written'
    BY DEF Written
  <2>2. Writing("out") /\ Written
    BY <1>3, <2>1 DEF Fields
  <2>3. Op # "stop"
    BY <1>1, <2>2 DEF Written
  <2>4. Op = "start" => done.seen <= now_ms'
    BY <1>1, <1>5, <2>2 DEF Written, Millis
  <2>5. Op = "reset" => Current(0)'
    BY <1>4, <1>5, <2>2 DEF Written
  <2>6. Op \in {"lap", "clear_laps"} => Current(total_tmp)' /\ Showable(total_tmp)'
    <3>1. Op \in {"lap", "clear_laps"} => Current(total_tmp) /\ Showable(total_tmp)
      BY <2>2 DEF Written
    <3>. QED BY <3>1, <1>1, <1>5 DEF Current, Showable, Millis
  <2>. HIDE DEF Millis
  <2>. QED BY <1>1, <1>3, <2>2, <2>3, <2>4, <2>5, <2>6 DEF Written, Ideal!Latest
<1>9. TotalRead'
  <2>1. \A t \in Threads : res[t].total \in Millis
    BY DEF LocalOK, Results
  <2>2. ASSUME NEW t \in Threads, Calling(t, "get_total")', phase'[t] = "out"
        PROVE  Current(res[t].total)' /\ Showable(res[t].total)'
    <3>1. Current(res[t].total) /\ Showable(res[t].total)
      BY <1>1, <2>2 DEF TotalRead, Calling
    <3>2. PICK x \in Millis : x = res[t].total /\ x = res'[t].total
      BY <1>1, <2>1
    <3>3. Current(x) /\ Showable(x)
      BY <3>1, <3>2
    <3>4. Current(x)' /\ Showable(x)'
      BY <3>3, <1>4
    <3>. QED BY <3>2, <3>4 DEF Current, Showable
  <2>. QED BY <2>2 DEF TotalRead
<1>. QED BY <1>2, <1>6, <1>7, <1>8, <1>9 DEF Fields

\* A mutator that begins finds the fields settled: the shell holds the lock.
LEMMA BeginKeepsFields ==
    ASSUME LocalOK, \A u \in Threads : InStep(u), Fields, TotalRead, NEW t \in Threads, BeginWrite(t)
    PROVE  Fields' /\ TotalRead'
<1>. USE ThreadsConstants
<1>1. /\ t = "shell" /\ todo["shell"] # <<>> /\ Op \in Mutators /\ phase["shell"] = "in"
      /\ phase'["shell"] = "mid"
      /\ total_tmp' = now_ms /\ UNCHANGED <<stat, todo, res, sw_state, now_ms, done>>
  BY WriteInStep DEF BeginWrite, Inside, Op, vars, LocalOK
<1>2. /\ ~Writing("mid") /\ ~Writing("out") /\ Writing("mid")' /\ ~Writing("out")' /\ Op' = Op
  BY <1>1 DEF Writing, Op
<1>3. /\ done.mode = sw_state /\ done.mark = last_lap /\ done.laps = Retained
      /\ Showable(now_ms)
  BY <1>2 DEF Fields, Settled
<1>4. /\ sw_state \in {"IDLE", "RUNNING", "PAUSED"}
      /\ now_ms \in Millis /\ last_lap \in Millis
      /\ lap_ms \in [Slots -> Millis] /\ lap_count \in 0..MAX_LAPS
      /\ last_lap <= now_ms
      /\ done \in [mode : {"IDLE", "RUNNING", "PAUSED"}, mark : Millis,
                   laps : Seq(Millis), seen : Millis]
  BY DEF Fields, FieldsOK
<1>5. /\ CASE Op = "lap" ->
              /\ IF lap_count < MAX_LAPS
                   THEN /\ lap_ms' = [lap_ms EXCEPT ![lap_count + 1] = now_ms - last_lap]
                        /\ lap_count' = lap_count + 1
                   ELSE /\ lap_ms' = [i \in Slots |-> IF i < MAX_LAPS THEN lap_ms[i + 1]
                                                                     ELSE now_ms - last_lap]
                        /\ UNCHANGED lap_count
              /\ UNCHANGED last_lap
         [] Op = "reset" -> last_lap' = 0 /\ lap_count' = 0 /\ lap_ms' = NoLaps
         [] Op = "clear_laps" -> lap_count' = 0 /\ UNCHANGED <<last_lap, lap_ms>>
         [] OTHER -> UNCHANGED <<last_lap, lap_ms, lap_count>>
  BY <1>1 DEF BeginWrite, Op
<1>6. /\ last_lap' \in Millis /\ lap_ms' \in [Slots -> Millis] /\ lap_count' \in 0..MAX_LAPS
      /\ last_lap' <= now_ms
      /\ Op \in {"start", "stop"} => last_lap' = last_lap /\ Retained' = Retained
      /\ Op = "lap" => /\ last_lap' = last_lap
                       /\ Retained' = Ideal!Latest(Append(Retained, now_ms - last_lap))
      /\ Op = "reset" => last_lap' = 0 /\ lap_count' = 0
      /\ Op = "clear_laps" => lap_count' = 0
  <2>1. CASE Op = "lap"
    <3>. DEFINE x == now_ms - last_lap
    <3>0. x \in Millis
      BY <1>4 DEF Millis
    <3>. HIDE DEF x
    <3>1. CASE lap_count < MAX_LAPS
      <4>1. /\ lap_ms' = [lap_ms EXCEPT ![lap_count + 1] = x]
            /\ lap_count' = lap_count + 1 /\ last_lap' = last_lap
        BY <1>5, <2>1, <3>1 DEF x
      <4>2. lap_count \in 0..MAX_LAPS-1
        BY <1>4, <3>1
      <4>3. SubSeq(lap_ms', 1, lap_count') = Ideal!Latest(Append(SubSeq(lap_ms, 1, lap_count), x))
        BY <1>4, <3>0, <4>1, <4>2, LapAppended
      <4>. QED BY <1>4, <2>1, <3>0, <4>1, <4>2, <4>3 DEF Retained, x, Slots
    <3>2. CASE ~(lap_count < MAX_LAPS)
      <4>1. /\ lap_ms' = [i \in Slots |-> IF i < MAX_LAPS THEN lap_ms[i + 1] ELSE x]
            /\ lap_count' = lap_count /\ last_lap' = last_lap
        BY <1>5, <2>1, <3>2 DEF x
      <4>2. lap_count = MAX_LAPS
        BY <1>4, <3>2
      <4>3. SubSeq(lap_ms', 1, lap_count') = Ideal!Latest(Append(SubSeq(lap_ms, 1, lap_count), x))
        BY <1>4, <3>0, <4>1, <4>2, LapShifted
      <4>. QED BY <1>4, <2>1, <3>0, <4>1, <4>2, <4>3 DEF Retained, x, Slots
    <3>. QED BY <3>1, <3>2
  <2>2. CASE Op = "reset"
    BY <1>4, <1>5, <2>2 DEF NoLaps, Millis
  <2>3. CASE Op = "clear_laps"
    BY <1>4, <1>5, <2>3 DEF Millis
  <2>4. CASE Op \in {"start", "stop"}
    BY <1>4, <1>5, <2>4 DEF Retained
  <2>. QED BY <1>1, <2>1, <2>2, <2>3, <2>4 DEF Mutators
<1>7. FieldsOK'
  BY <1>1, <1>4, <1>6 DEF FieldsOK
<1>8. HalfWritten'
  <2>1. Current(total_tmp)' /\ Showable(total_tmp)' /\ last_lap' <= total_tmp'
    BY <1>1, <1>3, <1>4, <1>6 DEF Current, Showable, Millis
  <2>. QED BY <1>1, <1>2, <1>3, <1>6, <2>1 DEF HalfWritten, Ideal!Latest
<1>9. Settled' /\ Written'
  BY <1>2 DEF Settled, Written
<1>10. TotalRead'
  <2>1. \A u \in Threads : phase'[u] = "out" => phase[u] = "out"
    BY <1>1 DEF BeginWrite, LocalOK
  <2>. QED BY <1>1, <2>1 DEF TotalRead, Calling, Current, Showable
<1>. QED BY <1>7, <1>8, <1>9, <1>10 DEF Fields

\* Nobody else is inside while the shell writes.
LEMMA WriterAlone ==
    ASSUME Exclusive, \A u \in Threads : InStep(u), "shell" \in Threads,
           phase["shell"] \in {"mid", "out"},
           NEW u \in Threads, phase[u] = "out", stat["shell"] \in Stats
    PROVE  u = "shell"
  BY DEF Exclusive, InStep

\* A mutator that ends has written what its call promises.
LEMMA EndKeepsFields ==
    ASSUME LocalOK, MutexSound, Exclusive, \A u \in Threads : InStep(u), Fields, TotalRead,
           NEW t \in Threads, EndWrite(t)
    PROVE  Fields' /\ TotalRead'
<1>. USE ThreadsConstants
<1>1. /\ t = "shell" /\ todo["shell"] # <<>> /\ Op \in Mutators /\ phase["shell"] = "mid"
      /\ phase'["shell"] = "out" /\ phase' = [phase EXCEPT !["shell"] = "out"]
      /\ UNCHANGED <<stat, todo, res, lap_count, done>>
  BY WriteInStep DEF EndWrite, Inside, Op, vars, LocalOK
<1>2. Writing("mid") /\ ~Writing("mid")' /\ Writing("out")' /\ Op' = Op
  BY <1>1 DEF Writing, Op
<1>3. /\ done.mode = sw_state
      /\ Current(total_tmp) /\ Showable(total_tmp) /\ last_lap <= total_tmp
      /\ Op \in {"start", "stop"} => last_lap = done.mark /\ Retained = done.laps
      /\ Op = "lap" => /\ last_lap = done.mark
                       /\ Retained = Ideal!Latest(Append(done.laps, total_tmp - done.mark))
      /\ Op = "reset" => last_lap = 0 /\ lap_count = 0
      /\ Op = "clear_laps" => lap_count = 0
  BY <1>2 DEF Fields, HalfWritten
<1>4. /\ sw_state \in {"IDLE", "RUNNING", "PAUSED"}
      /\ now_ms \in Millis /\ last_lap \in Millis /\ total_tmp \in Millis
      /\ lap_ms \in [Slots -> Millis] /\ lap_count \in 0..MAX_LAPS
      /\ last_lap <= now_ms
      /\ done \in [mode : {"IDLE", "RUNNING", "PAUSED"}, mark : Millis,
                   laps : Seq(Millis), seen : Millis]
  BY DEF Fields, FieldsOK
<1>5. ASSUME Op = "lap" PROVE Fields'
  <2>1. last_lap' = total_tmp /\ UNCHANGED <<sw_state, now_ms, total_tmp, lap_ms>>
    BY <1>1, <1>5 DEF EndWrite, Op
  <2>2. FieldsOK' /\ Retained' = Retained
    BY <1>1, <1>3, <1>4, <2>1 DEF FieldsOK, Current, Retained
  <2>3. Written'
    BY <1>1, <1>2, <1>3, <1>5, <2>1, <2>2 DEF Written, Current, Showable, Ideal!Latest
  <2>. QED BY <1>2, <2>2, <2>3 DEF Settled, HalfWritten, Fields
<1>6. ASSUME Op = "reset" PROVE Fields'
  <2>1. /\ now_ms' = 0 /\ total_tmp' = 0
        /\ sw_state' = (IF sw_state = "RUNNING" THEN "RUNNING" ELSE "IDLE")
        /\ UNCHANGED <<last_lap, lap_ms>>
    BY <1>1, <1>6 DEF EndWrite, Op
  <2>2. FieldsOK'
    BY <1>1, <1>3, <1>4, <1>6, <2>1 DEF FieldsOK, Millis
  <2>3. Written'
    BY <1>1, <1>2, <1>3, <1>6, <2>1 DEF Written, Current, Showable
  <2>. QED BY <1>2, <2>2, <2>3 DEF Settled, HalfWritten, Fields
<1>7. ASSUME Op = "clear_laps" PROVE Fields'
  <2>1. /\ last_lap' = now_ms /\ total_tmp' = now_ms /\ lap_ms' = NoLaps
        /\ UNCHANGED <<sw_state, now_ms>>
    BY <1>1, <1>7 DEF EndWrite, Op
  <2>2. FieldsOK'
    BY <1>1, <1>3, <1>4, <1>7, <2>1 DEF FieldsOK, Millis, NoLaps
  <2>3. Current(total_tmp)' /\ Showable(total_tmp)'
    BY <1>1, <1>3, <1>4, <2>1 DEF Current, Showable, Millis
  <2>4. Written'
    BY <1>1, <1>2, <1>3, <1>7, <2>1, <2>3 DEF Written
  <2>. QED BY <1>2, <2>2, <2>4 DEF Settled, HalfWritten, Fields
<1>8. ASSUME Op = "start" PROVE Fields'
  <2>1. sw_state' = "RUNNING" /\ UNCHANGED <<now_ms, total_tmp, last_lap, lap_ms>>
    BY <1>1, <1>8 DEF EndWrite, Op
  <2>2. FieldsOK' /\ Retained' = Retained
    BY <1>1, <1>3, <1>4, <1>8, <2>1 DEF FieldsOK, Retained
  <2>3. done.seen <= now_ms
    BY <1>3, <1>4 DEF Showable, Current, Millis
  <2>4. Written'
    BY <1>1, <1>2, <1>3, <1>8, <2>1, <2>2, <2>3 DEF Written
  <2>. QED BY <1>2, <2>2, <2>4 DEF Settled, HalfWritten, Fields
<1>9. ASSUME Op = "stop" PROVE Fields'
  <2>1. /\ now_ms' = total_tmp
        /\ sw_state' = (IF sw_state = "RUNNING" THEN "PAUSED" ELSE sw_state)
        /\ UNCHANGED <<total_tmp, last_lap, lap_ms>>
    BY <1>1, <1>9 DEF EndWrite, Op
  <2>2. FieldsOK' /\ Retained' = Retained
    BY <1>1, <1>3, <1>4, <1>9, <2>1 DEF FieldsOK, Retained
  <2>3. Written'
    BY <1>1, <1>2, <1>3, <1>9, <2>1, <2>2 DEF Written, Showable
  <2>. QED BY <1>2, <2>2, <2>3 DEF Settled, HalfWritten, Fields
<1>10. Fields'
  BY <1>1, <1>5, <1>6, <1>7, <1>8, <1>9 DEF Mutators
<1>11. TotalRead'
  <2>1. ASSUME NEW u \in Threads, phase'[u] = "out", Calling(u, "get_total")' PROVE FALSE
    <3>1. u # "shell"
      BY <1>1, <2>1 DEF Calling, Op, Mutators
    <3>2. phase[u] = "out"
      BY <1>1, <2>1, <3>1 DEF LocalOK
    <3>3. stat["shell"] \in Stats
      BY <1>1 DEF MutexSound, TypeOK
    <3>. QED BY <1>1, <3>1, <3>2, <3>3, WriterAlone
  <2>. QED BY <2>1 DEF TotalRead
<1>. QED BY <1>10, <1>11

\* A reader that has just read the total: nobody was writing.
LEMMA QueryKeepsTotals ==
    ASSUME LocalOK, MutexSound, Exclusive, \A u \in Threads : InStep(u), Fields, TotalRead,
           NEW t \in Threads, Query(t)
    PROVE  TotalRead'
<1>1. /\ stat[t] = "ready" /\ todo[t] # <<>> /\ phase[t] = "in"
      /\ phase' = [phase EXCEPT ![t] = "out"] /\ Head(todo[t]) \in Queries
      /\ UNCHANGED <<vars, todo, total_tmp, g_sw, done>>
      /\ res' = [res EXCEPT ![t] = res'[t]]
      /\ Head(todo[t]) = "get_total" => res'[t].total = now_ms
  BY QueryEffect DEF Fields
<1>2. UNCHANGED <<now_ms, sw_state, todo, done>>
  BY <1>1 DEF g_sw
<1>3. ~Writing("mid") /\ ~Writing("out")
  <2>1. owner = t
    BY <1>1 DEF Exclusive
  <2>2. t = "shell" => Head(todo["shell"]) \notin Mutators
    BY <1>1 DEF Queries, Mutators
  <2>3. "shell" \in Threads /\ phase["shell"] \in {"mid", "out"} => owner = "shell"
    BY DEF Exclusive, InStep
  <2>. QED BY <2>1, <2>2, <2>3 DEF Writing
<1>4. Showable(now_ms) /\ Current(now_ms)
  BY <1>3 DEF Fields, Settled, FieldsOK, Current, Millis
<1>5. ASSUME NEW u \in Threads, Calling(u, "get_total")', phase'[u] = "out"
      PROVE  Current(res[u].total)' /\ Showable(res[u].total)'
  <2>1. CASE u = t
    <3>1. res'[u].total = now_ms
      BY <1>1, <1>2, <1>5, <2>1 DEF Calling
    <3>. QED BY <1>2, <1>4, <3>1 DEF Current, Showable
  <2>2. CASE u # t
    <3>1. phase[u] = "out" /\ res'[u] = res[u] /\ Calling(u, "get_total")
      BY <1>1, <1>2, <1>5, <2>2 DEF Calling, LocalOK
    <3>2. Current(res[u].total) /\ Showable(res[u].total)
      BY <3>1 DEF TotalRead
    <3>. QED BY <1>2, <3>1, <3>2 DEF Current, Showable
  <2>. QED BY <2>1, <2>2
<1>. QED BY <1>5 DEF TotalRead

\* A call that returns is one operation of the ideal lap timer, or none of its
\* concern, and leaves the fields settled.
LEMMA ReturnIsOperation ==
    ASSUME LocalOK, MutexSound, Exclusive, \A u \in Threads : InStep(u), Fields, TotalRead,
           NEW t \in Threads, Return(t)
    PROVE  Fields' /\ TotalRead' /\ [Ideal!Next]_(Ideal!vars)
<1>. USE ThreadsConstants
<1>. DEFINE call == Head(todo[t])
<1>1. /\ owner = t /\ stat[t] = "ready" /\ todo[t] # <<>> /\ phase[t] = "out"
      /\ phase' = [phase EXCEPT ![t] = "call"] /\ done' = Completed(t) /\ total_tmp' = 0
      /\ todo' = [todo EXCEPT ![t] = Rest(t)]
      /\ UNCHANGED <<res, sw_state, now_ms, last_lap, lap_ms, lap_count>>
  BY ReleaseEffect DEF Return, g_sw
<1>2. /\ sw_state \in {"IDLE", "RUNNING", "PAUSED"}
      /\ now_ms \in Millis /\ last_lap \in Millis /\ total_tmp \in Millis
      /\ lap_ms \in [Slots -> Millis] /\ lap_count \in 0..MAX_LAPS
      /\ last_lap <= now_ms
      /\ done \in [mode : {"IDLE", "RUNNING", "PAUSED"}, mark : Millis,
                   laps : Seq(Millis), seen : Millis]
      /\ Retained \in Seq(Millis) /\ 0 \in Millis
      /\ lap_count = 0 => Retained = <<>>
  <2>1. lap_ms \in [Slots -> Millis] /\ lap_count \in 0..MAX_LAPS
    BY DEF Fields, FieldsOK
  <2>2. Retained \in Seq(Millis) /\ Len(Retained) = lap_count
    BY <2>1, PrefixOfTable DEF Retained
  <2>. QED BY <2>2 DEF Fields, FieldsOK, Millis
<1>3. /\ done'.mode = sw_state /\ done'.mark = last_lap /\ done'.laps = Retained
      /\ done'.seen = CASE call = "get_total" -> res[t].total
                        [] call \in {"stop", "reset", "lap", "clear_laps"} -> total_tmp
                        [] OTHER -> done.seen
      /\ done' = [mode |-> sw_state, mark |-> last_lap, laps |-> Retained, seen |-> done'.seen]
  BY <1>1 DEF Completed, Retained
<1>4. Retained' = Retained
  BY <1>1 DEF Retained
<1>5. "shell" \in Threads /\ phase["shell"] \in {"mid", "out"} => t = "shell"
  BY <1>1 DEF Exclusive, InStep
<1>6. ~Writing("mid") /\ ~Writing("mid")' /\ ~Writing("out")'
  BY <1>1, <1>5 DEF Writing, LocalOK
<1>7. TotalRead'
  <2>1. ASSUME NEW u \in Threads, phase'[u] = "out" PROVE FALSE
    <3>1. u # t /\ phase[u] = "out"
      BY <1>1, <2>1 DEF LocalOK
    <3>2. stat[u] # "waiting"
      BY <3>1 DEF InStep
    <3>. QED BY <1>1, <3>1, <3>2 DEF Exclusive
  <2>. QED BY <2>1 DEF TotalRead
<1>8. ASSUME done'.seen \in Millis, done'.seen <= now_ms,
             sw_state # "RUNNING" => now_ms = done'.seen
      PROVE  Fields'
  <2>1. done' \in [mode : {"IDLE", "RUNNING", "PAUSED"}, mark : Millis,
                   laps : Seq(Millis), seen : Millis]
    BY <1>2, <1>3, <1>8
  <2>2. FieldsOK'
    BY <1>1, <1>2, <2>1 DEF FieldsOK
  <2>3. Settled'
    BY <1>1, <1>3, <1>4, <1>8 DEF Settled, Showable
  <2>. QED BY <1>6, <2>2, <2>3 DEF Fields, HalfWritten, Written
<1>. USE DEF Millis
<1>9. CASE Writing("out")
  <2>1. t = "shell" /\ call = Op /\ call \in Mutators
    BY <1>1, <1>5, <1>9 DEF Writing, Op
  <2>2. CASE Op = "start"
    <3>1. /\ sw_state = "RUNNING" /\ last_lap = done.mark
          /\ Retained = done.laps /\ done.seen <= now_ms
      BY <1>9, <2>2 DEF Fields, Written
    <3>2. done'.seen = done.seen
      BY <1>3, <2>1, <2>2
    <3>3. Fields'
      BY <1>2, <1>8, <3>1, <3>2
    <3>4. Ideal!Start \/ UNCHANGED Ideal!vars
      BY <1>3, <3>1, <3>2 DEF Ideal!Start, Ideal!vars
    <3>. QED BY <1>7, <3>3, <3>4 DEF Ideal!Next
  <2>3. CASE Op = "stop"
    <3>1. /\ sw_state = (IF done.mode = "RUNNING" THEN "PAUSED" ELSE done.mode)
          /\ last_lap = done.mark /\ Retained = done.laps
          /\ total_tmp = now_ms /\ Showable(total_tmp)
      BY <1>9, <2>3 DEF Fields, Written
    <3>2. done'.seen = total_tmp
      BY <1>3, <2>1, <2>3
    <3>3. Fields'
      BY <1>2, <1>8, <3>1, <3>2
    <3>4. Ideal!Stop \/ UNCHANGED Ideal!vars
      BY <1>2, <1>3, <3>1, <3>2 DEF Ideal!Stop, Ideal!vars, Ideal!Shown, Showable
    <3>. QED BY <1>7, <3>3, <3>4 DEF Ideal!Next
  <2>4. CASE Op = "reset"
    <3>1. /\ sw_state = (IF done.mode = "RUNNING" THEN "RUNNING" ELSE "IDLE")
          /\ last_lap = 0 /\ lap_count = 0 /\ total_tmp = 0 /\ Current(0)
      BY <1>9, <2>4 DEF Fields, Written
    <3>2. done'.seen = 0
      BY <1>3, <2>1, <2>4, <3>1
    <3>3. Fields'
      BY <1>2, <1>8, <3>1, <3>2 DEF Current
    <3>4. Ideal!Reset
      BY <1>2, <1>3, <3>1, <3>2 DEF Ideal!Reset
    <3>. QED BY <1>7, <3>3, <3>4 DEF Ideal!Next
  <2>5. CASE Op = "lap"
    <3>1. /\ sw_state = done.mode /\ last_lap = total_tmp
          /\ Retained = Ideal!Latest(Append(done.laps, total_tmp - done.mark))
          /\ Current(total_tmp) /\ Showable(total_tmp)
      BY <1>9, <2>5 DEF Fields, Written
    <3>2. done'.seen = total_tmp
      BY <1>3, <2>1, <2>5
    <3>3. Fields'
      BY <1>2, <1>8, <3>1, <3>2 DEF Current
    <3>4. Ideal!Lap
      BY <1>2, <1>3, <3>1, <3>2 DEF Ideal!Lap, Ideal!Shown, Showable
    <3>. QED BY <1>7, <3>3, <3>4 DEF Ideal!Next
  <2>6. CASE Op = "clear_laps"
    <3>1. /\ sw_state = done.mode /\ last_lap = total_tmp /\ lap_count = 0
          /\ Current(total_tmp) /\ Showable(total_tmp)
      BY <1>9, <2>6 DEF Fields, Written
    <3>2. done'.seen = total_tmp
      BY <1>3, <2>1, <2>6
    <3>3. Fields'
      BY <1>2, <1>8, <3>1, <3>2 DEF Current
    <3>4. Ideal!ClearLaps
      BY <1>2, <1>3, <3>1, <3>2 DEF Ideal!ClearLaps, Ideal!Shown, Showable
    <3>. QED BY <1>7, <3>3, <3>4 DEF Ideal!Next
  <2>. QED BY <2>1, <2>2, <2>3, <2>4, <2>5, <2>6 DEF Mutators
<1>10. CASE ~Writing("out")
  <2>1. /\ done.mode = sw_state /\ done.mark = last_lap /\ done.laps = Retained
        /\ Showable(now_ms)
    BY <1>6, <1>10 DEF Fields, Settled
  <2>2. call \in Queries
    <3>1. todo[t] \in Remaining(t)
      BY DEF InStep
    <3>2. call \in Mutators \cup Queries /\ (call \in Mutators => t = "shell")
      BY <1>1, <3>1, TailShape DEF Follows
    <3>. QED BY <1>1, <1>10, <3>2 DEF Writing
  <2>3. CASE call = "get_total"
    <3>1. Current(res[t].total) /\ Showable(res[t].total) /\ res[t].total \in Millis
      BY <1>1, <2>3 DEF TotalRead, Calling, LocalOK, Results
    <3>2. done'.seen = res[t].total
      BY <1>3, <2>3
    <3>3. Fields'
      BY <1>2, <1>8, <3>1, <3>2 DEF Current
    <3>4. Ideal!Show
      BY <1>2, <1>3, <2>1, <3>1, <3>2 DEF Ideal!Show, Ideal!Shown, Showable
    <3>. QED BY <1>7, <3>3, <3>4 DEF Ideal!Next
  <2>4. CASE call # "get_total"
    <3>1. done'.seen = done.seen
      BY <1>3, <2>2, <2>4 DEF Queries
    <3>2. Fields'
      BY <1>2, <1>8, <2>1, <3>1 DEF Showable
    <3>3. UNCHANGED Ideal!vars
      BY <1>3, <2>1, <3>1 DEF Ideal!vars
    <3>. QED BY <1>7, <3>2, <3>3
  <2>. QED BY <2>3, <2>4
<1>. QED BY <1>9, <1>10

\* What holds between any two steps of the threads.
ServiceInv ==
    /\ MutexSound /\ Exclusive
    /\ LocalOK /\ \A t \in Threads : InStep(t)
    /\ Fields /\ TotalRead

\* The threads start in step, with nothing shown and nothing recorded.
LEMMA ServiceInit == ThreadsInit => ServiceInv /\ Ideal!Init
<1>. SUFFICES ASSUME ThreadsInit PROVE ServiceInv /\ Ideal!Init
  OBVIOUS
<1>. USE ThreadsConstants
<1>1. /\ MutexSound /\ stat = [t \in Threads |-> "sleeping"]
      /\ todo = [t \in Threads |-> <<>>] /\ phase = [t \in Threads |-> "call"]
      /\ res = [t \in Threads |-> NoResult]
      /\ total_tmp = 0 /\ sw_state = "IDLE" /\ now_ms = 0 /\ last_lap = 0
      /\ lap_ms = NoLaps /\ lap_count = 0
      /\ done = [mode |-> "IDLE", mark |-> 0, laps |-> <<>>, seen |-> 0]
  BY MutexInit DEF ThreadsInit, Init
<1>2. Exclusive
  BY <1>1 DEF Exclusive
<1>3. NoResult \in Results /\ Len(NoResult.laps) = 0 /\ NoResult.n = 0
  BY DEF NoResult, Results, Millis
<1>4. \A t \in Threads : <<>> \in Remaining(t)
  BY DEF Remaining
<1>5. LocalOK /\ \A t \in Threads : InStep(t)
  <2>1. LocalOK
    BY <1>1, <1>3, <1>4 DEF LocalOK
  <2>2. ASSUME NEW t \in Threads PROVE InStep(t)
    <3>1. todo[t] = <<>> /\ phase[t] = "call" /\ res[t] = NoResult /\ stat[t] = "sleeping"
      BY <1>1
    <3>2. \A c : ~Calling(t, c)
      BY <3>1 DEF Calling
    <3>. QED BY <1>3, <1>4, <3>1, <3>2 DEF InStep
  <2>. QED BY <2>1, <2>2
<1>6. ~Writing("mid") /\ ~Writing("out") /\ TotalRead
  BY <1>1 DEF Writing, TotalRead, Calling
<1>7. NoLaps \in [Slots -> Millis] /\ SubSeq(NoLaps, 1, 0) = <<>>
  BY PrefixOfTable DEF NoLaps, Millis
<1>8. Fields
  <2>1. done.mode = "IDLE" /\ done.mark = 0 /\ done.laps = <<>> /\ done.seen = 0
    BY <1>1
  <2>2. FieldsOK
    BY <1>1, <1>7 DEF FieldsOK, Millis
  <2>3. Settled
    BY <1>1, <1>7, <2>1 DEF Settled, Showable, Retained
  <2>. QED BY <1>6, <2>2, <2>3 DEF Fields, HalfWritten, Written
<1>9. Ideal!Init
  BY <1>1 DEF Ideal!Init
<1>. QED BY <1>1, <1>2, <1>5, <1>6, <1>8, <1>9 DEF ServiceInv

\* TotalRead, when neither readers, fields nor what has been shown change.
LEMMA TotalsKept ==
    ASSUME TotalRead, UNCHANGED <<g_sw, done>>,
           \A u \in Threads : phase'[u] = "out" =>
               phase[u] = "out" /\ todo'[u] = todo[u] /\ res'[u] = res[u]
    PROVE  TotalRead'
  BY DEF TotalRead, Calling, Current, Showable, g_sw

\* Every step of the threads keeps all of it, and is a step of the ideal lap timer
\* or invisible to it.
LEMMA ServiceStep ==
    ASSUME ServiceInv, [ThreadsNext]_tvars
    PROVE  ServiceInv' /\ [Ideal!Next]_(Ideal!vars)
<1>. USE DEF ServiceInv
<1>1. MutexSound'
  <2>1. [Next]_vars
    BY ThreadsStepMutex DEF tvars
  <2>. QED BY <2>1, MutexStep
<1>2. Exclusive'
  BY ExclusiveStep DEF LocalOK
<1>3. CASE UNCHANGED tvars
  <2>1. LocalOK' /\ \A t \in Threads : InStep(t)'
    BY <1>3, InStepKept DEF tvars, vars, local, LocalOK
  <2>2. Fields'
    BY <1>3, FieldsKept DEF tvars, local, Writing, Op
  <2>3. TotalRead'
    BY <1>3 DEF tvars, local, g_sw, TotalRead, Calling, Current, Showable
  <2>4. UNCHANGED Ideal!vars
    BY <1>3 DEF tvars, Ideal!vars
  <2>. QED BY <1>1, <1>2, <2>1, <2>2, <2>3, <2>4
<1>4. ASSUME NEW t \in Threads, Activate(t) \/ Enter(t) \/ Sleep(t)
      PROVE  ServiceInv' /\ [Ideal!Next]_(Ideal!vars)
  <2>1. LocalOK' /\ \A u \in Threads : InStep(u)'
    BY <1>4, ActivateInStep, EnterInStep, SleepInStep
  <2>2. Fields'
    BY <1>4, ReadersKeepFields
  <2>3. /\ UNCHANGED <<g_sw, done>>
        /\ \A u \in Threads : phase'[u] = "out" =>
               phase[u] = "out" /\ todo'[u] = todo[u] /\ res'[u] = res[u]
    <3>1. ASSUME NEW u \in Threads, u # t
          PROVE  phase'[u] = phase[u] /\ todo'[u] = todo[u] /\ res'[u] = res[u]
      BY <1>4, <3>1 DEF Activate, Enter, Sleep, LocalOK
    <3>2. phase'[t] # "out"
      BY <1>4 DEF Activate, rt_timer_check, Enter, Sleep, LocalOK, InStep
    <3>. QED BY <1>4, <3>1, <3>2 DEF Activate, Enter, Sleep
  <2>4. TotalRead'
    BY <2>3, TotalsKept
  <2>5. UNCHANGED Ideal!vars
    BY <2>3 DEF Ideal!vars
  <2>. QED BY <1>1, <1>2, <2>1, <2>2, <2>4, <2>5
<1>5. ASSUME NEW t \in Threads, Query(t) PROVE ServiceInv' /\ [Ideal!Next]_(Ideal!vars)
  <2>1. LocalOK' /\ \A u \in Threads : InStep(u)'
    BY <1>5, QueryInStep DEF Fields
  <2>2. Fields' /\ TotalRead'
    BY <1>5, ReadersKeepFields, QueryKeepsTotals
  <2>3. UNCHANGED Ideal!vars
    BY <1>5 DEF Query, Ideal!vars
  <2>. QED BY <1>1, <1>2, <2>1, <2>2, <2>3
<1>6. ASSUME NEW t \in Threads, BeginWrite(t) \/ EndWrite(t)
      PROVE  ServiceInv' /\ [Ideal!Next]_(Ideal!vars)
  <2>1. LocalOK' /\ \A u \in Threads : InStep(u)'
    BY <1>6, WriteInStep
  <2>2. Fields' /\ TotalRead'
    BY <1>6, BeginKeepsFields, EndKeepsFields
  <2>3. UNCHANGED Ideal!vars
    BY <1>6 DEF BeginWrite, EndWrite, Ideal!vars
  <2>. QED BY <1>1, <1>2, <2>1, <2>2, <2>3
<1>7. ASSUME NEW t \in Threads, Return(t) PROVE ServiceInv' /\ [Ideal!Next]_(Ideal!vars)
  BY <1>1, <1>2, <1>7, ReturnInStep, ReturnIsOperation
<1>8. ASSUME Elapse PROVE ServiceInv' /\ [Ideal!Next]_(Ideal!vars)
  <2>1. LocalOK' /\ \A u \in Threads : InStep(u)'
    BY <1>8, InStepKept DEF Elapse, vars, local, LocalOK
  <2>2. Fields' /\ TotalRead'
    BY <1>8, ElapseKeepsFields
  <2>3. UNCHANGED Ideal!vars
    BY <1>8 DEF Elapse, Ideal!vars
  <2>. QED BY <1>1, <1>2, <2>1, <2>2, <2>3
<1>. QED BY <1>3, <1>4, <1>5, <1>6, <1>7, <1>8 DEF ThreadsNext, ThreadStep

\* The whole of it holds throughout.
LEMMA ServiceAlways == ThreadsSpec => []ServiceInv
<1>1. ServiceInv /\ [ThreadsNext]_tvars => ServiceInv'
  BY ServiceStep
<1>. QED BY <1>1, ServiceInit, PTL DEF ThreadsSpec

\* At most one thread is inside the service, however they interleave: the static
\* variables of timebase_get_us are never re-entered.
THEOREM MutualExclusionCorrect == ThreadsSpec => []MutualExclusion
<1>1. ServiceInv => MutualExclusion
  BY DEF ServiceInv, Exclusive, MutualExclusion
<1>. QED BY <1>1, ServiceAlways, PTL

\* The threads implement the ideal lap timer: each call of the service takes effect
\* as one of its operations, at the moment it releases the lock.
THEOREM CallsAtomic == ThreadsSpec => AtomicCalls
<1>1. ServiceInv /\ [ThreadsNext]_tvars => [Ideal!Next]_(Ideal!vars)
  BY ServiceStep
<1>2. ThreadsInit => Ideal!Init
  BY ServiceInit
<1>. QED BY <1>1, <1>2, ServiceAlways, PTL DEF ThreadsSpec, AtomicCalls, Ideal!Spec

-----------------------------------------------------------------------------
(* Readers of several calls.                                               *)

\* One more lap of the table.
LEMMA PrefixExtended ==
    ASSUME NEW f \in [Slots -> Millis], NEW n \in 0..MAX_LAPS-1
    PROVE  Append(SubSeq(f, 1, n), f[n + 1]) = SubSeq(f, 1, n + 1)
<1>. DEFINE a == Append(SubSeq(f, 1, n), f[n + 1])
            b == SubSeq(f, 1, n + 1)
            s == SubSeq(f, 1, n)
<1>1. /\ n \in Nat /\ n \in 0..MAX_LAPS /\ n + 1 \in 0..MAX_LAPS /\ f[n + 1] \in Millis
      /\ \A i \in 1..n+1 : i = n + 1 \/ i \in 1..n
  BY ThreadsConstants DEF Slots
<1>2. s \in Seq(Millis) /\ Len(s) = n /\ \A i \in 1..n : s[i] = f[i]
  BY <1>1, PrefixOfTable
<1>3. b \in Seq(Millis) /\ Len(b) = n + 1 /\ \A i \in 1..n+1 : b[i] = f[i]
  BY <1>1, PrefixOfTable
<1>. HIDE DEF b, s
<1>4. a = Append(s, f[n + 1])
  BY DEF s
<1>. HIDE DEF a
<1>5. a \in Seq(Millis) /\ Len(a) = n + 1 /\ a[n + 1] = f[n + 1] /\ \A i \in 1..n : a[i] = s[i]
  BY <1>1, <1>2, <1>4
<1>6. \A i \in 1..n+1 : a[i] = b[i]
  BY <1>1, <1>2, <1>3, <1>5
<1>7. a = b
  BY <1>3, <1>5, <1>6, SeqEqual
<1>. QED BY <1>7 DEF a, b

\* Only the shell changes the lap table, and not while it reads it.
LEMMA StatusStep ==
    ASSUME ServiceInv, StatusInv, [ThreadsNext]_tvars
    PROVE  StatusInv'
<1>. USE ThreadsConstants DEF ServiceInv
<1>0. SUFFICES ASSUME "shell" \in Threads, res'["shell"].n > 0
               PROVE  /\ res'["shell"].n = lap_count'
                      /\ res'["shell"].laps = SubSeq(lap_ms', 1, Len(res'["shell"].laps))
                      /\ todo'["shell"] = <<>> => Len(res'["shell"].laps) = lap_count'
  BY DEF StatusInv
<1>. DEFINE sh == "shell"
            Goal == /\ res'["shell"].n = lap_count'
                    /\ res'["shell"].laps = SubSeq(lap_ms', 1, Len(res'["shell"].laps))
                    /\ todo'["shell"] = <<>> => Len(res'["shell"].laps) = lap_count'
<1>1. /\ todo[sh] \in Remaining(sh) /\ InStep(sh) /\ res[sh] \in Results
      /\ lap_ms \in [Slots -> Millis] /\ lap_count \in 0..MAX_LAPS
  BY <1>0 DEF InStep, Fields, FieldsOK
<1>2. ASSUME res'[sh] = res[sh], UNCHANGED <<lap_ms, lap_count>>,
             todo'[sh] = <<>> => todo[sh] = <<>>
      PROVE  Goal
  BY <1>0, <1>2 DEF StatusInv
<1>3. CASE UNCHANGED tvars \/ Elapse
  BY <1>2, <1>3 DEF tvars, Elapse, local, g_sw
<1>4. ASSUME NEW t \in Threads, Activate(t) PROVE Goal
  <2>1. PICK p \in Programs(t) : todo' = [todo EXCEPT ![t] = p]
    BY <1>4 DEF Activate
  <2>2. p # <<>>
    BY ProgramsShape
  <2>. QED BY <1>0, <1>2, <1>4, <2>1, <2>2 DEF Activate, g_sw, LocalOK
<1>5. ASSUME NEW t \in Threads, Enter(t) PROVE Goal
  BY <1>2, <1>5 DEF Enter, g_sw
<1>6. ASSUME NEW t \in Threads, Sleep(t) PROVE Goal
  <2>1. CASE t = sh
    <3>1. res'[sh].n = 0
      BY <1>0, <1>6, <2>1 DEF Sleep, LocalOK, NoResult
    <3>. QED BY <1>0, <3>1
  <2>2. CASE t # sh
    BY <1>0, <1>2, <1>6, <2>2 DEF Sleep, LocalOK, g_sw
  <2>. QED BY <2>1, <2>2
<1>7. ASSUME NEW t \in Threads, Query(t) PROVE Goal
  <2>1. /\ UNCHANGED <<todo, lap_ms, lap_count>> /\ todo[t] # <<>> /\ phase[t] = "in"
        /\ Head(todo[t]) \in Queries /\ res' = [res EXCEPT ![t] = res'[t]]
    BY <1>7, QueryEffect DEF Fields, g_sw
  <2>2. CASE t # sh
    BY <1>0, <1>2, <2>1, <2>2 DEF LocalOK
  <2>3. CASE t = sh /\ Head(todo[sh]) \in {"get_state", "get_total"}
    <3>1. res'[sh].n = 0
      BY <1>1, <1>7, <2>1, <2>3, QueryEffect DEF InStep, Calling, Fields
    <3>. QED BY <1>0, <3>1
  <2>4. CASE t = sh /\ Head(todo[sh]) = "get_lap_count"
    <3>1. res'[sh].n = lap_count /\ res'[sh].laps = res[sh].laps
      BY <1>7, <2>4, QueryEffect DEF Fields
    <3>2. res[sh].laps = <<>>
      BY <1>1, <2>1, <2>4 DEF InStep, Calling
    <3>3. Len(res'[sh].laps) = 0
      BY <3>1, <3>2
    <3>4. SubSeq(lap_ms, 1, 0) = <<>>
      BY <1>1, PrefixOfTable
    <3>. QED BY <2>1, <2>4, <3>1, <3>2, <3>3, <3>4
  <2>5. CASE t = sh /\ Head(todo[sh]) = "get_lap"
    <3>. DEFINE n == Len(res[sh].laps)
                i == n + 1
    <3>1. /\ res'[sh].n = res[sh].n
          /\ res'[sh].laps = Append(res[sh].laps, IF i <= lap_count THEN lap_ms[i] ELSE 0)
      BY <1>7, <2>5, QueryEffect DEF Fields
    <3>2. /\ n < res[sh].n /\ n \in Nat /\ res[sh].n \in 0..MAX_LAPS
          /\ res[sh].laps \in Seq(Millis)
      BY <1>1, <2>1, <2>5 DEF InStep, Calling, Results
    <3>3. /\ res[sh].n = lap_count /\ res[sh].laps = SubSeq(lap_ms, 1, n)
      BY <1>0, <3>1 DEF StatusInv
    <3>4. i <= lap_count /\ n \in 0..MAX_LAPS-1
      BY <3>2, <3>3
    <3>5. res'[sh].laps = SubSeq(lap_ms, 1, i)
      BY <1>1, <3>1, <3>3, <3>4, PrefixExtended
    <3>6. Len(res'[sh].laps) = i
      BY <3>1, <3>2
    <3>. HIDE DEF n, i
    <3>. QED BY <2>1, <2>5, <3>1, <3>3, <3>5, <3>6
  <2>6. Head(todo[sh]) # "get_latest_lap" \/ t # sh
    <3>1. todo[sh] \in Remaining("shell")
      BY <1>1
    <3>2. \A c \in Remaining("shell") : c # <<>> => Head(c) # "get_latest_lap"
      BY DEF Remaining, sw_status, Mutators
    <3>. QED BY <2>1, <3>1, <3>2
  <2>. QED BY <2>1, <2>2, <2>3, <2>4, <2>5, <2>6 DEF Queries
<1>8. ASSUME NEW t \in Threads, BeginWrite(t) \/ EndWrite(t) PROVE Goal
  <2>1. t = "shell" /\ todo["shell"] # <<>> /\ Head(todo["shell"]) \in Mutators
    BY <1>8, WriteInStep
  <2>2. res'[sh] = res[sh] /\ res[sh].n = 0
    BY <1>1, <1>8, <2>1 DEF BeginWrite, EndWrite, InStep, Calling
  <2>. QED BY <1>0, <2>2
<1>9. ASSUME NEW t \in Threads, Return(t) PROVE Goal
  <2>1. /\ todo' = [todo EXCEPT ![t] = Rest(t)] /\ UNCHANGED <<res, lap_ms, lap_count>>
        /\ todo[t] # <<>> /\ phase[t] = "out"
    BY <1>9 DEF Return, g_sw
  <2>2. CASE t # sh \/ Rest(t) # <<>>
    BY <1>0, <1>2, <2>1, <2>2 DEF LocalOK
  <2>3. CASE t = sh /\ Rest(t) = <<>>
    <3>1. res[sh].n = lap_count /\ res[sh].laps = SubSeq(lap_ms, 1, Len(res[sh].laps))
      BY <1>0, <2>1 DEF StatusInv
    <3>2. Follows(sh, todo[sh])
      BY <1>0, <1>1, <2>1, <2>3, TailShape
    <3>3. Head(todo[sh]) \in {"get_lap", "get_latest_lap"}
      BY <1>0, <1>1, <2>1, <2>3, <3>2 DEF Follows, InStep, Calling, Rest, Queries
    <3>4. Head(todo[sh]) # "get_latest_lap"
      <4>1. \A c \in Remaining("shell") : c # <<>> => Head(c) # "get_latest_lap"
        BY DEF Remaining, sw_status, Mutators
      <4>. QED BY <1>1, <2>1, <2>3, <4>1
    <3>5. ~(Len(res[sh].laps) < res[sh].n)
      BY <2>1, <2>3, <3>3, <3>4 DEF Rest
    <3>6. Len(res[sh].laps) <= res[sh].n /\ Len(res[sh].laps) \in Nat /\ res[sh].n \in Nat
      BY <1>1 DEF InStep, Results
    <3>. QED BY <2>1, <3>1, <3>5, <3>6
  <2>. QED BY <2>2, <2>3
<1>. QED BY <1>3, <1>4, <1>5, <1>6, <1>7, <1>8, <1>9 DEF ThreadsNext, ThreadStep

\* While the timer thread is awake the shell runs only as the owner of the lock.
LEMMA ShellKeptOut ==
    ASSUME FirmwarePriorities,
           MutexSound, "timer" \in Threads, "shell" \in Threads, owner # "shell",
           stat["timer"] # "sleeping", Running("shell")
    PROVE  FALSE
<1>. USE MutexConstants
<1>1. /\ current_priority["shell"] = init_priority["shell"]
      /\ init_priority["timer"] < init_priority["shell"]
      /\ current_priority["timer"] <= init_priority["timer"]
      /\ current_priority \in [Threads -> Nat]
  BY DEF FirmwarePriorities, MutexSound, Restored, TypeOK
<1>2. CASE stat["timer"] = "ready"
  BY <1>1, <1>2 DEF Running
<1>3. CASE stat["timer"] = "waiting"
  <2>1. "timer" \in Waiters /\ owner \in Threads /\ stat[owner] = "ready"
    <3>1. "timer" \in Waiters
      BY <1>3 DEF MutexSound, Consistent
    <3>2. suspend_thread # <<>>
      BY <3>1 DEF Waiters
    <3>. QED BY <3>1, <3>2 DEF MutexSound, Consistent, TypeOK
  <2>2. current_priority[owner] <= current_priority["timer"]
    BY <2>1 DEF MutexSound, Inherited
  <2>3. current_priority["shell"] <= current_priority[owner]
    BY <2>1 DEF Running
  <2>. QED BY <1>1, <2>1, <2>2, <2>3
<1>. QED BY <1>2, <1>3 DEF MutexSound, TypeOK, Stats

\* When the timer thread gives up the lock the shell, if it waits, gets it.
LEMMA ShellServed ==
    ASSUME FirmwarePriorities,
           MutexSound, "timer" \in Threads, "shell" \in Threads,
           ReleaseFree("timer") \/ ReleaseHandOver("timer")
    PROVE  stat'["shell"] # "waiting"
<1>. USE MutexConstants
<1>1. /\ stat["timer"] = "ready" /\ owner = "timer"
      /\ \/ owner' = NoThread /\ stat' = stat /\ suspend_thread = <<>>
         \/ \E h \in Threads : /\ stat[h] = "waiting" /\ h = suspend_thread[1]
                               /\ suspend_thread # <<>> /\ owner' = h
                               /\ stat' = [stat EXCEPT ![h] = "ready"]
  BY ReleaseEffect
<1>2. suspend_thread \in Seq(Threads) /\ stat \in [Threads -> Stats]
  BY DEF MutexSound, TypeOK
<1>3. CASE suspend_thread = <<>> /\ stat' = stat
  <2>1. "shell" \notin Waiters
    BY <1>3 DEF Waiters
  <2>. QED BY <1>3, <2>1 DEF MutexSound, Consistent
<1>4. ASSUME NEW h \in Threads, stat[h] = "waiting", h = suspend_thread[1],
             suspend_thread # <<>>, stat' = [stat EXCEPT ![h] = "ready"],
             stat["shell"] = "waiting"
      PROVE  h = "shell"
  <2>1. "shell" \in Waiters
    BY <1>4 DEF MutexSound, Consistent
  <2>2. PICK i \in 1..Len(suspend_thread) : suspend_thread[i] = "shell"
    BY <2>1 DEF Waiters
  <2>3. i = 1 \/ current_priority[h] <= current_priority["shell"]
    <3>1. 1 \in 1..Len(suspend_thread) /\ (i = 1 \/ 1 < i)
      BY <1>2, <2>2
    <3>. QED BY <1>4, <2>2, <3>1 DEF MutexSound, Inherited
  <2>4. current_priority[h] = init_priority[h] /\ current_priority["shell"] = init_priority["shell"]
    BY <1>1, <1>4 DEF MutexSound, Restored
  <2>5. h # "timer"
    BY <1>1, <1>4
  <2>6. h # "shell" => init_priority["shell"] < init_priority[h]
    BY <2>5 DEF FirmwarePriorities
  <2>. QED BY <1>4, <2>2, <2>3, <2>4, <2>6
<1>. QED BY <1>1, <1>2, <1>3, <1>4

\* A lock that is released does not go to a thread that is not waiting for it.
LEMMA NotHanded ==
    ASSUME MutexSound, NEW t \in Threads, ReleaseFree(t) \/ ReleaseHandOver(t),
           NEW u \in Threads, stat[u] # "waiting"
    PROVE  owner' # u /\ stat'[u] # "waiting"
<1>1. \/ owner' = NoThread /\ stat' = stat
      \/ \E h \in Threads : /\ stat[h] = "waiting" /\ owner' = h
                            /\ stat' = [stat EXCEPT ![h] = "ready"]
  BY ReleaseEffect
<1>2. stat \in [Threads -> Stats] /\ NoThread \notin Threads
  BY MutexConstants DEF MutexSound, TypeOK
<1>. QED BY <1>1, <1>2

\* The timer thread's calls.
LEMMA TimerCalls ==
    ASSUME NEW c \in Remaining("timer"), c # <<>>
    PROVE  \/ Head(c) = "get_total"
           \/ Head(c) = "get_lap_count" /\ Tail(c) = <<"get_latest_lap">>
           \/ Head(c) = "get_latest_lap" /\ Tail(c) = <<>>
<1>. USE DEF Remaining, csv_timer_cb
<1>1. CASE c = csv_timer_cb
  BY <1>1
<1>2. CASE c = <<"get_lap_count", "get_latest_lap">>
  BY <1>2
<1>3. CASE c = <<"get_latest_lap">>
  BY <1>3
<1>. QED BY <1>1, <1>2, <1>3

\* Between the timer thread's reading of the lap count and the printing of the row
\* the lock may go to others, never to the shell.
LEMMA RowStep ==
    ASSUME FirmwarePriorities, ServiceInv, RowInv, [ThreadsNext]_tvars
    PROVE  RowInv'
<1>. USE ThreadsConstants DEF ServiceInv
<1>. DEFINE ti == "timer"
            Asked == Calling(ti, "get_lap_count") \/ CountRead
            W == "shell" \in Threads /\ Asked => stat["shell"] # "waiting"
            O == "shell" \in Threads /\ CountRead => owner # "shell"
            R == CountRead => /\ res[ti].n = lap_count
                              /\ LatestRead => res[ti].laps = <<lap_ms[lap_count]>>
<1>0. SUFFICES ASSUME ti \in Threads PROVE W' /\ O' /\ R'
  BY DEF RowInv
<1>1. W /\ O /\ R
  BY <1>0 DEF RowInv
<1>2. /\ InStep(ti) /\ todo[ti] \in Remaining(ti) /\ res[ti] \in Results
      /\ stat \in [Threads -> Stats] /\ lap_count \in 0..MAX_LAPS
      /\ res \in [Threads -> Results]
  BY <1>0 DEF InStep, MutexSound, TypeOK, Fields, FieldsOK, LocalOK
<1>3. Asked => stat[ti] # "sleeping"
  <2>1. stat[ti] = "sleeping" => todo[ti] = <<>> /\ res[ti] = NoResult
    BY <1>2 DEF InStep
  <2>2. NoResult.n = 0
    BY DEF NoResult
  <2>. QED BY <2>1, <2>2 DEF Calling, CountRead
<1>4. ASSUME todo'[ti] = todo[ti], phase'[ti] = phase[ti], res'[ti] = res[ti]
      PROVE  (Asked' <=> Asked) /\ (CountRead' <=> CountRead) /\ (LatestRead' <=> LatestRead)
  BY <1>4 DEF Calling, CountRead, LatestRead
<1>5. CASE UNCHANGED tvars \/ Elapse
  <2>1. UNCHANGED <<todo, phase, res, stat, owner, lap_ms, lap_count>>
    BY <1>5 DEF tvars, Elapse, vars, local, g_sw, mutexvars
  <2>. QED BY <1>1, <1>4, <2>1
<1>6. ASSUME NEW t \in Threads, Activate(t) PROVE W' /\ O' /\ R'
  <2>1. PICK p \in Programs(t) : todo' = [todo EXCEPT ![t] = p]
    BY <1>6 DEF Activate
  <2>2. /\ UNCHANGED <<phase, res, owner, lap_ms, lap_count>>
        /\ stat' = [stat EXCEPT ![t] = "ready"] /\ stat[t] = "sleeping"
    BY <1>2, <1>6 DEF Activate, rt_timer_check, g_sw, mutexvars
  <2>3. CASE t = ti
    <3>1. p = csv_timer_cb
      BY <2>3 DEF Programs
    <3>2. Head(csv_timer_cb) = "get_total" /\ csv_timer_cb # <<>>
      BY DEF csv_timer_cb
    <3>3. todo'[ti] = csv_timer_cb
      BY <2>1, <2>3, <3>1 DEF LocalOK
    <3>4. ~Asked'
      BY <3>2, <3>3 DEF Calling, CountRead
    <3>. QED BY <3>4
  <2>4. CASE t # ti
    <3>1. todo'[ti] = todo[ti]
      BY <1>0, <2>1, <2>4 DEF LocalOK
    <3>2. "shell" \in Threads => (stat'["shell"] = "waiting" => stat["shell"] = "waiting")
      BY <1>2, <2>2
    <3>. QED BY <1>1, <1>4, <2>2, <3>1, <3>2
  <2>. QED BY <2>3, <2>4
<1>7. ASSUME NEW t \in Threads, Enter(t) PROVE W' /\ O' /\ R'
  <2>1. /\ UNCHANGED <<todo, res, lap_ms, lap_count>> /\ phase' = [phase EXCEPT ![t] = "in"]
        /\ Running(t) /\ todo[t] # <<>> /\ phase[t] = "call"
    BY <1>7 DEF Enter, g_sw, TakeFree, TakeHeld
  <2>2. /\ stat[t] = "ready" /\ owner # t
        /\ \/ owner' = t /\ stat' = stat
           \/ owner' = owner /\ stat' = [stat EXCEPT ![t] = "waiting"]
    BY <1>7, TakeEffect DEF Enter
  <2>3. CASE t = ti
    <3>1. (Asked' => Asked) /\ (CountRead' => CountRead) /\ ~LatestRead'
      BY <2>1, <2>3 DEF Calling, CountRead, LatestRead, LocalOK
    <3>2. "shell" \in Threads => stat'["shell"] = stat["shell"] /\ (owner' = "shell" => owner = "shell")
      BY <1>2, <2>2, <2>3
    <3>. QED BY <1>1, <2>1, <3>1, <3>2
  <2>4. CASE t = "shell"
    <3>1. ~Asked
      BY <1>0, <1>3, <2>1, <2>2, <2>4, ShellKeptOut
    <3>2. phase'[ti] = phase[ti]
      BY <1>0, <2>1, <2>4 DEF LocalOK
    <3>3. ~Asked'
      BY <1>4, <2>1, <3>1, <3>2
    <3>. QED BY <3>3
  <2>5. CASE t \notin {ti, "shell"}
    <3>1. phase'[ti] = phase[ti]
      BY <1>0, <2>1, <2>5 DEF LocalOK
    <3>2. "shell" \in Threads => stat'["shell"] = stat["shell"] /\ (owner' = "shell" => owner = "shell")
      BY <1>2, <2>2, <2>5
    <3>. QED BY <1>1, <1>4, <2>1, <3>1, <3>2
  <2>. QED BY <2>3, <2>4, <2>5
<1>8. ASSUME NEW t \in Threads, Sleep(t) PROVE W' /\ O' /\ R'
  <2>1. /\ UNCHANGED <<todo, phase, owner, lap_ms, lap_count>> /\ todo[t] = <<>>
        /\ res' = [res EXCEPT ![t] = NoResult] /\ stat' = [stat EXCEPT ![t] = "sleeping"]
    BY <1>8 DEF Sleep, rt_thread_sleep, mutexvars, g_sw
  <2>2. CASE t = ti
    <3>1. res'[ti].n = 0
      BY <1>2, <2>1, <2>2 DEF NoResult
    <3>2. ~Asked'
      BY <2>1, <2>2, <3>1 DEF Calling, CountRead
    <3>. QED BY <3>2
  <2>3. CASE t # ti
    <3>1. res'[ti] = res[ti]
      BY <1>0, <1>2, <2>1, <2>3
    <3>2. "shell" \in Threads => (stat'["shell"] = "waiting" => stat["shell"] = "waiting")
      BY <1>2, <2>1
    <3>. QED BY <1>1, <1>4, <2>1, <3>1, <3>2
  <2>. QED BY <2>2, <2>3
<1>9. ASSUME NEW t \in Threads, Query(t) PROVE W' /\ O' /\ R'
  <2>1. /\ UNCHANGED <<stat, owner, todo, lap_ms, lap_count>> /\ todo[t] # <<>> /\ phase[t] = "in"
        /\ stat[t] = "ready"
        /\ phase' = [phase EXCEPT ![t] = "out"] /\ res' = [res EXCEPT ![t] = res'[t]]
    BY <1>9, QueryEffect DEF Fields, g_sw, vars, mutexvars
  <2>2. CASE t # ti
    <3>1. phase'[ti] = phase[ti] /\ res'[ti] = res[ti]
      BY <1>0, <1>2, <2>1, <2>2 DEF LocalOK
    <3>. QED BY <1>1, <1>4, <2>1, <3>1
  <2>3. CASE t = ti
    <3>1. owner = ti
      BY <2>1, <2>3 DEF Exclusive
    <3>2. CASE Head(todo[ti]) = "get_total"
      <4>1. res'[ti].n = 0
        BY <1>2, <1>9, <2>1, <2>3, <3>2, QueryEffect DEF InStep, Calling, Fields
      <4>2. ~Asked'
        BY <2>1, <3>2, <4>1 DEF Calling, CountRead
      <4>. QED BY <4>2
    <3>3. CASE Head(todo[ti]) = "get_lap_count"
      <4>1. res'[ti].n = lap_count
        BY <1>9, <2>3, <3>3, QueryEffect DEF Fields
      <4>2. Asked /\ ~LatestRead'
        BY <2>1, <2>3, <3>3 DEF Calling, LatestRead
      <4>. QED BY <1>1, <2>1, <3>1, <4>1, <4>2
    <3>4. CASE Head(todo[ti]) = "get_latest_lap"
      <4>1. /\ res'[ti].n = res[ti].n
            /\ res'[ti].laps = <<IF lap_count > 0 THEN lap_ms[lap_count] ELSE 0>>
        BY <1>9, <2>3, <3>4, QueryEffect DEF Fields
      <4>2. res[ti].n > 0
        BY <1>2, <2>1, <2>3, <3>4 DEF InStep, Calling
      <4>3. CountRead
        BY <2>1, <2>3, <3>4, <4>2 DEF Calling, CountRead
      <4>4. res[ti].n = lap_count /\ res'[ti].laps = <<lap_ms[lap_count]>>
        BY <1>1, <4>1, <4>2, <4>3
      <4>. QED BY <1>1, <2>1, <3>1, <4>1, <4>3, <4>4
    <3>. QED BY <1>2, <2>1, <2>3, <3>2, <3>3, <3>4, TimerCalls
  <2>. QED BY <2>2, <2>3
<1>10. ASSUME NEW t \in Threads, BeginWrite(t) \/ EndWrite(t) PROVE W' /\ O' /\ R'
  <2>1. t = "shell"
    BY <1>10, WriteInStep
  <2>2. /\ UNCHANGED <<stat, owner, todo, res>> /\ phase[t] # "call" /\ stat[t] = "ready"
        /\ phase'[ti] = phase[ti]
    BY <1>0, <1>10, <2>1 DEF BeginWrite, EndWrite, Inside, Running, vars, mutexvars, LocalOK
  <2>3. owner = "shell"
    BY <2>1, <2>2 DEF Exclusive
  <2>4. ~CountRead
    BY <1>1, <2>1, <2>3
  <2>. QED BY <1>1, <1>4, <2>2, <2>4
<1>11. ASSUME NEW t \in Threads, Return(t) PROVE W' /\ O' /\ R'
  <2>1. /\ UNCHANGED <<res, lap_ms, lap_count>> /\ todo[t] # <<>> /\ phase[t] = "out"
        /\ todo' = [todo EXCEPT ![t] = Rest(t)] /\ phase' = [phase EXCEPT ![t] = "call"]
        /\ ReleaseFree(t) \/ ReleaseHandOver(t)
    BY <1>11 DEF Return, g_sw
  <2>2. "shell" \in Threads /\ stat["shell"] # "waiting" =>
           owner' # "shell" /\ stat'["shell"] # "waiting"
    BY <2>1, NotHanded
  <2>3. CASE t # ti
    <3>1. todo'[ti] = todo[ti] /\ phase'[ti] = phase[ti]
      BY <1>0, <2>1, <2>3 DEF LocalOK
    <3>2. (Asked' <=> Asked) /\ (CountRead' <=> CountRead) /\ (LatestRead' <=> LatestRead)
      BY <1>4, <2>1, <3>1
    <3>. QED BY <1>1, <2>1, <2>2, <3>2
  <2>4. CASE t = ti
    <3>0. todo'[ti] = Rest(ti) /\ phase'[ti] = "call"
      BY <2>1, <2>4 DEF LocalOK
    <3>1. CASE Head(todo[ti]) = "get_total"
      <4>1. res[ti].n = 0
        BY <1>2, <2>1, <2>4, <3>1 DEF InStep, Calling
      <4>2. ~CountRead'
        BY <2>1, <4>1 DEF CountRead
      <4>3. "shell" \in Threads => stat'["shell"] # "waiting"
        BY <1>0, <2>1, <2>4, ShellServed
      <4>. QED BY <4>2, <4>3
    <3>2. CASE Head(todo[ti]) = "get_lap_count" /\ res[ti].n = 0
      <4>1. Rest(ti) = <<>>
        BY <3>2 DEF Rest
      <4>2. ~Asked'
        BY <2>1, <3>0, <3>2, <4>1 DEF CountRead, Calling
      <4>. QED BY <4>2
    <3>3. CASE Head(todo[ti]) = "get_lap_count" /\ res[ti].n # 0
      <4>1. Rest(ti) = Tail(todo[ti])
        BY <3>3 DEF Rest
      <4>2. Tail(todo[ti]) = <<"get_latest_lap">>
        BY <1>2, <2>1, <2>4, <3>3, TimerCalls
      <4>3. res[ti].n > 0
        BY <1>2, <3>3 DEF Results
      <4>4. CountRead /\ ~LatestRead'
        BY <2>1, <2>4, <3>0, <3>3, <4>1, <4>2, <4>3 DEF CountRead, Calling, LatestRead
      <4>. QED BY <1>1, <2>1, <2>2, <4>4
    <3>4. CASE Head(todo[ti]) = "get_latest_lap"
      <4>1. res[ti].n > 0
        BY <1>2, <2>1, <2>4, <3>4 DEF InStep, Calling
      <4>2. CountRead /\ LatestRead
        BY <2>1, <2>4, <3>4, <4>1 DEF CountRead, Calling, LatestRead
      <4>. QED BY <1>1, <2>1, <2>2, <4>2
    <3>. QED BY <1>2, <2>1, <2>4, <3>1, <3>2, <3>3, <3>4, TimerCalls
  <2>. QED BY <2>3, <2>4
<1>. QED BY <1>5, <1>6, <1>7, <1>8, <1>9, <1>10, <1>11 DEF ThreadsNext, ThreadStep

\* Readers start with nothing read.
LEMMA ReadersInit == ThreadsInit => StatusInv /\ RowInv
<1>. SUFFICES ASSUME ThreadsInit PROVE StatusInv /\ RowInv
  OBVIOUS
<1>1. /\ res = [t \in Threads |-> NoResult] /\ todo = [t \in Threads |-> <<>>]
      /\ NoResult.n = 0
  BY DEF ThreadsInit, NoResult
<1>2. \A t \in Threads : ~(res[t].n > 0) /\ todo[t] = <<>>
  BY <1>1
<1>3. StatusInv
  BY <1>2 DEF StatusInv
<1>4. RowInv
  BY <1>2 DEF RowInv, CountRead, Calling
<1>. QED BY <1>3, <1>4

\* What a thread may have left to call is a sequence of calls of the service.
LEMMA RemainingCalls ==
    ASSUME NEW t \in Threads
    PROVE  Remaining(t) \subseteq Seq(Mutators \cup Queries)
<1>. DEFINE C == Mutators \cup Queries
<1>. SUFFICES ASSUME NEW p \in Remaining(t) PROVE p \in Seq(C)
  OBVIOUS
<1>1. /\ \A c \in Mutators : c \in C
      /\ {"get_state", "get_total", "get_lap_count", "get_latest_lap", "get_lap"} \subseteq C
  BY DEF Queries
<1>. HIDE DEF C
<1>5. /\ <<>> \in Seq(C)
      /\ \A a \in C : <<a>> \in Seq(C)
      /\ \A a, b \in C : <<a, b>> \in Seq(C)
      /\ \A a, b, c \in C : <<a, b, c>> \in Seq(C)
      /\ \A a, b, c, d \in C : <<a, b, c, d>> \in Seq(C)
  OBVIOUS
<1>2. CASE \E m \in Mutators : p = <<m>>
  BY <1>1, <1>2
<1>3. CASE p \in {csv_timer_cb, <<"get_lap_count", "get_latest_lap">>, <<"get_latest_lap">>,
                  draw_main_page, draw_laps_page, indicator_led_entry, <<>>}
  <2>1. /\ csv_timer_cb \in Seq(C) /\ draw_main_page \in Seq(C)
        /\ draw_laps_page \in Seq(C) /\ indicator_led_entry \in Seq(C)
    BY <1>1, <1>5, Zenon DEF csv_timer_cb, draw_main_page, draw_laps_page, indicator_led_entry
  <2>2. <<"get_lap_count", "get_latest_lap">> \in Seq(C) /\ <<"get_latest_lap">> \in Seq(C)
    BY <1>1, <1>5, Zenon
  <2>. QED BY <1>3, <1>5, <2>1, <2>2, Zenon
<1>4. CASE p \in {sw_status, <<"get_total", "get_lap_count", "get_lap">>,
                  <<"get_lap_count", "get_lap">>, <<"get_lap">>, <<>>}
  <2>1. /\ sw_status \in Seq(C) /\ <<"get_total", "get_lap_count", "get_lap">> \in Seq(C)
        /\ <<"get_lap_count", "get_lap">> \in Seq(C) /\ <<"get_lap">> \in Seq(C)
    BY <1>1, <1>5, Zenon DEF sw_status
  <2>. QED BY <1>4, <1>5, <2>1, Zenon
<1>. QED BY <1>2, <1>3, <1>4, ThreadsConstants DEF Remaining

\* The whole of it holds throughout, with what the readers have put together.
LEMMA ReadersAlways ==
    FirmwarePriorities /\ ThreadsSpec => [](ServiceInv /\ StatusInv /\ RowInv)
<1>. DEFINE Inv == FirmwarePriorities /\ ServiceInv /\ StatusInv /\ RowInv
<1>1. Inv /\ [ThreadsNext]_tvars => Inv'
  BY ServiceStep, StatusStep, RowStep
<1>2. FirmwarePriorities /\ ThreadsInit => Inv
  BY ServiceInit, ReadersInit
<1>. QED BY <1>1, <1>2, PTL DEF ThreadsSpec

\* sw_status makes 3 + n calls and csv_timer_cb three, with the lock free or handed
\* over between any two of them, and yet the laps the one sums up are the lap table,
\* and the count and the lap the other prints belong together and are current:
\* given that the timer thread is more urgent than the others and the shell more
\* urgent than the rest, as the firmware creates them.
THEOREM ReadersCorrect == FirmwarePriorities /\ ThreadsSpec => []ReadersExact
<1>1. ASSUME ServiceInv, StatusInv, RowInv PROVE ReadersExact
  <2>. USE ThreadsConstants DEF ServiceInv
  <2>1. TypeOK /\ Fields /\ LocalOK /\ \A t \in Threads : InStep(t)
    BY <1>1 DEF MutexSound
  <2>2. todo \in [Threads -> Seq(Mutators \cup Queries)]
    <3>1. \A t \in Threads : todo[t] \in Seq(Mutators \cup Queries)
      BY <2>1, RemainingCalls DEF InStep
    <3>. QED BY <2>1, <3>1 DEF LocalOK
  <2>3. phase \in [Threads -> {"call", "in", "mid", "out"}]
    BY <2>1 DEF LocalOK, InStep
  <2>4. ASSUME NEW t \in Threads
        PROVE  /\ res[t].total \in 0..MaxMs /\ res[t].n \in 0..MAX_LAPS
               /\ Len(res[t].laps) <= MAX_LAPS
    <3>1. /\ res[t].total \in 0..MaxMs /\ res[t].n \in 0..MAX_LAPS
          /\ Len(res[t].laps) \in Nat /\ Len(res[t].laps) <= res[t].n
      BY <2>1 DEF InStep, Results, Millis
    <3>. QED BY <3>1
  <2>5. ThreadsTypeOK
    BY <2>1, <2>2, <2>3, <2>4 DEF ThreadsTypeOK, Fields, FieldsOK, Millis
  <2>6. StatusExact
    BY <1>1 DEF StatusInv, StatusExact
  <2>7. RowLapExact
    BY <1>1 DEF RowInv, RowLapExact, RowPrinted, CountRead, LatestRead
  <2>. QED BY <2>5, <2>6, <2>7 DEF ReadersExact
<1>. QED BY <1>1, ReadersAlways, PTL
=============================================================================
