--------------------------- MODULE SchedulerProofs ---------------------------
(***************************************************************************)
(* Proofs about the scheduler, for every finite set of threads, every      *)
(* assignment of priorities and time slices in which the idle thread is    *)
(* the last, every set of sleeping times and every width of the tick       *)
(* counter.                                                                *)
(***************************************************************************)
EXTENDS Scheduler, TimerListProofs

Stats == {"ready", "running", "suspend"}

Records == [stat: [Everyone -> Stats],
            yield: [Everyone -> BOOLEAN],
            current_priority: [Everyone -> Priorities],
            table: [Priorities -> Seq(Everyone)],
            group: SUBSET Priorities,
            current: Everyone,
            nest: 0..MaxNest]

\* The queues and the bitmap hold the threads of R, each once, in the queue of
\* its priority.
Tables(s, R) ==
    /\ \A p \in Priorities : /\ Members(s.table[p]) = {t \in R : s.current_priority[t] = p}
                             /\ Once(s.table[p])
    /\ s.group = {p \in Priorities : s.table[p] # <<>>}

Ready(s) == {t \in Everyone : s.stat[t] = "ready"}

\* What every kernel function leaves: exact queues, nobody but the current
\* thread runs, and the idle thread is always able to.
Good(s) ==
    /\ s \in Records
    /\ Tables(s, Ready(s))
    /\ \A t \in Everyone : s.stat[t] = "running" => t = s.current
    /\ s.stat[s.current] # "ready"
    /\ s.stat[idle] # "suspend"

-----------------------------------------------------------------------------
(* The ready queues.                                                       *)

\* Priorities are numbers and everybody has one.
LEMMA PrioritiesAreNumbers ==
    /\ Priorities \subseteq Nat
    /\ idle \in Everyone /\ Threads \subseteq Everyone
    /\ \A t \in Everyone : init_priority[t] \in Priorities
  BY SchedulerAssumption DEF Priorities, Everyone

\* rt_list_remove of a thread's tlist.
LEMMA Unlinked ==
    ASSUME NEW list \in Seq(Everyone), NEW t \in Everyone, Once(list)
    PROVE  /\ RemoveFirst(list, t) \in Seq(Everyone)
           /\ Once(RemoveFirst(list, t))
           /\ Members(RemoveFirst(list, t)) = Members(list) \ {t}
<1>1. _rt_timer_remove(list, t) = RemoveFirst(list, t)
  BY DEF _rt_timer_remove
<1>. QED BY <1>1, RemovedMembers

\* A thread that joins the end of a queue.
LEMMA Joined ==
    ASSUME NEW list \in Seq(Everyone), NEW t \in Everyone, Once(list), t \notin Members(list)
    PROVE  /\ Append(list, t) \in Seq(Everyone)
           /\ Append(list, t) # <<>>
           /\ Once(Append(list, t))
           /\ Members(Append(list, t)) = Members(list) \cup {t}
<1>. DEFINE r == Append(list, t)
<1>1. /\ r \in Seq(Everyone) /\ Len(r) = Len(list) + 1 /\ Len(list) \in Nat
      /\ r[Len(list) + 1] = t
      /\ \A i \in 1..Len(list) : r[i] = list[i]
  BY AppendProperties
<1>2. \A i \in 1..Len(list) : list[i] # t
  BY DEF Members
<1>. HIDE DEF r
<1>3. \A i \in 1..Len(r) : i = Len(list) + 1 \/ i \in 1..Len(list)
  BY <1>1
<1>4. Once(r)
  BY <1>1, <1>2, <1>3 DEF Once
<1>5. Members(r) = Members(list) \cup {t}
  <2>1. ASSUME NEW x \in Members(r) PROVE x \in Members(list) \cup {t}
    BY <1>1, <1>3 DEF Members
  <2>2. ASSUME NEW x \in Members(list) PROVE x \in Members(r)
    <3>1. PICK i \in 1..Len(list) : x = list[i]
      BY DEF Members
    <3>2. i \in 1..Len(r) /\ r[i] = x
      BY <1>1, <3>1
    <3>. QED BY <3>2 DEF Members
  <2>3. t \in Members(r)
    <3>1. Len(list) + 1 \in 1..Len(r)
      BY <1>1
    <3>. QED BY <1>1, <3>1 DEF Members
  <2>. QED BY <2>1, <2>2, <2>3
<1>6. r # <<>>
  BY <1>1
<1>. QED BY <1>1, <1>4, <1>5, <1>6 DEF r

\* A queue is empty when it has no members.
LEMMA EmptyQueue ==
    ASSUME NEW list \in Seq(Everyone)
    PROVE  /\ list = <<>> <=> Members(list) = {}
           /\ list # <<>> => Head(list) \in Members(list)
<1>1. CASE list = <<>>
  BY <1>1 DEF Members
<1>2. CASE list # <<>>
  <2>1. 1 \in 1..Len(list) /\ Head(list) = list[1]
    BY <1>2
  <2>2. Head(list) \in Members(list)
    BY <2>1 DEF Members
  <2>. QED BY <1>2, <2>2
<1>. QED BY <1>1, <1>2

\* rt_schedule_remove_thread takes the thread out of the queues, if it is in one,
\* and keeps the bitmap.
LEMMA RemoveEffect ==
    ASSUME NEW s \in Records, NEW t \in Everyone, NEW R \in SUBSET Everyone, Tables(s, R)
    PROVE  LET r == rt_schedule_remove_thread(s, t)
           IN  /\ r \in Records
               /\ Tables(r, R \ {t})
               /\ r.stat = s.stat /\ r.yield = s.yield
               /\ r.current_priority = s.current_priority
               /\ r.current = s.current /\ r.nest = s.nest
<1>. DEFINE r == rt_schedule_remove_thread(s, t)
            p == s.current_priority[t]
            queue == RemoveFirst(s.table[p], t)
            group == IF queue = <<>> THEN s.group \ {p} ELSE s.group
<1>1. p \in Priorities /\ s.table[p] \in Seq(Everyone) /\ Once(s.table[p])
  BY DEF Records, Tables
<1>2. queue \in Seq(Everyone) /\ Once(queue) /\ Members(queue) = Members(s.table[p]) \ {t}
  BY <1>1, Unlinked
<1>3. r = [[s EXCEPT !.table[p] = queue] EXCEPT !.group = group]
  BY DEF rt_schedule_remove_thread
<1>. HIDE DEF r, queue
<1>4. /\ r.stat = s.stat /\ r.yield = s.yield
      /\ r.current_priority = s.current_priority
      /\ r.current = s.current /\ r.nest = s.nest
      /\ r.table = [s.table EXCEPT ![p] = queue] /\ r.group = group
  BY <1>3 DEF Records
<1>5. r \in Records
  BY <1>1, <1>2, <1>3 DEF Records
<1>6. ASSUME NEW q \in Priorities
      PROVE  /\ Members(r.table[q]) = {u \in R \ {t} : s.current_priority[u] = q}
             /\ Once(r.table[q])
  <2>1. Members(s.table[q]) = {u \in R : s.current_priority[u] = q} /\ Once(s.table[q])
    BY DEF Tables
  <2>2. CASE q = p
    <3>1. r.table[q] = queue
      BY <1>4, <2>2 DEF Records
    <3>. QED BY <1>2, <2>1, <2>2, <3>1
  <2>3. CASE q # p
    <3>1. r.table[q] = s.table[q]
      BY <1>4, <2>3 DEF Records
    <3>. QED BY <2>1, <2>3, <3>1
  <2>. QED BY <2>2, <2>3
<1>7. r.group = {q \in Priorities : r.table[q] # <<>>}
  <2>1. s.group = {q \in Priorities : s.table[q] # <<>>}
    BY DEF Tables
  <2>2. r.table[p] = queue /\ \A q \in Priorities \ {p} : r.table[q] = s.table[q]
    BY <1>1, <1>4 DEF Records
  <2>3. CASE queue = <<>>
    BY <1>4, <2>1, <2>2, <2>3
  <2>4. CASE queue # <<>>
    <3>1. s.table[p] # <<>>
      BY <1>1, <1>2, <2>4, EmptyQueue
    <3>. QED BY <1>1, <1>4, <2>1, <2>2, <2>4, <3>1
  <2>. QED BY <2>3, <2>4
<1>. QED BY <1>4, <1>5, <1>6, <1>7 DEF Tables, r

\* rt_schedule_insert_thread of a thread that is in no queue and does not run.
LEMMA InsertEffect ==
    ASSUME NEW s \in Records, NEW t \in Everyone, NEW R \in SUBSET Everyone, Tables(s, R),
           t \notin R, t # s.current
    PROVE  LET r == rt_schedule_insert_thread(s, t)
           IN  /\ r \in Records
               /\ Tables(r, R \cup {t})
               /\ r.stat = [s.stat EXCEPT ![t] = "ready"] /\ r.yield = s.yield
               /\ r.current_priority = s.current_priority
               /\ r.current = s.current /\ r.nest = s.nest
<1>. DEFINE r == rt_schedule_insert_thread(s, t)
            p == s.current_priority[t]
            queue == Append(s.table[p], t)
<1>1. /\ p \in Priorities /\ s.table[p] \in Seq(Everyone) /\ Once(s.table[p])
      /\ t \notin Members(s.table[p])
  BY DEF Records, Tables
<1>2. /\ queue \in Seq(Everyone) /\ Once(queue) /\ Members(queue) = Members(s.table[p]) \cup {t}
      /\ queue # <<>>
  BY <1>1, Joined
<1>3. r = [[[s EXCEPT !.stat[t] = "ready"] EXCEPT !.table[p] = queue] EXCEPT !.group = s.group \cup {p}]
  BY DEF rt_schedule_insert_thread, Records
<1>. HIDE DEF r, queue
<1>4. /\ r.stat = [s.stat EXCEPT ![t] = "ready"] /\ r.yield = s.yield
      /\ r.current_priority = s.current_priority
      /\ r.current = s.current /\ r.nest = s.nest
      /\ r.table = [s.table EXCEPT ![p] = queue] /\ r.group = s.group \cup {p}
  BY <1>3 DEF Records
<1>5. r \in Records
  BY <1>1, <1>2, <1>3 DEF Records, Stats
<1>6. ASSUME NEW q \in Priorities
      PROVE  /\ Members(r.table[q]) = {u \in R \cup {t} : s.current_priority[u] = q}
             /\ Once(r.table[q])
  <2>1. Members(s.table[q]) = {u \in R : s.current_priority[u] = q} /\ Once(s.table[q])
    BY DEF Tables
  <2>2. CASE q = p
    <3>1. r.table[q] = queue
      BY <1>4, <2>2 DEF Records
    <3>. QED BY <1>2, <2>1, <2>2, <3>1
  <2>3. CASE q # p
    <3>1. r.table[q] = s.table[q]
      BY <1>4, <2>3 DEF Records
    <3>. QED BY <2>1, <2>3, <3>1
  <2>. QED BY <2>2, <2>3
<1>7. r.group = {q \in Priorities : r.table[q] # <<>>}
  <2>1. s.group = {q \in Priorities : s.table[q] # <<>>}
    BY DEF Tables
  <2>2. r.table[p] = queue /\ \A q \in Priorities \ {p} : r.table[q] = s.table[q]
    BY <1>1, <1>4 DEF Records
  <2>. QED BY <1>1, <1>2, <1>4, <2>1, <2>2
<1>. QED BY <1>4, <1>5, <1>6, <1>7 DEF Tables, r

\* Tables depends on the queues, the bitmap and the priorities of the queued only.
LEMMA TablesKept ==
    ASSUME NEW s \in Records, NEW r \in Records, NEW R \in SUBSET Everyone, Tables(s, R),
           r.table = s.table, r.group = s.group,
           \A t \in R : r.current_priority[t] = s.current_priority[t]
    PROVE  Tables(r, R)
  BY DEF Tables

-----------------------------------------------------------------------------
(* The functions of the kernel.                                            *)

\* The thread that is made ready: the current one runs on, any other is queued.
LEMMA WakeEffect ==
    ASSUME NEW s, Good(s), NEW t \in Everyone, s.stat[t] = "suspend"
    PROVE  LET r == rt_schedule_insert_thread(s, t)
           IN  /\ Good(r)
               /\ r.stat = [s.stat EXCEPT ![t] = IF t = s.current THEN "running" ELSE "ready"]
               /\ r.yield = s.yield
               /\ r.current_priority = s.current_priority
               /\ r.current = s.current /\ r.nest = s.nest
<1>. DEFINE r == rt_schedule_insert_thread(s, t)
<1>0. s \in Records /\ Tables(s, Ready(s)) /\ Ready(s) \in SUBSET Everyone /\ t \notin Ready(s)
  BY DEF Good, Ready
<1>1. CASE t = s.current
  <2>1. r = [s EXCEPT !.stat[t] = "running"]
    BY <1>1 DEF rt_schedule_insert_thread
  <2>. HIDE DEF r
  <2>2. /\ r \in Records /\ r.stat = [s.stat EXCEPT ![t] = "running"] /\ r.yield = s.yield
        /\ r.current_priority = s.current_priority
        /\ r.table = s.table /\ r.group = s.group
        /\ r.current = s.current /\ r.nest = s.nest
    BY <1>0, <2>1 DEF Records, Stats
  <2>3. Ready(r) = Ready(s)
    BY <1>0, <2>2 DEF Ready, Records
  <2>4. Tables(r, Ready(r))
    BY <1>0, <2>2, <2>3, TablesKept
  <2>5. Good(r)
    BY <1>0, <1>1, <2>2, <2>4 DEF Good, Records
  <2>. QED BY <1>1, <2>2, <2>5 DEF r
<1>2. CASE t # s.current
  <2>1. /\ r \in Records
        /\ Tables(r, Ready(s) \cup {t})
        /\ r.stat = [s.stat EXCEPT ![t] = "ready"] /\ r.yield = s.yield
        /\ r.current_priority = s.current_priority
        /\ r.current = s.current /\ r.nest = s.nest
    BY <1>0, <1>2, InsertEffect
  <2>. HIDE DEF r
  <2>2. Ready(r) = Ready(s) \cup {t}
    BY <1>0, <2>1 DEF Ready, Records
  <2>3. Good(r)
    BY <1>0, <1>2, <2>1, <2>2 DEF Good, Records
  <2>. QED BY <1>2, <2>1, <2>3 DEF r
<1>. QED BY <1>1, <1>2

\* The current thread is suspended.
LEMMA SuspendEffect ==
    ASSUME NEW s, Good(s), NEW t \in Threads, t = s.current
    PROVE  LET r == rt_thread_suspend(s, t)
           IN  /\ Good(r)
               /\ r.stat = [s.stat EXCEPT ![t] = "suspend"]
               /\ r.yield = s.yield
               /\ r.current_priority = s.current_priority
               /\ r.current = s.current /\ r.nest = s.nest
<1>. DEFINE q == rt_schedule_remove_thread(s, t)
            r == rt_thread_suspend(s, t)
<1>0. /\ s \in Records /\ Tables(s, Ready(s)) /\ Ready(s) \in SUBSET Everyone /\ t \in Everyone
      /\ t # idle
  BY SchedulerAssumption DEF Good, Ready, Everyone
<1>1. /\ q \in Records
      /\ Tables(q, Ready(s) \ {t})
      /\ q.stat = s.stat /\ q.yield = s.yield
      /\ q.current_priority = s.current_priority
      /\ q.current = s.current /\ q.nest = s.nest
  BY <1>0, RemoveEffect
<1>2. r = [q EXCEPT !.stat[t] = "suspend"]
  BY DEF rt_thread_suspend
<1>. HIDE DEF q, r
<1>3. /\ r \in Records /\ r.stat = [s.stat EXCEPT ![t] = "suspend"] /\ r.yield = s.yield
      /\ r.current_priority = s.current_priority
      /\ r.table = q.table /\ r.group = q.group
      /\ r.current = s.current /\ r.nest = s.nest
  BY <1>0, <1>1, <1>2 DEF Records, Stats
<1>4. Ready(r) = Ready(s) \ {t}
  BY <1>0, <1>3 DEF Ready, Records
<1>5. Tables(r, Ready(r))
  <2>1. Ready(r) \in SUBSET Everyone
    BY <1>0, <1>4
  <2>. QED BY <1>1, <1>3, <1>4, <2>1, TablesKept
<1>6. Good(r)
  BY <1>0, <1>3, <1>5 DEF Good, Records
<1>. QED BY <1>3, <1>6 DEF r

\* A thread changes its priority, and its queue if it is in one.
LEMMA PriorityEffect ==
    ASSUME NEW s, Good(s), NEW t \in Everyone, NEW p \in Priorities
    PROVE  LET r == ChangePriority(s, t, p)
           IN  /\ Good(r)
               /\ r.stat = s.stat /\ r.yield = s.yield
               /\ r.current_priority = [s.current_priority EXCEPT ![t] = p]
               /\ r.current = s.current /\ r.nest = s.nest
<1>. DEFINE q == rt_schedule_remove_thread(s, t)
            m == [q EXCEPT !.current_priority[t] = p]
            r == ChangePriority(s, t, p)
<1>0. s \in Records /\ Tables(s, Ready(s)) /\ Ready(s) \in SUBSET Everyone
  BY DEF Good, Ready
<1>1. CASE s.stat[t] = "ready"
  <2>1. /\ q \in Records
        /\ Tables(q, Ready(s) \ {t})
        /\ q.stat = s.stat /\ q.yield = s.yield
        /\ q.current_priority = s.current_priority
        /\ q.current = s.current /\ q.nest = s.nest
    BY <1>0, RemoveEffect
  <2>. HIDE DEF q
  <2>2. /\ m \in Records
        /\ m.stat = s.stat /\ m.yield = s.yield
        /\ m.current_priority = [s.current_priority EXCEPT ![t] = p]
        /\ m.table = q.table /\ m.group = q.group
        /\ m.current = s.current /\ m.nest = s.nest
    BY <2>1 DEF Records
  <2>3. r = rt_schedule_insert_thread(m, t)
    BY <1>1 DEF ChangePriority, q
  <2>. HIDE DEF m, r
  <2>4. Tables(m, Ready(s) \ {t})
    <3>. DEFINE R == Ready(s) \ {t}
    <3>1. R \in SUBSET Everyone /\ Tables(q, R)
      BY <1>0, <2>1
    <3>2. \A u \in R : m.current_priority[u] = q.current_priority[u]
      BY <1>0, <2>1, <2>2 DEF Records
    <3>. HIDE DEF R
    <3>3. Tables(m, R)
      BY <2>1, <2>2, <3>1, <3>2 DEF Tables
    <3>. QED BY <3>3 DEF R
  <2>5. t # m.current
    BY <1>1, <2>2 DEF Good
  <2>6. /\ r \in Records
        /\ Tables(r, (Ready(s) \ {t}) \cup {t})
        /\ r.stat = [m.stat EXCEPT ![t] = "ready"] /\ r.yield = m.yield
        /\ r.current_priority = m.current_priority
        /\ r.current = m.current /\ r.nest = m.nest
    BY <1>0, <2>2, <2>3, <2>4, <2>5, InsertEffect
  <2>7. r.stat = s.stat
    BY <1>0, <1>1, <2>2, <2>6 DEF Records
  <2>8. (Ready(s) \ {t}) \cup {t} = Ready(r)
    BY <1>1, <2>7 DEF Ready
  <2>9. Good(r)
    BY <2>2, <2>6, <2>7, <2>8 DEF Good
  <2>. QED BY <2>2, <2>6, <2>7, <2>9 DEF r
<1>2. CASE s.stat[t] # "ready"
  <2>1. r = [s EXCEPT !.current_priority[t] = p]
    BY <1>2 DEF ChangePriority
  <2>. HIDE DEF r
  <2>2. /\ r \in Records
        /\ r.stat = s.stat /\ r.yield = s.yield
        /\ r.current_priority = [s.current_priority EXCEPT ![t] = p]
        /\ r.table = s.table /\ r.group = s.group
        /\ r.current = s.current /\ r.nest = s.nest
    BY <1>0, <2>1 DEF Records
  <2>3. Ready(r) = Ready(s) /\ t \notin Ready(s)
    BY <1>2, <2>2 DEF Ready
  <2>4. \A u \in Ready(s) : r.current_priority[u] = s.current_priority[u]
    BY <1>0, <2>2, <2>3 DEF Records
  <2>5. Tables(r, Ready(r))
    BY <1>0, <2>2, <2>3, <2>4 DEF Tables
  <2>6. Good(r)
    BY <2>2, <2>5 DEF Good
  <2>. QED BY <2>2, <2>6 DEF r
<1>. QED BY <1>1, <1>2

\* The head of the queue that the bitmap names first is ready and nobody ready is
\* more urgent.
LEMMA HeadIsMostUrgent ==
    ASSUME NEW s, Good(s), s.group # {}
    PROVE  LET to == Head(s.table[Min(s.group)])
           IN  /\ to \in Ready(s)
               /\ s.current_priority[to] = Min(s.group)
               /\ \A t \in Ready(s) : Min(s.group) <= s.current_priority[t]
<1>. DEFINE high == Min(s.group)
            to == Head(s.table[high])
<1>1. s \in Records /\ Tables(s, Ready(s)) /\ s.group \subseteq Nat
  BY PrioritiesAreNumbers DEF Good, Records
<1>2. high \in s.group /\ \A y \in s.group : high <= y
  BY <1>1, MinIsLeast
<1>. HIDE DEF high
<1>3. high \in Priorities /\ s.table[high] # <<>> /\ s.table[high] \in Seq(Everyone)
  BY <1>1, <1>2 DEF Tables, Records
<1>4. to \in Members(s.table[high])
  BY <1>3, EmptyQueue
<1>5. to \in Ready(s) /\ s.current_priority[to] = high
  BY <1>1, <1>3, <1>4 DEF Tables
<1>6. ASSUME NEW t \in Ready(s) PROVE high <= s.current_priority[t]
  <2>1. s.current_priority[t] \in Priorities
    BY <1>1 DEF Ready, Records
  <2>2. t \in Members(s.table[s.current_priority[t]]) /\ s.table[s.current_priority[t]] \in Seq(Everyone)
    BY <1>1, <2>1 DEF Tables, Records
  <2>3. s.table[s.current_priority[t]] # <<>>
    BY <2>2, EmptyQueue
  <2>4. s.current_priority[t] \in s.group
    BY <1>1, <2>1, <2>3 DEF Tables
  <2>. QED BY <1>2, <2>4
<1>. QED BY <1>5, <1>6 DEF high

\* An empty bitmap: nobody is ready, so the idle thread runs.
LEMMA NobodyReady ==
    ASSUME NEW s, Good(s), s.group = {}
    PROVE  Ready(s) = {} /\ s.current = idle /\ s.stat[idle] = "running"
<1>1. s \in Records /\ Tables(s, Ready(s))
  BY DEF Good
<1>2. ASSUME NEW t \in Ready(s) PROVE FALSE
  <2>1. s.current_priority[t] \in Priorities
    BY <1>1 DEF Ready, Records
  <2>2. t \in Members(s.table[s.current_priority[t]]) /\ s.table[s.current_priority[t]] \in Seq(Everyone)
    BY <1>1, <2>1 DEF Tables, Records
  <2>3. s.table[s.current_priority[t]] # <<>>
    BY <2>2, EmptyQueue
  <2>. QED BY <1>1, <2>1, <2>3 DEF Tables
<1>3. s.stat[idle] = "running"
  BY <1>1, <1>2, PrioritiesAreNumbers DEF Good, Ready, Records, Stats
<1>. QED BY <1>2, <1>3, PrioritiesAreNumbers DEF Good

\* What rt_schedule has left to do: nobody is to run, or the right one does.
Urgent(s) ==
    /\ s.stat[s.current] = "running"
    /\ \A t \in Ready(s) : s.current_priority[s.current] <= s.current_priority[t]

\* The result r of rt_schedule in state s: the same threads are able to run, with
\* the same priorities, and unless the scheduler is locked the most urgent runs;
\* a thread that could have run on has no yield mark left, unless it is the idle
\* thread and nobody else is ready.
Scheduled(s, r) ==
    /\ Good(r)
    /\ r.current_priority = s.current_priority /\ r.nest = s.nest
    /\ \A t \in Everyone : r.stat[t] = "suspend" <=> s.stat[t] = "suspend"
    /\ s.nest # 0 => r = s
    /\ s.nest = 0 => Urgent(r)
    /\ \A t \in Everyone : r.yield[t] => s.yield[t]
    /\ s.nest = 0 /\ s.stat[s.current] = "running" /\ (s.current # idle \/ r.current # idle)
         => ~r.yield[s.current]

\* The current thread keeps the core.
LEMMA KeepsEffect ==
    ASSUME NEW s, Good(s), s.nest = 0, s.group # {}, Keeps(s, Min(s.group))
    PROVE  Scheduled(s, rt_schedule(s))
<1>. DEFINE c == s.current
            high == Min(s.group)
            y == [s EXCEPT !.yield[c] = FALSE]
            r == rt_schedule(s)
<1>0. /\ s \in Records /\ Tables(s, Ready(s)) /\ Ready(s) \in SUBSET Everyone /\ c \in Everyone
      /\ s.stat[c] = "running"
  BY DEF Good, Ready, Records, Keeps
<1>1. /\ y \in Records /\ y.stat = s.stat /\ y.yield = [s.yield EXCEPT ![c] = FALSE]
      /\ y.current_priority = s.current_priority /\ y.table = s.table /\ y.group = s.group
      /\ y.current = s.current /\ y.nest = s.nest
  BY <1>0 DEF Records
<1>2. r = rt_schedule_remove_thread(y, c)
  BY <1>0 DEF rt_schedule
<1>. HIDE DEF y, r, c
<1>3. Tables(y, Ready(s))
  BY <1>0, <1>1, TablesKept
<1>4. /\ r \in Records
      /\ Tables(r, Ready(s) \ {c})
      /\ r.stat = y.stat /\ r.yield = y.yield
      /\ r.current_priority = y.current_priority
      /\ r.current = y.current /\ r.nest = y.nest
  BY <1>0, <1>1, <1>2, <1>3, RemoveEffect
<1>5. Ready(s) \ {c} = Ready(r)
  BY <1>0, <1>1, <1>4 DEF Ready
<1>6. Good(r)
  BY <1>1, <1>4, <1>5 DEF Good
<1>7. Urgent(r)
  <2>1. \A t \in Ready(s) : high <= s.current_priority[t]
    BY HeadIsMostUrgent
  <2>2. s.current_priority[c] <= high /\ high \in Nat
    <3>1. s.group \subseteq Nat /\ s.current_priority[c] \in Nat
      BY <1>0, PrioritiesAreNumbers DEF Records
    <3>2. high \in s.group
      BY <3>1, MinIsLeast
    <3>. QED BY <3>1, <3>2 DEF Keeps, c
  <2>3. \A t \in Ready(r) : t \in Ready(s) /\ s.current_priority[t] \in Nat
    BY <1>0, <1>5, PrioritiesAreNumbers DEF Records
  <2>4. s.current_priority[c] \in Nat
    BY <1>0, PrioritiesAreNumbers DEF Records
  <2>. HIDE DEF high
  <2>5. ASSUME NEW t \in Ready(r) PROVE s.current_priority[c] <= s.current_priority[t]
    BY <2>1, <2>2, <2>3, <2>4
  <2>. QED BY <1>0, <1>1, <1>4, <2>5 DEF Urgent, c
<1>8. \A t \in Everyone : (r.yield[t] => s.yield[t]) /\ ~r.yield[c]
  BY <1>0, <1>1, <1>4 DEF Records
<1>9. \A t \in Everyone : r.stat[t] = "suspend" <=> s.stat[t] = "suspend"
  BY <1>1, <1>4
<1>10. \A t \in Everyone : r.yield[t] => s.yield[t]
  BY <1>8
<1>11. ~r.yield[s.current]
  BY <1>0, <1>8 DEF c
<1>12. r.current_priority = s.current_priority /\ r.nest = s.nest
  BY <1>1, <1>4
<1>. QED BY <1>6, <1>7, <1>9, <1>10, <1>11, <1>12 DEF Scheduled, r

\* Another thread gets the core.
LEMMA SwitchEffect ==
    ASSUME NEW s, Good(s), s.nest = 0, s.group # {}, ~Keeps(s, Min(s.group))
    PROVE  Scheduled(s, rt_schedule(s))
<1>. DEFINE c == s.current
            high == Min(s.group)
            to == Head(s.table[high])
            y == IF s.stat[c] = "running" THEN [s EXCEPT !.yield[c] = FALSE] ELSE s
            left == [y EXCEPT !.current = to]
            queued == IF s.stat[c] = "running" THEN rt_schedule_insert_thread(left, c) ELSE left
            out == rt_schedule_remove_thread(queued, to)
            r == rt_schedule(s)
            R == IF s.stat[c] = "running" THEN Ready(s) \cup {c} ELSE Ready(s)
<1>0. /\ s \in Records /\ Tables(s, Ready(s)) /\ Ready(s) \in SUBSET Everyone /\ c \in Everyone
      /\ s.stat[c] # "ready" /\ c \notin Ready(s)
  BY DEF Good, Ready, Records
<1>1. /\ to \in Ready(s) /\ to \in Everyone /\ to # c
      /\ s.current_priority[to] = high
      /\ \A t \in Ready(s) : high <= s.current_priority[t]
  BY <1>0, HeadIsMostUrgent DEF Ready
<1>2. /\ y \in Records /\ y.stat = s.stat
      /\ y.current_priority = s.current_priority /\ y.table = s.table /\ y.group = s.group
      /\ y.current = s.current /\ y.nest = s.nest
      /\ y.yield = IF s.stat[c] = "running" THEN [s.yield EXCEPT ![c] = FALSE] ELSE s.yield
  BY <1>0 DEF Records
<1>3. r = [out EXCEPT !.stat[to] = "running"]
  <2>1. r = SwitchTo(y, to)
    BY DEF rt_schedule
  <2>. HIDE DEF y, to, r, high
  <2>2. y.current = c /\ y.stat[c] = s.stat[c]
    BY <1>2
  <2>3. SwitchTo(y, to) = [out EXCEPT !.stat[to] = "running"]
    BY <2>2 DEF SwitchTo
  <2>. QED BY <2>1, <2>3
<1>. HIDE DEF y, to, r, c, high
<1>4. /\ left \in Records /\ left.stat = y.stat /\ left.yield = y.yield
      /\ left.current_priority = y.current_priority /\ left.table = y.table /\ left.group = y.group
      /\ left.current = to /\ left.nest = y.nest
  BY <1>1, <1>2 DEF Records
<1>. HIDE DEF left
<1>5. Tables(left, Ready(s))
  BY <1>0, <1>2, <1>4, TablesKept
<1>6. /\ queued \in Records /\ Tables(queued, R) /\ R \in SUBSET Everyone
      /\ queued.stat = (IF s.stat[c] = "running" THEN [s.stat EXCEPT ![c] = "ready"] ELSE s.stat)
      /\ queued.yield = y.yield
      /\ queued.current_priority = s.current_priority
      /\ queued.current = to /\ queued.nest = s.nest
  <2>1. CASE s.stat[c] = "running"
    <3>1. queued = rt_schedule_insert_thread(left, c) /\ R = Ready(s) \cup {c}
      BY <2>1
    <3>. HIDE DEF queued, R
    <3>2. c \in Everyone /\ c \notin Ready(s) /\ c # left.current /\ Ready(s) \in SUBSET Everyone
      BY <1>0, <1>1, <1>2, <1>4
    <3>3. /\ queued \in Records /\ Tables(queued, Ready(s) \cup {c})
          /\ queued.stat = [left.stat EXCEPT ![c] = "ready"] /\ queued.yield = left.yield
          /\ queued.current_priority = left.current_priority
          /\ queued.current = left.current /\ queued.nest = left.nest
      BY <1>4, <1>5, <3>1, <3>2, InsertEffect
    <3>. QED BY <1>2, <1>4, <2>1, <3>1, <3>2, <3>3
  <2>2. CASE s.stat[c] # "running"
    BY <1>0, <1>2, <1>4, <1>5, <2>2
  <2>. QED BY <2>1, <2>2
<1>. HIDE DEF queued
<1>7. /\ out \in Records
      /\ Tables(out, R \ {to})
      /\ out.stat = queued.stat /\ out.yield = queued.yield
      /\ out.current_priority = queued.current_priority
      /\ out.current = queued.current /\ out.nest = queued.nest
  <2>. HIDE DEF R
  <2>. QED BY <1>1, <1>6, RemoveEffect
<1>. HIDE DEF out
<1>8. /\ r \in Records /\ r.stat = [queued.stat EXCEPT ![to] = "running"] /\ r.yield = y.yield
      /\ r.current_priority = s.current_priority
      /\ r.table = out.table /\ r.group = out.group
      /\ r.current = to /\ r.nest = s.nest
  BY <1>1, <1>3, <1>6, <1>7 DEF Records, Stats
<1>9. Ready(r) = R \ {to}
  BY <1>0, <1>1, <1>6, <1>8 DEF Ready, Records
<1>10. Good(r)
  <2>1. Tables(r, Ready(r))
    <3>1. R \ {to} \in SUBSET Everyone
      BY <1>6
    <3>. HIDE DEF R
    <3>. QED BY <1>6, <1>7, <1>8, <1>9, <3>1, TablesKept
  <2>2. \A t \in Everyone : r.stat[t] = "running" => t = to
    <3>1. \A t \in Everyone : s.stat[t] = "running" => t = c
      BY DEF Good, c
    <3>2. ASSUME NEW t \in Everyone, r.stat[t] = "running", t # to PROVE FALSE
      <4>1. queued.stat[t] = "running"
        BY <1>6, <1>8, <3>2 DEF Records
      <4>2. CASE s.stat[c] = "running"
        <5>1. queued.stat = [s.stat EXCEPT ![c] = "ready"]
          BY <1>6, <4>2
        <5>2. t # c /\ s.stat[t] = "running"
          BY <1>0, <4>1, <5>1 DEF Records
        <5>. QED BY <3>1, <5>2
      <4>3. CASE s.stat[c] # "running"
        BY <1>6, <3>1, <4>1, <4>3
      <4>. QED BY <4>2, <4>3
    <3>. QED BY <3>2
  <2>3. r.stat[to] = "running"
    BY <1>1, <1>6, <1>8 DEF Records
  <2>4. r.stat[idle] # "suspend"
    BY <1>0, <1>6, <1>8, PrioritiesAreNumbers DEF Records, Good
  <2>. QED BY <1>8, <2>1, <2>2, <2>3, <2>4 DEF Good
<1>11. Urgent(r)
  <2>1. r.stat[to] = "running"
    BY <1>1, <1>6, <1>8 DEF Records
  <2>2. ASSUME NEW t \in Ready(r) PROVE high <= s.current_priority[t]
    <3>1. CASE t \in Ready(s)
      BY <1>1, <3>1
    <3>2. CASE t = c /\ s.stat[c] = "running"
      <4>1. s.current_priority[c] \in Nat /\ high \in Nat
        BY <1>0, <1>1, PrioritiesAreNumbers DEF Records
      <4>. QED BY <3>2, <4>1 DEF Keeps, c, high
    <3>. QED BY <1>9, <3>1, <3>2
  <2>. QED BY <1>1, <1>8, <2>1, <2>2 DEF Urgent
<1>12. \A t \in Everyone : r.stat[t] = "suspend" <=> s.stat[t] = "suspend"
  BY <1>0, <1>1, <1>6, <1>8 DEF Records, Ready
<1>13. \A t \in Everyone : r.yield[t] => s.yield[t]
  BY <1>0, <1>2, <1>8 DEF Records
<1>14. s.stat[c] = "running" => ~r.yield[c]
  BY <1>0, <1>2, <1>8 DEF Records
<1>. QED BY <1>8, <1>10, <1>11, <1>12, <1>13, <1>14 DEF Scheduled, c, r

\* rt_schedule in any state the kernel can call it in.
LEMMA ScheduleEffect ==
    ASSUME NEW s, Good(s)
    PROVE  Scheduled(s, rt_schedule(s))
<1>1. CASE s.nest # 0
  <2>1. rt_schedule(s) = s
    BY <1>1 DEF rt_schedule
  <2>. QED BY <1>1, <2>1 DEF Scheduled
<1>2. CASE s.nest = 0 /\ s.group = {}
  <2>1. rt_schedule(s) = s
    BY <1>2 DEF rt_schedule
  <2>2. Ready(s) = {} /\ s.current = idle /\ s.stat[idle] = "running"
    BY <1>2, NobodyReady
  <2>. QED BY <1>2, <2>1, <2>2 DEF Scheduled, Urgent
<1>3. CASE s.nest = 0 /\ s.group # {} /\ Keeps(s, Min(s.group))
  BY <1>3, KeepsEffect
<1>4. CASE s.nest = 0 /\ s.group # {} /\ ~Keeps(s, Min(s.group))
  BY <1>4, SwitchEffect
<1>. QED BY <1>1, <1>2, <1>3, <1>4

-----------------------------------------------------------------------------
(* The inductive invariant.                                                *)

\* Where the threads are (a is at) agrees with the scheduler's state s.  A thread
\* in its own code, the scheduler not locked, is the most urgent one; where the
\* scheduler is locked its thread runs and owes no rt_schedule(); a yield mark is
\* pending only where rt_schedule() is still to come, was refused by the lock or
\* had nobody else to choose.
Placed(s, a) ==
    /\ s.nest # 0 => a[s.current] = "run" /\ s.stat[s.current] = "running"
    /\ s.nest = 0 /\ a[s.current] = "run" => Urgent(s)
    /\ \A t \in Everyone : a[t] = "run" /\ s.yield[t] => t = s.current /\ (s.nest # 0 \/ t = idle)
    /\ s.stat[s.current] = "suspend" => ~s.yield[s.current]
    /\ a[idle] = "run"

\* The mutex: who waits is suspended, the owner is not, and a priority differs
\* from the thread's own only for an owner somebody waits for.
MutexInv ==
    /\ Once(suspend_thread)
    /\ \A t \in Members(suspend_thread) : S.stat[t] = "suspend" /\ t # owner
    /\ owner = NoThread => suspend_thread = <<>>
    /\ owner # NoThread => /\ S.stat[owner] # "suspend"
                           /\ original_priority = init_priority[owner]
                           /\ S.current_priority[owner] <= init_priority[owner]
    /\ \A t \in Everyone : t # owner \/ suspend_thread = <<>> =>
                             S.current_priority[t] = init_priority[t]

\* The timers are in order of their timeouts, none of which is overdue.
Nearness == [t \in Threads |-> -timeout[t]]

Pending(n) == n \in 0..Half-1 /\ \E m \in Sleeps \cup {1} : n <= m /\ (n = 0 => m = 0)

TimersInv ==
    /\ Once(rt_timer_list)
    /\ Descending(rt_timer_list, Nearness)
    /\ \A t \in Members(rt_timer_list) :
         S.stat[t] = "suspend" /\ t \notin Members(suspend_thread) /\ Pending(timeout[t])

\* A thread that rt_thread_resume has taken out of its wait and not made ready yet
\* is suspended, in no list, and resumed by one thread only.
Unlisted(t) ==
    /\ S.stat[t] = "suspend"
    /\ t \notin Members(suspend_thread) /\ t \notin Members(rt_timer_list)

ResumedInv ==
    \A v \in Threads : resumed[v] # NoThread =>
        /\ Unlisted(resumed[v])
        /\ \A w \in Threads : resumed[w] = resumed[v] => w = v

SchedInv == TypeOK /\ Good(S) /\ Placed(S, at) /\ MutexInv /\ TimersInv /\ ResumedInv

-----------------------------------------------------------------------------
(* The scheduler where the threads are.                                    *)

\* Nobody in its own code has a yield mark but the current thread, if it runs.
Marked(s, a) == \A t \in Everyone : a[t] = "run" /\ s.yield[t] => t = s.current /\ s.stat[t] = "running"

LEMMA PlacedMarks ==
    ASSUME NEW s, Good(s), NEW a, Placed(s, a)
    PROVE  Marked(s, a)
<1>. SUFFICES ASSUME NEW t \in Everyone, a[t] = "run", s.yield[t]
              PROVE  t = s.current /\ s.stat[t] = "running"
  BY DEF Marked
<1>1. t = s.current /\ (s.nest # 0 \/ t = idle)
  BY DEF Placed
<1>2. s.stat[t] \in Stats /\ s.stat[t] # "ready"
  BY <1>1 DEF Good, Records
<1>. QED BY <1>1, <1>2 DEF Good, Placed, Stats

\* rt_schedule puts everything in its place.
LEMMA SchedulePlaces ==
    ASSUME NEW s, Good(s), NEW a, Marked(s, a), a[idle] = "run",
           s.nest # 0 => a[s.current] = "run" /\ s.stat[s.current] = "running"
    PROVE  Placed(rt_schedule(s), a)
<1>. DEFINE r == rt_schedule(s)
<1>1. Scheduled(s, r)
  BY ScheduleEffect
<1>. HIDE DEF r
<1>2. CASE s.nest # 0
  <2>1. r = s
    BY <1>1, <1>2 DEF Scheduled
  <2>. QED BY <1>2, <2>1 DEF Placed, Marked, r
<1>3. CASE s.nest = 0
  <2>1. Urgent(r) /\ r.nest = 0 /\ r.stat[r.current] = "running"
    BY <1>1, <1>3 DEF Scheduled, Urgent
  <2>2. ASSUME NEW t \in Everyone, a[t] = "run", r.yield[t] PROVE t = r.current /\ t = idle
    <3>1. s.yield[t]
      BY <1>1, <2>2 DEF Scheduled
    <3>2. t = s.current /\ s.stat[s.current] = "running"
      BY <2>2, <3>1 DEF Marked
    <3>3. ~(s.current # idle \/ r.current # idle)
      BY <1>1, <1>3, <2>2, <3>2 DEF Scheduled
    <3>. QED BY <3>2, <3>3
  <2>. QED BY <2>1, <2>2 DEF Placed, r
<1>. QED BY <1>2, <1>3

\* One timeout.
LEMMA TimeoutEffect ==
    ASSUME NEW s, Good(s), NEW a, Placed(s, a), NEW t \in Everyone, s.stat[t] = "suspend"
    PROVE  LET r == rt_thread_timeout(s, t)
           IN  /\ Good(r) /\ Placed(r, a)
               /\ r.current_priority = s.current_priority /\ r.nest = s.nest
               /\ \A u \in Everyone : r.stat[u] = "suspend" <=> s.stat[u] = "suspend" /\ u # t
<1>. DEFINE w == rt_schedule_insert_thread(s, t)
            r == rt_thread_timeout(s, t)
<1>1. /\ Good(w)
      /\ w.stat = [s.stat EXCEPT ![t] = IF t = s.current THEN "running" ELSE "ready"]
      /\ w.yield = s.yield
      /\ w.current_priority = s.current_priority
      /\ w.current = s.current /\ w.nest = s.nest
  BY WakeEffect
<1>2. r = rt_schedule(w)
  BY DEF rt_thread_timeout
<1>. HIDE DEF w, r
<1>3. s.stat \in [Everyone -> Stats] /\ s.current \in Everyone
  BY DEF Good, Records
<1>4. Scheduled(w, r)
  BY <1>1, <1>2, ScheduleEffect
<1>5. Marked(w, a)
  <2>1. ASSUME NEW u \in Everyone, a[u] = "run", w.yield[u]
        PROVE  u = w.current /\ w.stat[u] = "running"
    <3>1. u = s.current /\ s.stat[u] = "running"
      BY <1>1, <2>1, PlacedMarks DEF Marked
    <3>. QED BY <1>1, <1>3, <3>1
  <2>. QED BY <2>1 DEF Marked
<1>6. w.nest # 0 => a[w.current] = "run" /\ w.stat[w.current] = "running"
  BY <1>1, <1>3 DEF Placed
<1>7. Placed(r, a)
  <2>1. a[idle] = "run"
    BY DEF Placed
  <2>. QED BY <1>1, <1>2, <1>5, <1>6, <2>1, SchedulePlaces
<1>8. \A u \in Everyone : r.stat[u] = "suspend" <=> s.stat[u] = "suspend" /\ u # t
  BY <1>1, <1>3, <1>4 DEF Scheduled
<1>. QED BY <1>1, <1>4, <1>7, <1>8 DEF Scheduled, r

\* The states after each of the timeouts of one interrupt.
Course(s, due, f) ==
    f = [n \in 0..Len(due) |-> IF n = 0 THEN s ELSE rt_thread_timeout(f[n - 1], due[n])]

\* They exist up to every n: the loop of rt_timer_check is well defined.
LEMMA CourseExists ==
    ASSUME NEW s, NEW due, Len(due) \in Nat
    PROVE  \E f : Course(s, due, f)
<1>. DEFINE Upto(n) == \E f : f = [i \in 0..n |-> IF i = 0 THEN s ELSE rt_thread_timeout(f[i - 1], due[i])]
            T == {n \in Nat : ~Upto(n)}
<1>1. Upto(0)
  <2>. DEFINE f == [i \in 0..0 |-> s]
  <2>1. f = [i \in 0..0 |-> IF i = 0 THEN s ELSE rt_thread_timeout(f[i - 1], due[i])]
    OBVIOUS
  <2>. QED BY <2>1
<1>2. ASSUME NEW n \in Nat, Upto(n) PROVE Upto(n + 1)
  <2>1. PICK g : g = [i \in 0..n |-> IF i = 0 THEN s ELSE rt_thread_timeout(g[i - 1], due[i])]
    BY <1>2
  <2>. DEFINE f == [i \in 0..n+1 |-> IF i = n + 1 THEN rt_thread_timeout(g[n], due[n + 1]) ELSE g[i]]
  <2>2. ASSUME NEW i \in 0..n+1
        PROVE  f[i] = IF i = 0 THEN s ELSE rt_thread_timeout(f[i - 1], due[i])
    <3>1. CASE i = n + 1
      <4>1. f[i] = rt_thread_timeout(g[n], due[i]) /\ i # 0
        BY <3>1
      <4>2. f[i - 1] = g[n]
        BY <3>1
      <4>. QED BY <4>1, <4>2
    <3>2. CASE i \in 0..n
      <4>1. f[i] = g[i]
        BY <3>2
      <4>2. g[i] = IF i = 0 THEN s ELSE rt_thread_timeout(g[i - 1], due[i])
        BY <2>1, <3>2
      <4>3. i # 0 => f[i - 1] = g[i - 1]
        BY <3>2
      <4>. QED BY <4>1, <4>2, <4>3
    <3>. QED BY <3>1, <3>2
  <2>3. f = [i \in 0..n+1 |-> f[i]]
    OBVIOUS
  <2>. HIDE DEF f
  <2>4. f = [i \in 0..n+1 |-> IF i = 0 THEN s ELSE rt_thread_timeout(f[i - 1], due[i])]
    BY <2>2, <2>3
  <2>. QED BY <2>4
<1>. HIDE DEF Upto
<1>3. T = {}
  <2>. SUFFICES ASSUME T # {} PROVE FALSE
    OBVIOUS
  <2>1. Min(T) \in T /\ \A y \in T : Min(T) <= y
    BY MinIsLeast
  <2>. DEFINE m == Min(T)
  <2>. HIDE DEF m
  <2>2. m \in Nat /\ ~Upto(m) /\ \A y \in T : m <= y
    BY <2>1 DEF m
  <2>3. m # 0
    BY <1>1, <2>2
  <2>4. m - 1 \in Nat /\ m - 1 + 1 = m /\ ~(m <= m - 1)
    BY <2>2, <2>3
  <2>5. Upto(m - 1)
    BY <2>2, <2>4
  <2>. QED BY <1>2, <2>2, <2>4, <2>5
<1>4. Upto(Len(due))
  BY <1>3
<1>. QED BY <1>4 DEF Course, Upto

\* What a state s after the first n timeouts has in common with the first, z.
TimedOut(z, s, a, due, n) ==
    /\ Good(s) /\ Placed(s, a)
    /\ s.current_priority = z.current_priority /\ s.nest = z.nest
    /\ \A u \in Everyone :
         s.stat[u] = "suspend" <=> z.stat[u] = "suspend" /\ \A i \in 1..n : u # due[i]

\* All timeouts of one interrupt, however many: exactly the sleepers that are due
\* become able to run, and everybody is in place.
LEMMA TimeoutsEffect ==
    ASSUME NEW s, Good(s), NEW a, Placed(s, a), NEW due \in Seq(Threads), Once(due),
           \A t \in Members(due) : s.stat[t] = "suspend"
    PROVE  LET r == rt_timer_check(s, due)
           IN  /\ Good(r) /\ Placed(r, a)
               /\ r.current_priority = s.current_priority /\ r.nest = s.nest
               /\ \A u \in Everyone :
                    r.stat[u] = "suspend" <=> s.stat[u] = "suspend" /\ u \notin Members(due)
<1>. DEFINE F == CHOOSE f : f = [n \in 0..Len(due) |-> IF n = 0 THEN s ELSE rt_thread_timeout(f[n - 1], due[n])]
            r == rt_timer_check(s, due)
            T == {n \in 0..Len(due) : ~TimedOut(s, F[n], a, due, n)}
<1>0. Len(due) \in Nat
  OBVIOUS
<1>1. F = [n \in 0..Len(due) |-> IF n = 0 THEN s ELSE rt_thread_timeout(F[n - 1], due[n])]
  <2>1. \E f : Course(s, due, f)
    BY <1>0, CourseExists
  <2>. DEFINE G == CHOOSE f : Course(s, due, f)
  <2>2. Course(s, due, G)
    BY <2>1, Zenon
  <2>3. F = G
    BY DEF Course
  <2>4. Course(s, due, F)
    BY <2>2, <2>3
  <2>. HIDE DEF F
  <2>. QED BY <2>4 DEF Course
<1>2. r = F[Len(due)]
  BY DEF rt_timer_check
<1>. HIDE DEF F, r
<1>3. F[0] = s /\ \A n \in 1..Len(due) : F[n] = rt_thread_timeout(F[n - 1], due[n])
  BY <1>0, <1>1
<1>4. TimedOut(s, F[0], a, due, 0)
  BY <1>3 DEF TimedOut
<1>5. ASSUME NEW n \in 1..Len(due), TimedOut(s, F[n - 1], a, due, n - 1)
      PROVE  TimedOut(s, F[n], a, due, n)
  <2>. DEFINE q == F[n - 1]
              t == due[n]
              w == rt_thread_timeout(q, t)
  <2>1. F[n] = w
    BY <1>3
  <2>2. /\ Good(q) /\ Placed(q, a)
        /\ q.current_priority = s.current_priority /\ q.nest = s.nest
        /\ \A u \in Everyone :
             q.stat[u] = "suspend" <=> s.stat[u] = "suspend" /\ \A i \in 1..n-1 : u # due[i]
    BY <1>5 DEF TimedOut
  <2>. HIDE DEF q
  <2>3. t \in Everyone /\ t \in Members(due) /\ \A i \in 1..n-1 : t # due[i]
    BY PrioritiesAreNumbers DEF Members, Once
  <2>4. q.stat[t] = "suspend"
    BY <2>2, <2>3
  <2>. HIDE DEF t
  <2>5. /\ Good(w) /\ Placed(w, a)
        /\ w.current_priority = q.current_priority /\ w.nest = q.nest
        /\ \A u \in Everyone : w.stat[u] = "suspend" <=> q.stat[u] = "suspend" /\ u # t
    BY <2>2, <2>3, <2>4, TimeoutEffect
  <2>. HIDE DEF w
  <2>6. ASSUME NEW u \in Everyone
        PROVE  w.stat[u] = "suspend" <=> s.stat[u] = "suspend" /\ \A i \in 1..n : u # due[i]
    <3>1. (\A i \in 1..n : u # due[i]) <=> (\A i \in 1..n-1 : u # due[i]) /\ u # t
      <4>1. \A i \in 1..n : i = n \/ i \in 1..n-1
        OBVIOUS
      <4>2. n \in 1..n /\ \A i \in 1..n-1 : i \in 1..n
        OBVIOUS
      <4>. QED BY <4>1, <4>2 DEF t
    <3>. QED BY <2>2, <2>5, <3>1
  <2>. QED BY <2>1, <2>2, <2>5, <2>6 DEF TimedOut
<1>6. T = {}
  <2>. SUFFICES ASSUME T # {} PROVE FALSE
    OBVIOUS
  <2>. DEFINE m == Min(T)
  <2>0. T \subseteq Nat
    BY <1>0
  <2>. HIDE DEF T
  <2>1. m \in T /\ \A y \in T : m <= y
    BY <2>0, MinIsLeast
  <2>. USE DEF T
  <2>. HIDE DEF m
  <2>2. m \in 0..Len(due) /\ ~TimedOut(s, F[m], a, due, m)
    BY <2>1
  <2>3. m # 0
    BY <1>4, <2>2
  <2>4. m \in 1..Len(due) /\ m - 1 \in 0..Len(due) /\ ~(m <= m - 1)
    BY <1>0, <2>2, <2>3
  <2>5. TimedOut(s, F[m - 1], a, due, m - 1)
    BY <2>1, <2>4
  <2>. QED BY <1>5, <2>2, <2>4, <2>5
<1>7. TimedOut(s, r, a, due, Len(due))
  BY <1>0, <1>2, <1>6
<1>. QED BY <1>7 DEF TimedOut, Members, r

-----------------------------------------------------------------------------
(* The thread timers.                                                      *)

\* Range and IsInjective of a list are its members and that nobody is in it twice.
LEMMA ListFacts ==
    ASSUME NEW E, NEW list \in Seq(E)
    PROVE  /\ Range(list) = Members(list)
           /\ IsInjective(list) <=> Once(list)
           /\ Members(list) \subseteq E
<1>1. DOMAIN list = 1..Len(list)
  OBVIOUS
<1>. QED BY <1>1 DEF Range, Members, IsInjective, Once

\* Order depends on the members' timeouts only.
LEMMA OrderKept ==
    ASSUME NEW list \in Seq(Threads), NEW f, NEW g, Descending(list, f),
           \A t \in Members(list) : g[t] = f[t]
    PROVE  Descending(list, g)
<1>1. \A i \in 1..Len(list) : list[i] \in Members(list)
  BY DEF Members
<1>. QED BY <1>1 DEF Descending

\* A timer is due one tick later exactly if it had at most one tick left.
LEMMA DueAtLast ==
    ASSUME NEW n \in 0..Half-1
    PROVE  /\ Expired(0, Minus(n, 1)) <=> n <= 1
           /\ n >= 1 => Minus(n, 1) = n - 1
           /\ Minus(n, 1) \in Ticks
<1>1. n \in Ticks /\ 1 \in Ticks /\ 0 \in Ticks /\ n \in Int
  BY HalfRange, TickModAssumption DEF Ticks
<1>2. Minus(n, 1) = IF n >= 1 THEN n - 1 ELSE n - 1 + TickMod
  BY <1>1, MinusWraps
<1>3. Minus(n, 1) \in Ticks
  BY <1>1, TicksClosed
<1>. DEFINE m == Minus(n, 1)
<1>. HIDE DEF m
<1>4. m \in Ticks /\ m = IF n >= 1 THEN n - 1 ELSE n - 1 + TickMod
  BY <1>2, <1>3 DEF m
<1>5. Minus(0, m) = IF 0 >= m THEN 0 - m ELSE 0 - m + TickMod
  BY <1>1, <1>4, MinusWraps
<1>6. Half >= 3
  BY TickModAssumption DEF Half, RT_TICK_MAX
<1>7. Minus(0, m) < Half <=> n <= 1
  BY <1>1, <1>4, <1>5, <1>6, HalfRange, TickModAssumption DEF Ticks
<1>. QED BY <1>1, <1>2, <1>3, <1>7 DEF Expired, m

\* rt_timer_check fires the timers with at most one tick left and keeps the others.
LEMMA DueEffect ==
    ASSUME TypeOK, TimersInv
    PROVE  LET rest == SubSeq(rt_timer_list, Len(Due) + 1, Len(rt_timer_list))
           IN  /\ Due \in Seq(Threads) /\ Once(Due) /\ Members(Due) \subseteq Members(rt_timer_list)
               /\ rest \in Seq(Threads) /\ Once(rest) /\ Descending(rest, Nearness)
               /\ Members(rest) = Members(rt_timer_list) \ Members(Due)
               /\ \A t \in Members(rest) : timeout[t] >= 2
<1>. DEFINE list == rt_timer_list
            pending == {i \in DOMAIN list : ~Expired(0, Later[list[i]])}
            n == IF pending = {} THEN Len(list) ELSE Min(pending) - 1
            rest == SubSeq(list, n + 1, Len(list))
            due == SubSeq(list, 1, n)
<1>0. list \in Seq(Threads) /\ Len(list) \in Nat /\ timeout \in [Threads -> Ticks] /\ Once(list)
  BY DEF TypeOK, TimersInv
<1>1. pending \subseteq 1..Len(list) /\ pending \subseteq Nat
  BY <1>0
<1>2. n \in 0..Len(list) /\ (n < Len(list) => n + 1 \in pending)
  <2>1. CASE pending = {}
    BY <1>0, <2>1
  <2>2. CASE pending # {}
    <3>1. Min(pending) \in pending
      BY <1>1, <2>2, MinIsLeast
    <3>2. Min(pending) \in 1..Len(list)
      BY <1>1, <3>1
    <3>3. n = Min(pending) - 1
      BY <2>2
    <3>. HIDE DEF pending, n
    <3>. QED BY <1>0, <3>1, <3>2, <3>3
  <2>. QED BY <2>1, <2>2
<1>3. Due = due
  BY DEF Due
<1>. HIDE DEF n, pending
<1>4. /\ due \in Seq(Threads) /\ Len(due) = n
      /\ \A i \in 1..n : due[i] = list[i]
  <2>1. \A i \in 1..n : list[i] \in Threads
    BY <1>0, <1>2
  <2>2. /\ due \in Seq(Threads) /\ Len(due) = IF 1 <= n THEN n - 1 + 1 ELSE 0
        /\ \A i \in 1..n-1+1 : due[i] = list[1 + i - 1]
    BY <1>0, <1>2, <2>1, SubSeqProperties
  <2>. HIDE DEF due
  <2>. QED BY <1>2, <2>2
<1>5. /\ rest \in Seq(Threads) /\ Len(rest) = Len(list) - n
      /\ \A i \in 1..Len(list)-n : rest[i] = list[n + i]
  <2>1. \A i \in n+1..Len(list) : list[i] \in Threads
    BY <1>0, <1>2
  <2>2. /\ rest \in Seq(Threads)
        /\ Len(rest) = IF n + 1 <= Len(list) THEN Len(list) - (n + 1) + 1 ELSE 0
        /\ \A i \in 1..Len(list)-(n+1)+1 : rest[i] = list[(n + 1) + i - 1]
    BY <1>0, <1>2, <2>1, SubSeqProperties
  <2>. HIDE DEF rest
  <2>. QED BY <1>0, <1>2, <2>2
<1>. HIDE DEF due, rest
<1>6. Once(due) /\ Members(due) \subseteq Members(list)
  <2>1. \A i \in 1..n : i \in 1..Len(list)
    BY <1>0, <1>2
  <2>. QED BY <1>0, <1>4, <2>1 DEF Once, Members
<1>7. \A i \in 1..Len(rest) : n + i \in 1..Len(list) /\ rest[i] = list[n + i]
  BY <1>0, <1>2, <1>5
<1>8. Once(rest)
  <2>1. ASSUME NEW i \in 1..Len(rest), NEW j \in 1..Len(rest), rest[i] = rest[j] PROVE i = j
    <3>1. n + i = n + j
      BY <1>0, <1>7, <2>1 DEF Once
    <3>. QED BY <1>2, <3>1
  <2>. QED BY <2>1 DEF Once
<1>9. Descending(rest, Nearness)
  <2>1. ASSUME NEW i \in 1..Len(rest), NEW j \in 1..Len(rest), i < j
        PROVE  Nearness[rest[i]] >= Nearness[rest[j]]
    <3>1. n + i \in 1..Len(list) /\ n + j \in 1..Len(list) /\ n + i < n + j
      BY <1>2, <1>7, <2>1
    <3>2. Nearness[list[n + i]] >= Nearness[list[n + j]]
      BY <3>1 DEF TimersInv, Descending
    <3>. QED BY <1>7, <3>2
  <2>. QED BY <2>1 DEF Descending
<1>10. Members(rest) = Members(list) \ Members(due)
  <2>1. ASSUME NEW x \in Members(rest) PROVE x \in Members(list) \ Members(due)
    <3>1. PICK i \in 1..Len(rest) : x = rest[i]
      BY DEF Members
    <3>2. n + i \in 1..Len(list) /\ x = list[n + i]
      BY <1>7, <3>1
    <3>3. ASSUME NEW j \in 1..n, x = due[j] PROVE FALSE
      <4>1. j \in 1..Len(list) /\ x = list[j] /\ j # n + i
        BY <1>0, <1>2, <1>4, <3>3
      <4>. QED BY <1>0, <3>2, <4>1 DEF Once
    <3>. QED BY <1>4, <3>2, <3>3 DEF Members
  <2>2. ASSUME NEW x \in Members(list) \ Members(due) PROVE x \in Members(rest)
    <3>1. PICK j \in 1..Len(list) : x = list[j]
      BY DEF Members
    <3>2. j \notin 1..n
      BY <1>4, <2>2, <3>1 DEF Members
    <3>. DEFINE i == j - n
    <3>3. i \in 1..Len(list)-n /\ n + i = j
      BY <1>0, <1>2, <3>2
    <3>. HIDE DEF i
    <3>4. i \in 1..Len(rest) /\ rest[i] = x
      BY <1>5, <3>1, <3>3
    <3>. QED BY <3>4 DEF Members
  <2>. QED BY <2>1, <2>2
<1>11. ASSUME NEW t \in Members(rest) PROVE timeout[t] >= 2
  <2>1. PICK i \in 1..Len(rest) : t = rest[i]
    BY DEF Members
  <2>2. n + i \in 1..Len(list) /\ t = list[n + i] /\ n < Len(list) /\ n + 1 \in 1..Len(list)
    BY <1>0, <1>2, <1>5, <2>1
  <2>. DEFINE k == n + 1
              u == list[k]
  <2>3. k \in pending /\ k \in 1..Len(list) /\ u \in Threads /\ u \in Members(list)
    BY <1>0, <1>2, <2>2 DEF Members
  <2>. HIDE DEF k
  <2>4. timeout[u] \in 0..Half-1 /\ timeout[u] \in Int
    BY <1>0, <2>3 DEF TimersInv, Pending, Ticks
  <2>5. Later[u] = Minus(timeout[u], 1)
    BY <1>0, <2>3, ListFacts DEF Later
  <2>6. ~Expired(0, Later[u])
    BY <2>3 DEF pending
  <2>7. timeout[u] >= 2
    <3>. HIDE DEF u
    <3>. QED BY <2>4, <2>5, <2>6, DueAtLast
  <2>8. t \in Threads /\ timeout[t] \in Int
    BY <1>0, <2>2 DEF Ticks
  <2>9. CASE n + i = k
    BY <2>2, <2>7, <2>9
  <2>10. CASE n + i # k
    <3>1. k < n + i
      BY <1>2, <2>2, <2>10 DEF k
    <3>2. Nearness[u] >= Nearness[t]
      BY <2>2, <2>3, <3>1 DEF TimersInv, Descending
    <3>3. -timeout[u] >= -timeout[t]
      BY <2>3, <2>8, <3>2 DEF Nearness
    <3>. QED BY <2>4, <2>7, <2>8, <3>3
  <2>. QED BY <2>9, <2>10
<1>12. Len(Due) = n
  BY <1>3, <1>4
<1>. QED BY <1>3, <1>5, <1>4, <1>6, <1>8, <1>9, <1>10, <1>11, <1>12 DEF rest

-----------------------------------------------------------------------------
(* Every step keeps the invariant.                                         *)

\* The types of everything but S.
RestOK ==
    /\ remaining_tick \in [Everyone -> Nat \ {0}]
    /\ \A t \in Everyone : remaining_tick[t] <= init_tick[t]
    /\ rt_timer_list \in Seq(Threads)
    /\ timeout \in [Threads -> Ticks]
    /\ at \in [Everyone -> {"run", "schedule"}]
    /\ resumed \in [Threads -> Threads \cup {NoThread}]
    /\ owner \in Threads \cup {NoThread}
    /\ original_priority \in Priorities \cup {NoPriority}
    /\ suspend_thread \in Seq(Threads)
    /\ ops \in [Threads -> 0..MaxOps]

LEMMA TypeSplit == TypeOK <=> RestOK /\ S \in Records
  BY DEF TypeOK, RestOK, Records, Stats

\* The parts of the invariant, by name.
LEMMA Parts ==
    ASSUME SchedInv
    PROVE  /\ TypeOK /\ RestOK /\ S \in Records
           /\ Good(S) /\ Placed(S, at) /\ MutexInv /\ TimersInv /\ ResumedInv
  BY TypeSplit DEF SchedInv

LEMMA Whole ==
    ASSUME RestOK', Good(S'), Placed(S', at'), MutexInv', TimersInv', ResumedInv'
    PROVE  SchedInv'
<1>1. S' \in Records
  BY DEF Good
<1>2. TypeOK'
  BY <1>1 DEF TypeOK, RestOK, Records, Stats
<1>. QED BY <1>2 DEF SchedInv

\* The mutex does not notice a step that keeps the priorities, the sleep of its
\* waiters and the wakefulness of its owner.
LEMMA MutexKept ==
    ASSUME MutexInv, RestOK, UNCHANGED mutex, S'.current_priority = S.current_priority,
           \A t \in Members(suspend_thread) : S'.stat[t] = "suspend",
           owner # NoThread => S'.stat[owner] # "suspend"
    PROVE  MutexInv'
  BY DEF MutexInv, mutex, Once, Members

\* The timers do not notice a step that keeps the sleepers asleep.
LEMMA TimersKept ==
    ASSUME TimersInv, RestOK, UNCHANGED timers, UNCHANGED suspend_thread,
           \A t \in Members(rt_timer_list) : S'.stat[t] = "suspend"
    PROVE  TimersInv'
<1>1. UNCHANGED <<rt_timer_list, timeout, suspend_thread>>
  BY DEF timers
<1>2. Once(rt_timer_list)' /\ Descending(rt_timer_list, Nearness)'
  BY <1>1 DEF TimersInv, Once, Descending, Nearness
<1>3. (\A u \in Members(rt_timer_list) :
         S.stat[u] = "suspend" /\ u \notin Members(suspend_thread) /\ Pending(timeout[u]))'
  <2>1. \A u \in Members(rt_timer_list) : u \notin Members(suspend_thread) /\ Pending(timeout[u])
    BY DEF TimersInv
  <2>2. /\ Members(rt_timer_list)' = Members(rt_timer_list)
        /\ Members(suspend_thread)' = Members(suspend_thread)
    BY <1>1 DEF Members
  <2>3. ASSUME NEW u PROVE Pending(timeout[u])' <=> Pending(timeout[u])
    BY <1>1 DEF Pending
  <2>. QED BY <2>1, <2>2, <2>3
<1>. QED BY <1>2, <1>3 DEF TimersInv

\* A timer is stopped.
LEMMA StopTimerEffect ==
    ASSUME TimersInv, RestOK, NEW t \in Threads, StopTimer(t),
           \A u \in Members(rt_timer_list) \ {t} : S'.stat[u] = "suspend" /\ u \notin Members(suspend_thread')
    PROVE  TimersInv' /\ rt_timer_list' \in Seq(Threads) /\ timeout' \in [Threads -> Ticks]
<1>0. /\ rt_timer_list \in Seq(Threads) /\ timeout \in [Threads -> Ticks] /\ 0 \in Ticks
      /\ Once(rt_timer_list) /\ Descending(rt_timer_list, Nearness)
  BY TickModAssumption DEF RestOK, TimersInv, Ticks
<1>1. rt_timer_list' = _rt_timer_remove(rt_timer_list, t) /\ timeout' = [timeout EXCEPT ![t] = 0]
  BY DEF StopTimer
<1>2. /\ rt_timer_list' \in Seq(Threads) /\ Once(rt_timer_list')
      /\ Members(rt_timer_list') = Members(rt_timer_list) \ {t}
  BY <1>0, <1>1, RemovedMembers
<1>3. timeout' \in [Threads -> Ticks]
  BY <1>0, <1>1
<1>4. Nearness \in [Threads -> Int]
  BY <1>0 DEF Nearness, Ticks
<1>5. Descending(rt_timer_list', Nearness)
  BY <1>0, <1>1, <1>4, RemovedInOrder
<1>6. \A u \in Members(rt_timer_list') : u \in Threads /\ timeout'[u] = timeout[u]
  BY <1>0, <1>1, <1>2, ListFacts
<1>7. \A u \in Members(rt_timer_list') : Nearness'[u] = Nearness[u]
  BY <1>6 DEF Nearness
<1>8. Descending(rt_timer_list', Nearness')
  BY <1>2, <1>5, <1>7, OrderKept
<1>9. \A u \in Members(rt_timer_list') : Pending(timeout'[u])
  BY <1>2, <1>6 DEF TimersInv
<1>10. TimersInv'
  <2>1. Once(rt_timer_list)'
    BY <1>2 DEF Once
  <2>2. Descending(rt_timer_list, Nearness)'
    BY <1>8 DEF Descending
  <2>3. (\A u \in Members(rt_timer_list) :
           S.stat[u] = "suspend" /\ u \notin Members(suspend_thread) /\ Pending(timeout[u]))'
    BY <1>2, <1>9 DEF Members, Pending
  <2>. QED BY <2>1, <2>2, <2>3 DEF TimersInv
<1>. QED BY <1>2, <1>3, <1>10

\* A stopped timer leaves the list.
LEMMA StoppedMembers ==
    ASSUME RestOK, TimersInv, NEW t \in Threads, StopTimer(t)
    PROVE  Members(rt_timer_list') = Members(rt_timer_list) \ {t}
<1>1. rt_timer_list \in Seq(Threads) /\ Once(rt_timer_list)
  BY DEF RestOK, TimersInv
<1>2. rt_timer_list' = _rt_timer_remove(rt_timer_list, t)
  BY DEF StopTimer
<1>3. Members(_rt_timer_remove(rt_timer_list, t)) = Members(rt_timer_list) \ {t}
  BY <1>1, RemovedMembers
<1>. QED BY <1>2, <1>3

\* The threads about to be made ready do not notice a step that wakes and lists
\* others only.
LEMMA ResumedKept ==
    ASSUME SchedInv, UNCHANGED resumed,
           \A u \in Threads : Unlisted(u) /\ (\E v \in Threads : resumed[v] = u) =>
                                 /\ S'.stat[u] = "suspend"
                                 /\ u \notin Members(suspend_thread')
                                 /\ u \notin Members(rt_timer_list')
    PROVE  ResumedInv'
<1>1. ResumedInv /\ resumed \in [Threads -> Threads \cup {NoThread}]
  BY Parts DEF RestOK
<1>2. ASSUME NEW v \in Threads, resumed[v] # NoThread PROVE Unlisted(resumed[v])'
  <2>1. resumed[v] \in Threads /\ Unlisted(resumed[v])
    BY <1>1, <1>2 DEF ResumedInv
  <2>. DEFINE u == resumed[v]
  <2>2. /\ S'.stat[u] = "suspend"
        /\ u \notin Members(suspend_thread') /\ u \notin Members(rt_timer_list')
    BY <2>1
  <2>. QED BY <2>2 DEF Unlisted, Members
<1>. QED BY <1>1, <1>2 DEF ResumedInv

\* A step of RtMutex, as the scheduler's state shows it.
MutexStep == Mutex!Next \/ UNCHANGED Mutex!vars

\* The priorities RtMutex sees.
Urgencies == [t \in Threads |-> S.current_priority[t]]

\* How the state of a thread shows.
LEMMA ShownStat ==
    ASSUME RestOK, NEW t \in Threads
    PROVE  /\ AbstractStat[t] = "ready" <=> S.stat[t] # "suspend"
           /\ AbstractStat[t] = "sleeping" <=> S.stat[t] = "suspend" /\ t \notin Members(suspend_thread)
           /\ AbstractStat[t] = "waiting" <=> S.stat[t] = "suspend" /\ t \in Members(suspend_thread)
<1>1. Range(suspend_thread) = Members(suspend_thread)
  BY ListFacts DEF RestOK
<1>. QED BY <1>1 DEF AbstractStat

\* A step that suspends and wakes nobody changes nothing of the mutex.
LEMMA ShownStutter ==
    ASSUME RestOK, UNCHANGED mutex, UNCHANGED ops, S'.current_priority = S.current_priority,
           \A u \in Everyone : S'.stat[u] = "suspend" <=> S.stat[u] = "suspend"
    PROVE  MutexStep
<1>1. AbstractStat' = AbstractStat
  BY PrioritiesAreNumbers DEF AbstractStat, mutex
<1>. QED BY <1>1 DEF MutexStep, Mutex!vars, Mutex!mutexvars, mutex

\* Threads that are woken without the mutex are sleepers that are due.
LEMMA ShownWake ==
    ASSUME RestOK, UNCHANGED mutex, UNCHANGED ops, S'.current_priority = S.current_priority,
           NEW due \in SUBSET Threads,
           \A t \in due : S.stat[t] = "suspend" /\ t \notin Members(suspend_thread),
           \A u \in Everyone : S'.stat[u] = "suspend" <=> S.stat[u] = "suspend" /\ u \notin due
    PROVE  MutexStep
<1>1. CASE due = {}
  BY <1>1, ShownStutter
<1>2. CASE due # {}
  <2>1. \A t \in due : AbstractStat[t] = "sleeping"
    BY ShownStat
  <2>2. AbstractStat' = [t \in Threads |-> IF t \in due THEN "ready" ELSE AbstractStat[t]]
    BY PrioritiesAreNumbers DEF AbstractStat, mutex
  <2>3. Mutex!rt_timer_check(due)
    BY <1>2, <2>1, <2>2 DEF Mutex!rt_timer_check, Mutex!mutexvars, mutex
  <2>. QED BY <2>3 DEF MutexStep, Mutex!Next
<1>. QED BY <1>1, <1>2

\* The tick interrupt.
LEMMA TickStep ==
    ASSUME SchedInv, rt_tick_increase
    PROVE  SchedInv' /\ MutexStep
<1>. DEFINE cur == S.current
            marked == [S EXCEPT !.yield[cur] = TRUE]
            sliced == IF remaining_tick[cur] = 1 THEN SliceEnd(S) ELSE S
<1>0. /\ TypeOK /\ RestOK /\ S \in Records
      /\ Good(S) /\ Placed(S, at) /\ MutexInv /\ TimersInv
  BY Parts
<1>1. /\ remaining_tick' = [remaining_tick EXCEPT ![cur] = SliceLeft(cur)]
      /\ S' = rt_timer_check(sliced, Due)
      /\ rt_timer_list' = SubSeq(rt_timer_list, Len(Due) + 1, Len(rt_timer_list))
      /\ timeout' = [t \in Threads |-> IF t \in Range(Due) THEN 0 ELSE Later[t]]
      /\ UNCHANGED <<at, resumed, mutex, ops>>
  BY DEF rt_tick_increase
<1>2. cur \in Everyone
  BY <1>0 DEF Records
<1>3. /\ Good(sliced) /\ Placed(sliced, at)
      /\ sliced.current_priority = S.current_priority /\ sliced.nest = S.nest
      /\ \A t \in Everyone : sliced.stat[t] = "suspend" <=> S.stat[t] = "suspend"
  <2>1. CASE remaining_tick[cur] = 1
    <3>1. sliced = rt_schedule(marked)
      BY <2>1 DEF SliceEnd
    <3>2. /\ marked \in Records /\ marked.stat = S.stat /\ marked.yield = [S.yield EXCEPT ![cur] = TRUE]
          /\ marked.current_priority = S.current_priority
          /\ marked.table = S.table /\ marked.group = S.group
          /\ marked.current = cur /\ marked.nest = S.nest
      BY <1>0, <1>2 DEF Records
    <3>. HIDE DEF marked, sliced
    <3>3. Ready(marked) = Ready(S) /\ Ready(S) \in SUBSET Everyone
      BY <3>2 DEF Ready
    <3>4. Tables(marked, Ready(marked))
      BY <1>0, <3>2, <3>3, TablesKept DEF Good
    <3>5. Good(marked)
      BY <1>0, <3>2, <3>4 DEF Good
    <3>6. Scheduled(marked, sliced)
      BY <3>1, <3>5, ScheduleEffect
    <3>7. Placed(sliced, at)
      <4>1. Marked(S, at) /\ at[idle] = "run"
        BY <1>0, PlacedMarks DEF Placed
      <4>2. marked.nest # 0 => at[marked.current] = "run" /\ marked.stat[marked.current] = "running"
        BY <1>0, <3>2 DEF Placed
      <4>3. at[cur] = "run" => S.stat[cur] = "running"
        BY <1>0 DEF Placed, Urgent
      <4>4. Marked(marked, at)
        BY <1>0, <1>2, <3>2, <4>1, <4>3 DEF Marked, Records
      <4>. QED BY <3>1, <3>5, <4>1, <4>2, <4>4, SchedulePlaces
    <3>8. \A t \in Everyone : sliced.stat[t] = "suspend" <=> S.stat[t] = "suspend"
      BY <3>2, <3>6 DEF Scheduled
    <3>. QED BY <3>2, <3>6, <3>7, <3>8 DEF Scheduled
  <2>2. CASE remaining_tick[cur] # 1
    BY <1>0, <2>2
  <2>. QED BY <2>1, <2>2
<1>. HIDE DEF sliced
<1>. DEFINE rest == SubSeq(rt_timer_list, Len(Due) + 1, Len(rt_timer_list))
<1>4. /\ Due \in Seq(Threads) /\ Once(Due) /\ Members(Due) \subseteq Members(rt_timer_list)
      /\ rest \in Seq(Threads) /\ Once(rest) /\ Descending(rest, Nearness)
      /\ Members(rest) = Members(rt_timer_list) \ Members(Due)
      /\ \A t \in Members(rest) : timeout[t] >= 2
  BY <1>0, DueEffect
<1>5. \A t \in Members(rt_timer_list) :
        t \in Everyone /\ S.stat[t] = "suspend" /\ t \notin Members(suspend_thread)
  BY <1>0, ListFacts, PrioritiesAreNumbers DEF TimersInv, RestOK
<1>6. /\ Good(S') /\ Placed(S', at)
      /\ S'.current_priority = sliced.current_priority /\ S'.nest = sliced.nest
      /\ \A u \in Everyone :
           S'.stat[u] = "suspend" <=> sliced.stat[u] = "suspend" /\ u \notin Members(Due)
  <2>1. \A t \in Members(Due) : sliced.stat[t] = "suspend"
    BY <1>3, <1>4, <1>5
  <2>. QED BY <1>1, <1>3, <1>4, <2>1, TimeoutsEffect
<1>7. \A u \in Everyone : S'.stat[u] = "suspend" <=> S.stat[u] = "suspend" /\ u \notin Members(Due)
  BY <1>3, <1>6
<1>8. MutexInv'
  <2>1. \A t \in Members(suspend_thread) : t \in Everyone /\ S.stat[t] = "suspend" /\ t \notin Members(Due)
    BY <1>0, <1>4, <1>5, ListFacts, PrioritiesAreNumbers DEF MutexInv, RestOK
  <2>2. owner # NoThread => S'.stat[owner] # "suspend"
    BY <1>0, <1>7, PrioritiesAreNumbers DEF MutexInv, RestOK
  <2>. QED BY <1>0, <1>1, <1>3, <1>6, <1>7, <2>1, <2>2, MutexKept
<1>. HIDE DEF rest
<1>9. rt_timer_list' = rest
  BY <1>1 DEF rest
<1>10. ASSUME NEW t \in Members(rest)
       PROVE  /\ t \in Threads /\ timeout[t] \in 2..Half-1 /\ timeout'[t] = timeout[t] - 1
  <2>1. t \in Threads /\ t \in Members(rt_timer_list) /\ t \notin Members(Due)
    BY <1>4, ListFacts
  <2>2. timeout[t] \in 0..Half-1 /\ timeout[t] >= 2
    BY <1>0, <1>4, <2>1 DEF TimersInv, Pending
  <2>3. timeout'[t] = Later[t] /\ Later[t] = Minus(timeout[t], 1)
    BY <1>0, <1>1, <1>4, <2>1, ListFacts DEF Later, RestOK
  <2>. QED BY <2>1, <2>2, <2>3, DueAtLast
<1>11. TimersInv'
  <2>1. Descending(rest, Nearness')
    <3>1. ASSUME NEW i \in 1..Len(rest), NEW j \in 1..Len(rest), i < j
          PROVE  Nearness'[rest[i]] >= Nearness'[rest[j]]
      <4>1. rest[i] \in Members(rest) /\ rest[j] \in Members(rest)
        BY DEF Members
      <4>. DEFINE x == rest[i]
                  y == rest[j]
      <4>2. Nearness[x] >= Nearness[y]
        BY <1>4, <3>1 DEF Descending
      <4>. HIDE DEF x, y
      <4>3. /\ x \in Threads /\ y \in Threads
            /\ timeout[x] \in Int /\ timeout[y] \in Int
            /\ timeout'[x] = timeout[x] - 1 /\ timeout'[y] = timeout[y] - 1
        BY <1>10, <4>1 DEF x, y
      <4>4. Nearness[x] = -timeout[x] /\ Nearness[y] = -timeout[y]
        BY <4>3 DEF Nearness
      <4>5. Nearness'[x] = -timeout'[x] /\ Nearness'[y] = -timeout'[y]
        BY <4>3 DEF Nearness
      <4>6. Nearness'[x] >= Nearness'[y]
        BY <4>2, <4>3, <4>4, <4>5
      <4>. QED BY <4>6 DEF x, y
    <3>. QED BY <3>1 DEF Descending
  <2>2. ASSUME NEW t \in Members(rest)
        PROVE  S'.stat[t] = "suspend" /\ t \notin Members(suspend_thread) /\ Pending(timeout'[t])
    <3>1. S'.stat[t] = "suspend" /\ t \notin Members(suspend_thread)
      BY <1>4, <1>5, <1>7
    <3>2. Pending(timeout[t]) /\ timeout[t] \in 2..Half-1 /\ timeout'[t] = timeout[t] - 1
      BY <1>0, <1>4, <1>10 DEF TimersInv
    <3>3. PICK m \in Sleeps \cup {1} : timeout[t] <= m
      BY <3>2 DEF Pending
    <3>4. m \in Int
      BY <3>3, SchedulerAssumption
    <3>5. timeout'[t] \in 0..Half-1 /\ timeout'[t] <= m /\ timeout'[t] # 0
      BY <3>2, <3>3, <3>4, HalfRange
    <3>. QED BY <3>1, <3>5 DEF Pending
  <2>3. suspend_thread' = suspend_thread
    BY <1>1 DEF mutex
  <2>4. Once(rt_timer_list)' /\ Descending(rt_timer_list, Nearness)'
    BY <1>4, <1>9, <2>1 DEF Once, Descending
  <2>5. (\A u \in Members(rt_timer_list) :
           S.stat[u] = "suspend" /\ u \notin Members(suspend_thread) /\ Pending(timeout[u]))'
    BY <1>9, <2>2, <2>3 DEF Members, Pending
  <2>. QED BY <2>4, <2>5 DEF TimersInv
<1>12. RestOK'
  <2>1. SliceLeft(cur) \in Nat \ {0} /\ SliceLeft(cur) <= init_tick[cur]
    BY <1>0, <1>2, SchedulerAssumption DEF SliceLeft, RestOK
  <2>. HIDE DEF cur
  <2>2. /\ remaining_tick' \in [Everyone -> Nat \ {0}]
        /\ \A t \in Everyone : remaining_tick'[t] <= init_tick[t]
    BY <1>0, <1>1, <1>2, <2>1 DEF RestOK
  <2>3. timeout' \in [Threads -> Ticks]
    <3>1. ASSUME NEW t \in Threads PROVE Later[t] \in Ticks
      <4>1. 0 \in Ticks /\ 1 \in Ticks /\ timeout[t] \in Ticks
        BY <1>0, TickModAssumption DEF Ticks, RestOK
      <4>2. Minus(timeout[t], 1) \in Ticks
        BY <4>1, TicksClosed
      <4>. QED BY <4>1, <4>2 DEF Later
    <3>2. 0 \in Ticks
      BY TickModAssumption DEF Ticks
    <3>. HIDE DEF Later
    <3>. QED BY <1>1, <3>1, <3>2
  <2>. QED BY <1>0, <1>1, <1>4, <1>9, <2>2, <2>3 DEF RestOK, mutex
<1>13. at' = at
  BY <1>1
<1>14. MutexStep
  <2>1. /\ Members(Due) \in SUBSET Threads
        /\ \A t \in Members(Due) : S.stat[t] = "suspend" /\ t \notin Members(suspend_thread)
    BY <1>4, <1>5, ListFacts
  <2>2. S'.current_priority = S.current_priority /\ UNCHANGED mutex /\ UNCHANGED ops
    BY <1>1, <1>3, <1>6
  <2>. QED BY <1>0, <1>7, <2>1, <2>2, ShownWake
<1>15. ResumedInv'
  <2>1. UNCHANGED resumed /\ suspend_thread' = suspend_thread
    BY <1>1 DEF mutex
  <2>2. ASSUME NEW u \in Threads, Unlisted(u)
        PROVE  /\ S'.stat[u] = "suspend"
               /\ u \notin Members(suspend_thread') /\ u \notin Members(rt_timer_list')
    BY <1>4, <1>7, <1>9, <2>1, <2>2, PrioritiesAreNumbers DEF Unlisted
  <2>. QED BY <2>1, <2>2, ResumedKept
<1>. QED BY <1>6, <1>8, <1>11, <1>12, <1>13, <1>14, <1>15, Whole

\* A thread that runs its own code and may block is the most urgent one, and has
\* no yield mark.
LEMMA Blockable ==
    ASSUME SchedInv, NEW t \in Threads, MayBlock(t)
    PROVE  /\ S.current = t /\ at[t] = "run" /\ S.nest = 0 /\ t # idle /\ t \in Everyone
           /\ Urgent(S) /\ S.stat[t] = "running" /\ ~S.yield[t]
           /\ t \notin Members(rt_timer_list) /\ t \notin Members(suspend_thread)
<1>1. S.current = t /\ at[t] = "run" /\ S.nest = 0
  BY DEF MayBlock, Runs
<1>2. t # idle /\ t \in Everyone
  BY SchedulerAssumption DEF Everyone
<1>3. Urgent(S) /\ S.stat[t] = "running" /\ ~S.yield[t]
  BY <1>1, <1>2 DEF SchedInv, Placed, Urgent
<1>4. t \notin Members(rt_timer_list) /\ t \notin Members(suspend_thread)
  BY <1>3 DEF SchedInv, TimersInv, MutexInv
<1>. QED BY <1>1, <1>2, <1>3, <1>4

\* A thread that may block is one that may run in RtMutex.
LEMMA ShownRunning ==
    ASSUME SchedInv, NEW t \in Threads, MayBlock(t)
    PROVE  Mutex!Running(t)
<1>0. RestOK /\ S \in Records /\ Good(S)
  BY Parts
<1>1. S.current = t /\ Urgent(S) /\ S.stat[t] = "running"
  BY Blockable
<1>2. AbstractStat[t] = "ready"
  BY <1>0, <1>1, ShownStat
<1>3. ASSUME NEW u \in Threads, AbstractStat[u] = "ready"
      PROVE  Urgencies[t] <= Urgencies[u]
  <2>1. u \in Everyone /\ S.stat[u] # "suspend"
    BY <1>0, <1>3, ShownStat, PrioritiesAreNumbers
  <2>2. S.current_priority[u] \in Nat /\ S.current_priority[t] \in Nat
    BY <1>0, PrioritiesAreNumbers DEF Records
  <2>3. CASE S.stat[u] = "ready"
    <3>1. u \in Ready(S)
      BY <2>1, <2>3 DEF Ready
    <3>. QED BY <1>1, <3>1 DEF Urgent, Urgencies
  <2>4. CASE S.stat[u] = "running"
    <3>1. u = t
      BY <1>0, <1>1, <2>1, <2>4 DEF Good
    <3>. QED BY <2>2, <3>1 DEF Urgencies
  <2>. QED BY <1>0, <2>1, <2>3, <2>4 DEF Records, Stats
<1>. QED BY <1>2, <1>3 DEF Mutex!Running, Urgencies

\* A thread that goes to sleep, with or without a timer.
LEMMA ShownSleep ==
    ASSUME SchedInv, NEW t \in Threads, MayBlock(t), owner # t, UNCHANGED mutex,
           ops' = [ops EXCEPT ![t] = 0], S'.current_priority = S.current_priority,
           \A u \in Everyone : S'.stat[u] = "suspend" <=> S.stat[u] = "suspend" \/ u = t
    PROVE  MutexStep
<1>0. RestOK /\ t \notin Members(suspend_thread) /\ Mutex!Running(t)
  BY Parts, Blockable, ShownRunning
<1>1. t \notin Range(suspend_thread)
  BY <1>0, ListFacts DEF RestOK
<1>2. AbstractStat' = [AbstractStat EXCEPT ![t] = "sleeping"]
  BY <1>1, PrioritiesAreNumbers DEF AbstractStat, mutex
<1>3. Mutex!rt_thread_sleep(t)
  BY <1>0, <1>2 DEF Mutex!rt_thread_sleep, Mutex!mutexvars, mutex
<1>. QED BY <1>3 DEF MutexStep, Mutex!Next

\* Up to the rt_schedule() that it owes, the current thread stays current.
LEMMA OwesSchedule ==
    ASSUME SchedInv, NEW t \in Threads, MayBlock(t), at' = [at EXCEPT ![t] = "schedule"],
           S'.current = S.current, S'.nest = S.nest, S'.yield = S.yield
    PROVE  Placed(S', at')
<1>1. at \in [Everyone -> {"run", "schedule"}] /\ Placed(S, at)
  BY Parts DEF RestOK
<1>2. /\ S.current = t /\ at[t] = "run" /\ S.nest = 0 /\ t # idle /\ t \in Everyone
      /\ ~S.yield[t]
  BY Blockable
<1>3. at'[t] = "schedule" /\ \A u \in Everyone \ {t} : at'[u] = at[u]
  BY <1>1, <1>2
<1>4. at'[idle] = "run"
  BY <1>1, <1>2, <1>3, PrioritiesAreNumbers DEF Placed
<1>5. ASSUME NEW u \in Everyone, at'[u] = "run", S'.yield[u] PROVE FALSE
  BY <1>1, <1>2, <1>3, <1>5 DEF Placed
<1>. QED BY <1>2, <1>3, <1>4, <1>5 DEF Placed

\* An interrupt wakes a thread.
LEMMA IsrStep ==
    ASSUME SchedInv, NEW t \in Threads, IsrResume(t)
    PROVE  SchedInv' /\ MutexStep
<1>0. /\ TypeOK /\ RestOK /\ S \in Records /\ t \in Everyone
      /\ Good(S) /\ Placed(S, at) /\ MutexInv /\ TimersInv
  BY Parts, PrioritiesAreNumbers
<1>1. /\ S.stat[t] = "suspend" /\ t \notin Members(suspend_thread)
      /\ StopTimer(t) /\ S' = rt_thread_timeout(S, t)
      /\ UNCHANGED <<remaining_tick, at, resumed, mutex, ops>>
  BY <1>0, ListFacts DEF IsrResume, Wakeable, RestOK, rt_thread_timeout
<1>2. /\ Good(S') /\ Placed(S', at)
      /\ S'.current_priority = S.current_priority
      /\ \A u \in Everyone : S'.stat[u] = "suspend" <=> S.stat[u] = "suspend" /\ u # t
  BY <1>0, <1>1, TimeoutEffect
<1>3. MutexInv'
  <2>1. \A u \in Members(suspend_thread) : u \in Everyone /\ S.stat[u] = "suspend"
    BY <1>0, ListFacts, PrioritiesAreNumbers DEF MutexInv, RestOK
  <2>2. owner # NoThread => S'.stat[owner] # "suspend"
    BY <1>0, <1>2, PrioritiesAreNumbers DEF MutexInv, RestOK
  <2>. QED BY <1>0, <1>1, <1>2, <2>1, <2>2, MutexKept
<1>4. TimersInv' /\ rt_timer_list' \in Seq(Threads) /\ timeout' \in [Threads -> Ticks]
  <2>1. \A u \in Members(rt_timer_list) \ {t} : u \in Everyone /\ S'.stat[u] = "suspend"
    BY <1>0, <1>2, ListFacts, PrioritiesAreNumbers DEF TimersInv, RestOK
  <2>2. \A u \in Members(rt_timer_list) : u \notin Members(suspend_thread')
    BY <1>0, <1>1 DEF TimersInv, mutex
  <2>. QED BY <1>0, <1>1, <2>1, <2>2, StopTimerEffect
<1>5. RestOK'
  BY <1>0, <1>1, <1>4 DEF RestOK, mutex
<1>6. MutexStep
  <2>1. /\ {t} \in SUBSET Threads
        /\ \A u \in Everyone : S'.stat[u] = "suspend" <=> S.stat[u] = "suspend" /\ u \notin {t}
        /\ \A u \in {t} : S.stat[u] = "suspend" /\ u \notin Members(suspend_thread)
    BY <1>1, <1>2
  <2>. QED BY <1>0, <1>1, <1>2, <2>1, ShownWake
<1>7. ResumedInv'
  <2>1. UNCHANGED resumed /\ suspend_thread' = suspend_thread
    BY <1>1 DEF mutex
  <2>2. \A v \in Threads : resumed[v] # t
    BY DEF IsrResume, Wakeable
  <2>3. Members(rt_timer_list') = Members(rt_timer_list) \ {t}
    BY <1>0, <1>1, StoppedMembers
  <2>4. ASSUME NEW u \in Threads, Unlisted(u), \E v \in Threads : resumed[v] = u
        PROVE  /\ S'.stat[u] = "suspend"
               /\ u \notin Members(suspend_thread') /\ u \notin Members(rt_timer_list')
    <3>1. u # t /\ u \in Everyone
      BY <2>2, <2>4, PrioritiesAreNumbers
    <3>. QED BY <1>2, <2>1, <2>3, <2>4, <3>1 DEF Unlisted
  <2>. QED BY <2>1, <2>4, ResumedKept
<1>. QED BY <1>1, <1>2, <1>3, <1>4, <1>5, <1>6, <1>7, Whole

\* The rt_schedule() at the end of a call, whatever came in between.
LEMMA RescheduleStep ==
    ASSUME SchedInv, NEW t \in Threads, Reschedule(t)
    PROVE  SchedInv' /\ MutexStep
<1>0. /\ TypeOK /\ RestOK /\ S \in Records /\ t \in Everyone /\ t # idle
      /\ Good(S) /\ Placed(S, at) /\ MutexInv /\ TimersInv
  BY Parts, PrioritiesAreNumbers, SchedulerAssumption
<1>1. /\ S.current = t /\ at[t] = "schedule" /\ at' = [at EXCEPT ![t] = "run"]
      /\ S' = rt_schedule(S)
      /\ UNCHANGED <<remaining_tick, timers, resumed, mutex, ops>>
  BY DEF Reschedule
<1>2. Scheduled(S, S')
  BY <1>0, <1>1, ScheduleEffect
<1>3. /\ at' \in [Everyone -> {"run", "schedule"}]
      /\ \A u \in Everyone \ {t} : at'[u] = at[u]
  BY <1>0, <1>1 DEF RestOK
<1>4. Placed(S', at')
  <2>1. at'[idle] = "run"
    BY <1>0, <1>3, PrioritiesAreNumbers DEF Placed
  <2>2. S.nest = 0
    BY <1>0, <1>1 DEF Placed
  <2>3. ASSUME NEW u \in Everyone, at'[u] = "run", S.yield[u]
        PROVE  u = S.current /\ S.stat[u] = "running"
    <3>1. u = t
      BY <1>0, <1>1, <1>3, <2>3 DEF Placed
    <3>2. S.stat[t] # "suspend"
      BY <1>0, <1>1, <2>3, <3>1 DEF Placed
    <3>. QED BY <1>0, <1>1, <3>1, <3>2 DEF Good, Records, Stats
  <2>4. Marked(S, at')
    BY <2>3 DEF Marked
  <2>. QED BY <1>0, <1>1, <2>1, <2>2, <2>4, SchedulePlaces
<1>5. \A u \in Everyone : S'.stat[u] = "suspend" <=> S.stat[u] = "suspend"
  BY <1>2 DEF Scheduled
<1>6. MutexInv'
  <2>1. \A u \in Members(suspend_thread) : u \in Everyone /\ S.stat[u] = "suspend"
    BY <1>0, ListFacts, PrioritiesAreNumbers DEF MutexInv, RestOK
  <2>2. owner # NoThread => S'.stat[owner] # "suspend"
    BY <1>0, <1>5, PrioritiesAreNumbers DEF MutexInv, RestOK
  <2>3. S'.current_priority = S.current_priority
    BY <1>2 DEF Scheduled
  <2>. QED BY <1>0, <1>1, <1>5, <2>1, <2>2, <2>3, MutexKept
<1>7. TimersInv'
  <2>1. \A u \in Members(rt_timer_list) : u \in Everyone /\ S'.stat[u] = "suspend"
    BY <1>0, <1>5, ListFacts, PrioritiesAreNumbers DEF TimersInv, RestOK
  <2>2. UNCHANGED suspend_thread
    BY <1>1 DEF mutex
  <2>. QED BY <1>0, <1>1, <2>1, <2>2, TimersKept
<1>8. RestOK'
  BY <1>0, <1>1, <1>3 DEF RestOK, mutex, timers
<1>9. Good(S')
  BY <1>2 DEF Scheduled
<1>10. MutexStep
  <2>1. S'.current_priority = S.current_priority
    BY <1>2 DEF Scheduled
  <2>. QED BY <1>0, <1>1, <1>5, <2>1, ShownStutter
<1>11. ResumedInv'
  <2>1. UNCHANGED <<resumed, suspend_thread, rt_timer_list>>
    BY <1>1 DEF mutex, timers
  <2>2. ASSUME NEW u \in Threads, Unlisted(u)
        PROVE  /\ S'.stat[u] = "suspend"
               /\ u \notin Members(suspend_thread') /\ u \notin Members(rt_timer_list')
    BY <1>5, <2>1, <2>2, PrioritiesAreNumbers DEF Unlisted
  <2>. QED BY <2>1, <2>2, ResumedKept
<1>. QED BY <1>4, <1>6, <1>7, <1>8, <1>9, <1>10, <1>11, Whole

\* The current thread is suspended and owes rt_schedule(): what the three calls
\* that block have in common.
LEMMA BlockEffect ==
    ASSUME SchedInv, NEW t \in Threads, MayBlock(t), owner # t, S' = rt_thread_suspend(S, t),
           at' = [at EXCEPT ![t] = "schedule"], UNCHANGED mutex
    PROVE  /\ Good(S') /\ Placed(S', at') /\ MutexInv'
           /\ at' \in [Everyone -> {"run", "schedule"}]
           /\ S'.current_priority = S.current_priority
           /\ \A u \in Everyone : S'.stat[u] = "suspend" <=> S.stat[u] = "suspend" \/ u = t
<1>0. /\ RestOK /\ S \in Records /\ Good(S) /\ Placed(S, at) /\ MutexInv
  BY Parts
<1>1. t \in Everyone /\ S.current = t
  BY Blockable
<1>2. /\ Good(S')
      /\ S'.stat = [S.stat EXCEPT ![t] = "suspend"]
      /\ S'.yield = S.yield
      /\ S'.current_priority = S.current_priority
      /\ S'.current = S.current /\ S'.nest = S.nest
  BY <1>0, <1>1, SuspendEffect
<1>3. Placed(S', at')
  BY <1>2, OwesSchedule
<1>4. \A u \in Everyone : S'.stat[u] = "suspend" <=> S.stat[u] = "suspend" \/ u = t
  BY <1>0, <1>1, <1>2 DEF Records
<1>5. MutexInv'
  <2>1. \A u \in Members(suspend_thread) : u \in Everyone /\ S.stat[u] = "suspend"
    BY <1>0, ListFacts, PrioritiesAreNumbers DEF MutexInv, RestOK
  <2>2. owner # NoThread => S'.stat[owner] # "suspend"
    BY <1>0, <1>4, PrioritiesAreNumbers DEF MutexInv, RestOK
  <2>. QED BY <1>0, <1>2, <1>4, <2>1, <2>2, MutexKept
<1>6. at' \in [Everyone -> {"run", "schedule"}]
  BY <1>0 DEF RestOK
<1>. QED BY <1>2, <1>3, <1>4, <1>5, <1>6

\* rt_thread_sleep.
LEMMA SleepStep ==
    ASSUME SchedInv, NEW t \in Threads, rt_thread_sleep(t)
    PROVE  SchedInv' /\ MutexStep
<1>0. /\ RestOK /\ TimersInv /\ t \notin Members(rt_timer_list) /\ t \notin Members(suspend_thread)
      /\ t \in Everyone
  BY Parts, Blockable DEF rt_thread_sleep
<1>1. PICK n \in Sleeps :
         /\ timeout' = [timeout EXCEPT ![t] = n]
         /\ rt_timer_list' = InsertTimer(_rt_timer_remove(rt_timer_list, t), timeout', t)
  BY DEF rt_thread_sleep
<1>2. /\ MayBlock(t) /\ owner # t /\ S' = rt_thread_suspend(S, t)
      /\ at' = [at EXCEPT ![t] = "schedule"] /\ ops' = [ops EXCEPT ![t] = 0]
      /\ UNCHANGED <<remaining_tick, resumed, mutex>>
  BY DEF rt_thread_sleep
<1>3. /\ Good(S') /\ Placed(S', at') /\ MutexInv'
      /\ at' \in [Everyone -> {"run", "schedule"}]
      /\ S'.current_priority = S.current_priority
      /\ \A u \in Everyone : S'.stat[u] = "suspend" <=> S.stat[u] = "suspend" \/ u = t
  BY <1>2, BlockEffect
<1>. DEFINE rest == _rt_timer_remove(rt_timer_list, t)
<1>4. /\ rt_timer_list \in Seq(Threads) /\ Once(rt_timer_list) /\ Descending(rt_timer_list, Nearness)
      /\ timeout \in [Threads -> Ticks] /\ Nearness \in [Threads -> Int]
  BY <1>0 DEF RestOK, TimersInv, Nearness, Ticks
<1>5. /\ rest \in Seq(Threads) /\ Once(rest) /\ Members(rest) = Members(rt_timer_list)
      /\ Descending(rest, Nearness)
  <2>1. /\ rest \in Seq(Threads) /\ Once(rest) /\ Members(rest) = Members(rt_timer_list) \ {t}
    BY <1>4, RemovedMembers
  <2>2. Descending(rest, Nearness)
    BY <1>4, RemovedInOrder
  <2>. HIDE DEF rest
  <2>. QED BY <1>0, <2>1, <2>2
<1>. HIDE DEF rest
<1>6. rt_timer_list' = InsertTimer(rest, timeout', t)
  BY <1>1 DEF rest
<1>7. n \in 0..Half-1 /\ n \in Ticks
  <2>1. n \in 0..Half-1
    BY SchedulerAssumption
  <2>2. Half \in Nat /\ TickMod \in Nat /\ Half <= TickMod
    BY HalfRange, TickModAssumption
  <2>. QED BY <2>1, <2>2 DEF Ticks
<1>8. /\ timeout' \in [Threads -> Ticks] /\ timeout'[t] = n
      /\ \A u \in Members(rest) : u \in Threads /\ timeout'[u] = timeout[u] /\ timeout[u] \in 0..Half-1
  <2>1. timeout' \in [Threads -> Ticks] /\ timeout'[t] = n
    BY <1>1, <1>4, <1>7
  <2>2. ASSUME NEW u \in Members(rest)
        PROVE  u \in Threads /\ timeout'[u] = timeout[u] /\ timeout[u] \in 0..Half-1
    <3>1. u \in Threads /\ u # t
      BY <1>0, <1>5, ListFacts
    <3>. QED BY <1>0, <1>1, <1>4, <1>5, <3>1 DEF TimersInv, Pending
  <2>. QED BY <2>1, <2>2
<1>9. Nearness' \in [Threads -> Int] /\ \A u \in Threads : Nearness'[u] = -timeout'[u]
  BY <1>8 DEF Nearness, Ticks
<1>10. Descending(rest, Nearness')
  <2>1. \A u \in Members(rest) : Nearness'[u] = Nearness[u]
    BY <1>8, <1>9 DEF Nearness
  <2>. QED BY <1>5, <2>1, OrderKept
<1>11. ASSUME NEW u \in Members(rest)
       PROVE  StopsSearch(timeout'[u], timeout'[t]) <=> Nearness'[u] < Nearness'[t]
  <2>. DEFINE a == timeout'[u]
  <2>1. a \in 0..Half-1 /\ a \in Ticks /\ u \in Threads
    BY <1>8, HalfRange DEF Ticks
  <2>2. Nearness'[u] = -a /\ Nearness'[t] = -n
    BY <1>8, <1>9, <2>1
  <2>. HIDE DEF a
  <2>3. Minus(a, n) = IF a >= n THEN a - n ELSE a - n + TickMod
    BY <1>7, <2>1, MinusWraps
  <2>4. StopsSearch(a, n) <=> a > n
    <3>1. a \in Int /\ n \in Int /\ 0 <= a /\ 0 <= n /\ a < Half /\ n < Half
      BY <1>7, <2>1, HalfRange
    <3>2. Half \in Nat /\ TickMod \in Nat /\ 2 * Half + 1 <= TickMod
      BY HalfRange, TickModAssumption
    <3>3. CASE a >= n
      <4>1. Minus(a, n) = a - n
        BY <2>3, <3>1, <3>3
      <4>2. Half \in Int
        BY <3>2
      <4>3. (Minus(a, n) # 0 /\ Minus(a, n) < Half) <=> a > n
        BY <3>1, <3>3, <4>1, <4>2
      <4>. QED BY <4>3 DEF StopsSearch
    <3>4. CASE a < n
      <4>1. Minus(a, n) = a - n + TickMod
        BY <2>3, <3>1, <3>4
      <4>2. ~(Minus(a, n) < Half)
        BY <3>1, <3>2, <4>1
      <4>. QED BY <3>1, <3>4, <4>2 DEF StopsSearch
    <3>. QED BY <3>1, <3>3, <3>4
  <2>5. StopsSearch(a, n) <=> Nearness'[u] < Nearness'[t]
    BY <1>7, <2>1, <2>2, <2>4
  <2>. QED BY <1>8, <2>5 DEF a
<1>12. /\ rt_timer_list' \in Seq(Threads) /\ Once(rt_timer_list')
       /\ Members(rt_timer_list') = Members(rt_timer_list) \cup {t}
  BY <1>0, <1>5, <1>6, PutInMembers
<1>13. Descending(rt_timer_list', Nearness')
  BY <1>5, <1>6, <1>9, <1>10, <1>11, PutInOrder
<1>14. TimersInv'
  <2>1. ASSUME NEW u \in Members(rt_timer_list')
        PROVE  S'.stat[u] = "suspend" /\ u \notin Members(suspend_thread) /\ Pending(timeout'[u])
    <3>1. CASE u = t
      <4>1. Pending(n)
        BY <1>7 DEF Pending
      <4>. QED BY <1>0, <1>3, <1>8, <3>1, <4>1
    <3>2. CASE u # t
      <4>1. u \in Members(rt_timer_list) /\ u \in Everyone
        BY <1>4, <1>12, <3>2, ListFacts, PrioritiesAreNumbers
      <4>2. timeout'[u] = timeout[u]
        BY <1>5, <1>8, <4>1
      <4>. QED BY <1>0, <1>3, <4>1, <4>2 DEF TimersInv
    <3>. QED BY <3>1, <3>2
  <2>2. suspend_thread' = suspend_thread
    BY <1>2 DEF mutex
  <2>3. Once(rt_timer_list)' /\ Descending(rt_timer_list, Nearness)'
    BY <1>12, <1>13 DEF Once, Descending
  <2>4. (\A u \in Members(rt_timer_list) :
           S.stat[u] = "suspend" /\ u \notin Members(suspend_thread) /\ Pending(timeout[u]))'
    BY <2>1, <2>2 DEF Members, Pending
  <2>. QED BY <2>3, <2>4 DEF TimersInv
<1>15. RestOK'
  <2>1. ops' \in [Threads -> 0..MaxOps]
    BY <1>0, <1>2, SchedulerAssumption DEF RestOK
  <2>. QED BY <1>0, <1>2, <1>3, <1>8, <1>12, <2>1 DEF RestOK, mutex
<1>16. MutexStep
  BY <1>2, <1>3, ShownSleep
<1>17. ResumedInv'
  <2>1. UNCHANGED resumed /\ suspend_thread' = suspend_thread /\ S.stat[t] = "running"
    BY <1>2, Blockable DEF mutex
  <2>2. ASSUME NEW u \in Threads, Unlisted(u)
        PROVE  /\ S'.stat[u] = "suspend"
               /\ u \notin Members(suspend_thread') /\ u \notin Members(rt_timer_list')
    BY <1>3, <1>12, <2>1, <2>2, PrioritiesAreNumbers DEF Unlisted
  <2>. QED BY <2>1, <2>2, ResumedKept
<1>. QED BY <1>3, <1>14, <1>15, <1>16, <1>17, Whole

\* Waiting for a semaphore, or suspending oneself.
LEMMA WaitStep ==
    ASSUME SchedInv, NEW t \in Threads, WaitForever(t)
    PROVE  SchedInv' /\ MutexStep
<1>0. RestOK /\ TimersInv
  BY Parts
<1>1. /\ MayBlock(t) /\ owner # t /\ StopTimer(t) /\ S' = rt_thread_suspend(S, t)
      /\ at' = [at EXCEPT ![t] = "schedule"] /\ ops' = [ops EXCEPT ![t] = 0]
      /\ UNCHANGED <<remaining_tick, resumed, mutex>>
  BY DEF WaitForever
<1>2. /\ Good(S') /\ Placed(S', at') /\ MutexInv'
      /\ at' \in [Everyone -> {"run", "schedule"}]
      /\ S'.current_priority = S.current_priority
      /\ \A u \in Everyone : S'.stat[u] = "suspend" <=> S.stat[u] = "suspend" \/ u = t
  BY <1>1, BlockEffect
<1>3. TimersInv' /\ rt_timer_list' \in Seq(Threads) /\ timeout' \in [Threads -> Ticks]
  <2>1. \A u \in Members(rt_timer_list) : u \in Everyone /\ S'.stat[u] = "suspend"
    BY <1>0, <1>2, ListFacts, PrioritiesAreNumbers DEF TimersInv, RestOK
  <2>2. \A u \in Members(rt_timer_list) : u \notin Members(suspend_thread')
    BY <1>0, <1>1 DEF TimersInv, mutex
  <2>. QED BY <1>0, <1>1, <2>1, <2>2, StopTimerEffect
<1>4. RestOK'
  <2>1. ops' \in [Threads -> 0..MaxOps]
    BY <1>0, <1>1, SchedulerAssumption DEF RestOK
  <2>. QED BY <1>0, <1>1, <1>2, <1>3, <2>1 DEF RestOK, mutex
<1>5. MutexStep
  BY <1>1, <1>2, ShownSleep
<1>6. ResumedInv'
  <2>1. UNCHANGED resumed /\ suspend_thread' = suspend_thread
    BY <1>1 DEF mutex
  <2>2. Members(rt_timer_list') = Members(rt_timer_list) \ {t}
    BY <1>0, <1>1, StoppedMembers
  <2>3. ASSUME NEW u \in Threads, Unlisted(u)
        PROVE  /\ S'.stat[u] = "suspend"
               /\ u \notin Members(suspend_thread') /\ u \notin Members(rt_timer_list')
    BY <1>2, <2>1, <2>2, <2>3, PrioritiesAreNumbers DEF Unlisted
  <2>. QED BY <2>1, <2>3, ResumedKept
<1>. QED BY <1>2, <1>3, <1>4, <1>5, <1>6, Whole

\* rt_thread_resume by a thread, until interrupts are on again.
LEMMA ResumeStep ==
    ASSUME SchedInv, NEW t \in Threads, NEW u \in Threads, rt_thread_resume(t, u)
    PROVE  SchedInv' /\ MutexStep
<1>0. /\ RestOK /\ S \in Records /\ u \in Everyone /\ u # NoThread
      /\ Good(S) /\ Placed(S, at) /\ MutexInv /\ TimersInv /\ ResumedInv
  BY Parts, PrioritiesAreNumbers, SchedulerAssumption
<1>1. /\ MayBlock(t) /\ S.stat[u] = "suspend" /\ u \notin Members(suspend_thread)
      /\ \A v \in Threads : resumed[v] # u
      /\ StopTimer(u) /\ resumed' = [resumed EXCEPT ![t] = u]
      /\ at' = [at EXCEPT ![t] = "schedule"]
      /\ UNCHANGED <<S, remaining_tick, mutex, ops>>
  BY <1>0, ListFacts DEF rt_thread_resume, Wakeable, RestOK
<1>2. Placed(S', at')
  BY <1>1, OwesSchedule
<1>3. \A v \in Everyone : S'.stat[v] = "suspend" <=> S.stat[v] = "suspend"
  BY <1>1
<1>4. MutexInv'
  BY <1>0, <1>1, MutexKept DEF MutexInv
<1>5. TimersInv' /\ rt_timer_list' \in Seq(Threads) /\ timeout' \in [Threads -> Ticks]
  <2>1. \A v \in Members(rt_timer_list) \ {u} : S'.stat[v] = "suspend" /\ v \notin Members(suspend_thread')
    BY <1>0, <1>1 DEF TimersInv, mutex
  <2>. QED BY <1>0, <1>1, <2>1, StopTimerEffect
<1>6. resumed' \in [Threads -> Threads \cup {NoThread}]
  BY <1>0, <1>1 DEF RestOK
<1>7. RestOK'
  <2>1. at' \in [Everyone -> {"run", "schedule"}]
    BY <1>0, <1>1 DEF RestOK
  <2>. QED BY <1>0, <1>1, <1>5, <1>6, <2>1 DEF RestOK, mutex
<1>8. ResumedInv'
  <2>1. UNCHANGED suspend_thread /\ Members(rt_timer_list') = Members(rt_timer_list) \ {u}
    BY <1>0, <1>1, StoppedMembers DEF mutex
  <2>2. resumed'[t] = u /\ \A v \in Threads \ {t} : resumed'[v] = resumed[v]
    BY <1>0, <1>1 DEF RestOK
  <2>3. ASSUME NEW v \in Threads, resumed'[v] # NoThread
        PROVE  /\ S'.stat[resumed'[v]] = "suspend"
               /\ resumed'[v] \notin Members(suspend_thread') /\ resumed'[v] \notin Members(rt_timer_list')
    BY <1>0, <1>1, <2>1, <2>2, <2>3 DEF ResumedInv, Unlisted
  <2>4. ASSUME NEW v \in Threads, resumed'[v] # NoThread, NEW w \in Threads, resumed'[w] = resumed'[v]
        PROVE  w = v
    BY <1>0, <1>1, <2>2, <2>4 DEF ResumedInv
  <2>. QED BY <2>3, <2>4 DEF ResumedInv, Unlisted, Members
<1>9. MutexStep
  BY <1>0, <1>1, <1>3, ShownStutter
<1>. QED BY <1>0, <1>1, <1>2, <1>4, <1>5, <1>7, <1>8, <1>9, Whole

\* The rest of rt_thread_resume, whatever came in between.
LEMMA InsertStep ==
    ASSUME SchedInv, NEW t \in Threads, InsertResumed(t)
    PROVE  SchedInv' /\ MutexStep
<1>. DEFINE u == resumed[t]
<1>0. /\ RestOK /\ S \in Records /\ t \in Everyone
      /\ Good(S) /\ Placed(S, at) /\ MutexInv /\ TimersInv /\ ResumedInv
  BY Parts, PrioritiesAreNumbers
<1>1. /\ S.current = t /\ at[t] = "schedule" /\ u # NoThread
      /\ S' = rt_schedule_insert_thread(S, u)
      /\ resumed' = [resumed EXCEPT ![t] = NoThread]
      /\ UNCHANGED <<remaining_tick, timers, at, mutex, ops>>
  BY DEF InsertResumed
<1>2. /\ u \in Threads /\ u \in Everyone /\ S.stat[u] = "suspend"
      /\ u \notin Members(suspend_thread) /\ u \notin Members(rt_timer_list)
      /\ \A v \in Threads \ {t} : resumed[v] # u
  BY <1>0, <1>1, PrioritiesAreNumbers DEF ResumedInv, Unlisted, RestOK
<1>. HIDE DEF u
<1>3. /\ Good(S')
      /\ S'.stat = [S.stat EXCEPT ![u] = IF u = S.current THEN "running" ELSE "ready"]
      /\ S'.yield = S.yield
      /\ S'.current_priority = S.current_priority
      /\ S'.current = S.current /\ S'.nest = S.nest
  BY <1>0, <1>1, <1>2, WakeEffect
<1>4. \A v \in Everyone : S'.stat[v] = "suspend" <=> S.stat[v] = "suspend" /\ v # u
  BY <1>0, <1>2, <1>3 DEF Records
<1>5. Placed(S', at')
  <2>1. S.nest = 0 /\ at' = at
    BY <1>0, <1>1 DEF Placed
  <2>2. S'.stat[t] = "suspend" => ~S'.yield[t]
    BY <1>0, <1>1, <1>3, <1>4 DEF Placed
  <2>3. \A v \in Everyone : at[v] = "run" /\ S'.yield[v] => v = S'.current /\ (S'.nest # 0 \/ v = idle)
    BY <1>0, <1>3 DEF Placed
  <2>. QED BY <1>0, <1>1, <1>3, <2>1, <2>2, <2>3 DEF Placed
<1>6. MutexInv'
  <2>1. \A v \in Members(suspend_thread) : v \in Everyone /\ S.stat[v] = "suspend" /\ v # u
    BY <1>0, <1>2, ListFacts, PrioritiesAreNumbers DEF MutexInv, RestOK
  <2>2. owner # NoThread => S'.stat[owner] # "suspend"
    BY <1>0, <1>4, PrioritiesAreNumbers DEF MutexInv, RestOK
  <2>. QED BY <1>0, <1>1, <1>3, <1>4, <2>1, <2>2, MutexKept
<1>7. TimersInv'
  <2>1. \A v \in Members(rt_timer_list) : v \in Everyone /\ S'.stat[v] = "suspend"
    BY <1>0, <1>2, <1>4, ListFacts, PrioritiesAreNumbers DEF TimersInv, RestOK
  <2>2. UNCHANGED suspend_thread /\ UNCHANGED timers
    BY <1>1 DEF mutex
  <2>. QED BY <1>0, <2>1, <2>2, TimersKept
<1>8. resumed' \in [Threads -> Threads \cup {NoThread}]
      /\ resumed'[t] = NoThread /\ \A v \in Threads \ {t} : resumed'[v] = resumed[v]
  BY <1>0, <1>1 DEF RestOK
<1>9. RestOK'
  BY <1>0, <1>1, <1>8 DEF RestOK, mutex, timers
<1>10. ResumedInv'
  <2>1. UNCHANGED <<suspend_thread, rt_timer_list>>
    BY <1>1 DEF mutex, timers
  <2>2. ASSUME NEW v \in Threads, resumed'[v] # NoThread
        PROVE  /\ v # t /\ resumed'[v] = resumed[v] /\ resumed[v] # u /\ resumed[v] \in Everyone
               /\ Unlisted(resumed[v])
    BY <1>0, <1>2, <1>8, <2>2, PrioritiesAreNumbers DEF ResumedInv, RestOK
  <2>3. ASSUME NEW v \in Threads, resumed'[v] # NoThread
        PROVE  /\ S'.stat[resumed'[v]] = "suspend"
               /\ resumed'[v] \notin Members(suspend_thread') /\ resumed'[v] \notin Members(rt_timer_list')
    BY <1>4, <2>1, <2>2, <2>3 DEF Unlisted
  <2>4. ASSUME NEW v \in Threads, resumed'[v] # NoThread, NEW w \in Threads, resumed'[w] = resumed'[v]
        PROVE  w = v
    BY <1>0, <2>2, <2>4 DEF ResumedInv
  <2>. QED BY <2>3, <2>4 DEF ResumedInv, Unlisted, Members
<1>11. MutexStep
  <2>1. /\ {u} \in SUBSET Threads
        /\ \A v \in Everyone : S'.stat[v] = "suspend" <=> S.stat[v] = "suspend" /\ v \notin {u}
        /\ \A v \in {u} : S.stat[v] = "suspend" /\ v \notin Members(suspend_thread)
    BY <1>2, <1>4
  <2>. QED BY <1>0, <1>1, <1>3, <2>1, ShownWake
<1>. QED BY <1>3, <1>5, <1>6, <1>7, <1>9, <1>10, <1>11, Whole

\* Steps that move neither the sleepers, nor the mutex, nor the timers.
LEMMA OnlyScheduler ==
    ASSUME SchedInv, UNCHANGED <<timers, resumed, mutex, ops>>, Good(S'), Placed(S', at'),
           S'.current_priority = S.current_priority,
           \A u \in Everyone : S'.stat[u] = "suspend" <=> S.stat[u] = "suspend",
           RestOK'
    PROVE  SchedInv' /\ MutexStep
<1>0. RestOK /\ MutexInv /\ TimersInv
  BY Parts
<1>1. MutexInv'
  <2>1. \A u \in Members(suspend_thread) : u \in Everyone /\ S.stat[u] = "suspend"
    BY <1>0, ListFacts, PrioritiesAreNumbers DEF MutexInv, RestOK
  <2>2. owner # NoThread => S'.stat[owner] # "suspend"
    BY <1>0, PrioritiesAreNumbers DEF MutexInv, RestOK
  <2>. QED BY <1>0, <2>1, <2>2, MutexKept
<1>2. TimersInv'
  <2>1. \A u \in Members(rt_timer_list) : u \in Everyone /\ S'.stat[u] = "suspend"
    BY <1>0, ListFacts, PrioritiesAreNumbers DEF TimersInv, RestOK
  <2>2. UNCHANGED suspend_thread /\ UNCHANGED timers
    BY DEF mutex
  <2>. QED BY <1>0, <2>1, <2>2, TimersKept
<1>3. MutexStep
  BY <1>0, ShownStutter
<1>4. ResumedInv'
  <2>1. UNCHANGED <<resumed, suspend_thread, rt_timer_list>>
    BY DEF mutex, timers
  <2>2. ASSUME NEW u \in Threads, Unlisted(u)
        PROVE  /\ S'.stat[u] = "suspend"
               /\ u \notin Members(suspend_thread') /\ u \notin Members(rt_timer_list')
    BY <2>1, <2>2, PrioritiesAreNumbers DEF Unlisted
  <2>. QED BY <2>1, <2>2, ResumedKept
<1>. QED BY <1>1, <1>2, <1>3, <1>4, Whole

\* rt_thread_yield, also with the scheduler locked.
LEMMA YieldStep ==
    ASSUME SchedInv, NEW t \in Threads, rt_thread_yield(t)
    PROVE  SchedInv' /\ MutexStep
<1>. DEFINE marked == [S EXCEPT !.yield[t] = TRUE]
<1>0. /\ RestOK /\ S \in Records /\ t \in Everyone /\ t # idle
      /\ Good(S) /\ Placed(S, at)
  BY Parts, PrioritiesAreNumbers, SchedulerAssumption
<1>1. /\ S.current = t /\ at[t] = "run"
      /\ remaining_tick' = [remaining_tick EXCEPT ![t] = init_tick[t]]
      /\ S' = rt_schedule(marked)
      /\ UNCHANGED <<timers, at, resumed, mutex, ops>>
  BY DEF rt_thread_yield, Runs
<1>2. /\ marked \in Records /\ marked.stat = S.stat /\ marked.yield = [S.yield EXCEPT ![t] = TRUE]
      /\ marked.current_priority = S.current_priority
      /\ marked.table = S.table /\ marked.group = S.group
      /\ marked.current = S.current /\ marked.nest = S.nest
  BY <1>0 DEF Records
<1>. HIDE DEF marked
<1>3. Ready(marked) = Ready(S) /\ Ready(S) \in SUBSET Everyone
  BY <1>2 DEF Ready
<1>4. Tables(marked, Ready(marked))
  BY <1>0, <1>2, <1>3, TablesKept DEF Good
<1>5. Good(marked)
  BY <1>0, <1>2, <1>4 DEF Good
<1>6. Scheduled(marked, S')
  BY <1>1, <1>5, ScheduleEffect
<1>7. S.stat[t] = "running"
  BY <1>0, <1>1 DEF Placed, Urgent
<1>8. Marked(marked, at)
  <2>1. Marked(S, at)
    BY <1>0, PlacedMarks
  <2>. QED BY <1>0, <1>1, <1>2, <1>7, <2>1 DEF Marked, Records
<1>9. Placed(S', at')
  <2>1. at[idle] = "run"
    BY <1>0 DEF Placed
  <2>. QED BY <1>1, <1>2, <1>5, <1>7, <1>8, <2>1, SchedulePlaces
<1>10. /\ Good(S') /\ S'.current_priority = S.current_priority
       /\ \A u \in Everyone : S'.stat[u] = "suspend" <=> S.stat[u] = "suspend"
  BY <1>2, <1>6 DEF Scheduled
<1>11. RestOK'
  <2>1. /\ remaining_tick' \in [Everyone -> Nat \ {0}]
        /\ \A u \in Everyone : remaining_tick'[u] <= init_tick[u]
    <3>1. init_tick[t] \in Nat \ {0} /\ init_tick[t] <= init_tick[t]
      BY <1>0, SchedulerAssumption
    <3>. QED BY <1>0, <1>1, <3>1 DEF RestOK
  <2>. QED BY <1>0, <1>1, <2>1 DEF RestOK, timers, mutex
<1>. QED BY <1>1, <1>9, <1>10, <1>11, OnlyScheduler

\* A change of the nesting alone.
LEMMA NestEffect ==
    ASSUME NEW s, Good(s), NEW n \in 0..MaxNest
    PROVE  LET r == [s EXCEPT !.nest = n]
           IN  /\ Good(r) /\ r.nest = n /\ r.stat = s.stat /\ r.yield = s.yield
               /\ r.current = s.current /\ r.current_priority = s.current_priority
<1>. DEFINE r == [s EXCEPT !.nest = n]
<1>1. /\ r \in Records /\ r.nest = n /\ r.stat = s.stat /\ r.yield = s.yield
      /\ r.current = s.current /\ r.current_priority = s.current_priority
      /\ r.table = s.table /\ r.group = s.group
  BY DEF Good, Records
<1>. HIDE DEF r
<1>2. Ready(r) = Ready(s) /\ Ready(s) \in SUBSET Everyone
  BY <1>1 DEF Ready
<1>3. Tables(r, Ready(r))
  BY <1>1, <1>2, TablesKept DEF Good
<1>4. Good(r)
  BY <1>1, <1>3 DEF Good
<1>. QED BY <1>1, <1>4 DEF r

\* The scheduler is locked.
LEMMA EnterStep ==
    ASSUME SchedInv, NEW t \in Threads, rt_enter_critical(t)
    PROVE  SchedInv' /\ MutexStep
<1>0. RestOK /\ S \in Records /\ Good(S) /\ Placed(S, at)
  BY Parts
<1>1. /\ S.current = t /\ at[t] = "run" /\ S.nest < MaxNest
      /\ S' = [S EXCEPT !.nest = S.nest + 1]
      /\ UNCHANGED <<remaining_tick, timers, at, resumed, mutex, ops>>
  BY DEF rt_enter_critical, Runs
<1>2. S.nest + 1 \in 0..MaxNest /\ S.nest + 1 # 0
  BY <1>0, <1>1, SchedulerAssumption DEF Records
<1>3. /\ Good(S') /\ S'.nest # 0 /\ S'.stat = S.stat /\ S'.yield = S.yield
      /\ S'.current = S.current /\ S'.current_priority = S.current_priority
  BY <1>0, <1>1, <1>2, NestEffect
<1>4. Placed(S', at')
  <2>1. S.stat[t] = "running"
    BY <1>0, <1>1 DEF Placed, Urgent
  <2>2. at' = at
    BY <1>1
  <2>3. \A u \in Everyone : at[u] = "run" /\ S'.yield[u] => u = S'.current
    BY <1>0, <1>3 DEF Placed
  <2>. QED BY <1>0, <1>1, <1>3, <2>1, <2>2, <2>3 DEF Placed
<1>5. RestOK'
  BY <1>0, <1>1 DEF RestOK, timers, mutex
<1>. QED BY <1>1, <1>3, <1>4, <1>5, OnlyScheduler

\* It is unlocked; the last level owes rt_schedule().
LEMMA ExitStep ==
    ASSUME SchedInv, NEW t \in Threads, rt_exit_critical(t)
    PROVE  SchedInv' /\ MutexStep
<1>0. /\ RestOK /\ S \in Records /\ Good(S) /\ Placed(S, at) /\ t \in Everyone /\ t # idle
  BY Parts, PrioritiesAreNumbers, SchedulerAssumption
<1>1. /\ S.current = t /\ at[t] = "run" /\ S.nest > 0
      /\ S' = [S EXCEPT !.nest = S.nest - 1]
      /\ at' = [at EXCEPT ![t] = IF S.nest = 1 THEN "schedule" ELSE at[t]]
      /\ UNCHANGED <<remaining_tick, timers, resumed, mutex, ops>>
  BY DEF rt_exit_critical, Runs
<1>2. S.nest - 1 \in 0..MaxNest /\ S.nest \in Nat
  BY <1>0, <1>1, SchedulerAssumption DEF Records
<1>3. /\ Good(S') /\ S'.nest = S.nest - 1 /\ S'.stat = S.stat /\ S'.yield = S.yield
      /\ S'.current = S.current /\ S'.current_priority = S.current_priority
  BY <1>0, <1>1, <1>2, NestEffect
<1>4. at' \in [Everyone -> {"run", "schedule"}] /\ \A u \in Everyone \ {t} : at'[u] = at[u]
  BY <1>0, <1>1 DEF RestOK
<1>5. Placed(S', at')
  <2>1. S.stat[t] = "running" /\ S'.stat[S'.current] = "running"
    BY <1>0, <1>1, <1>2, <1>3 DEF Placed
  <2>2. at'[idle] = "run"
    BY <1>0, <1>4, PrioritiesAreNumbers DEF Placed
  <2>3. ASSUME NEW u \in Everyone, at'[u] = "run", S'.yield[u] PROVE u = t /\ S'.nest # 0
    <3>1. at[u] = "run"
      BY <1>1, <1>4, <2>3
    <3>2. u = t
      BY <1>0, <1>1, <1>3, <2>3, <3>1 DEF Placed
    <3>3. at'[t] = IF S.nest = 1 THEN "schedule" ELSE at[t]
      BY <1>0, <1>1 DEF RestOK
    <3>. QED BY <1>1, <1>2, <1>3, <2>3, <3>2, <3>3
  <2>4. at'[t] = IF S.nest = 1 THEN "schedule" ELSE "run"
    BY <1>0, <1>1 DEF RestOK
  <2>5. S'.nest # 0 => at'[S'.current] = "run"
    BY <1>1, <1>2, <1>3, <2>4
  <2>6. S'.nest = 0 => at'[S'.current] # "run"
    BY <1>1, <1>2, <1>3, <2>4
  <2>. QED BY <1>1, <1>3, <2>1, <2>2, <2>3, <2>5, <2>6 DEF Placed
<1>6. RestOK'
  BY <1>0, <1>1, <1>4 DEF RestOK, timers, mutex
<1>. QED BY <1>1, <1>3, <1>5, <1>6, OnlyScheduler

\* The free mutex is taken.
LEMMA TakeFreeStep ==
    ASSUME SchedInv, NEW t \in Threads, TakeFree(t)
    PROVE  SchedInv' /\ MutexStep
<1>0. /\ RestOK /\ S \in Records /\ Good(S) /\ Placed(S, at) /\ MutexInv /\ TimersInv
  BY Parts
<1>1. /\ MayBlock(t) /\ owner = NoThread /\ ops[t] < MaxOps
      /\ owner' = t /\ original_priority' = S.current_priority[t]
      /\ ops' = [ops EXCEPT ![t] = ops[t] + 1]
      /\ UNCHANGED <<S, remaining_tick, timers, at, resumed, suspend_thread>>
  BY DEF TakeFree
<1>2. t \in Everyone /\ S.stat[t] = "running" /\ t # NoThread
  BY <1>1, Blockable, SchedulerAssumption
<1>3. MutexInv'
  <2>1. suspend_thread = <<>> /\ \A u \in Everyone : S.current_priority[u] = init_priority[u]
    BY <1>0, <1>1 DEF MutexInv
  <2>2. init_priority[t] \in Nat
    BY <1>2, SchedulerAssumption
  <2>. QED BY <1>0, <1>1, <1>2, <2>1, <2>2 DEF MutexInv, Once, Members
<1>4. TimersInv'
  <2>1. \A u \in Members(rt_timer_list) : S'.stat[u] = "suspend"
    BY <1>0, <1>1 DEF TimersInv
  <2>. QED BY <1>0, <1>1, <2>1, TimersKept
<1>5. RestOK'
  <2>1. ops' \in [Threads -> 0..MaxOps]
    BY <1>0, <1>1, SchedulerAssumption DEF RestOK
  <2>2. original_priority' \in Priorities
    BY <1>0, <1>1, <1>2 DEF Records
  <2>. QED BY <1>0, <1>1, <2>1, <2>2 DEF RestOK, timers
<1>6. MutexStep
  <2>1. Mutex!Running(t) /\ owner # t
    BY <1>1, <1>2, ShownRunning
  <2>2. AbstractStat' = AbstractStat
    BY <1>1 DEF AbstractStat
  <2>3. Mutex!TakeFree(t)
    BY <1>1, <1>2, <2>1, <2>2 DEF Mutex!TakeFree
  <2>. QED BY <2>3 DEF MutexStep, Mutex!Next, Mutex!rt_mutex_take
<1>7. ResumedInv'
  <2>1. UNCHANGED <<S, resumed, suspend_thread, rt_timer_list>>
    BY <1>1 DEF timers
  <2>. QED BY <2>1, ResumedKept DEF Unlisted
<1>. QED BY <1>0, <1>1, <1>3, <1>4, <1>5, <1>6, <1>7, Whole

\* rt_ipc_list_suspend queues the caller, once.
LEMMA EnqueueEffect ==
    ASSUME RestOK, NEW t \in Threads, Once(suspend_thread), t \notin Members(suspend_thread)
    PROVE  /\ Enqueue(t) \in Seq(Threads) /\ Once(Enqueue(t))
           /\ Members(Enqueue(t)) = Members(suspend_thread) \cup {t}
           /\ Enqueue(t) # <<>>
           /\ \E k \in 1..Len(suspend_thread)+1 :
                /\ With(Threads, suspend_thread, k, t, Enqueue(t))
                /\ \A i \in 1..k-1 : ~(S.current_priority[t] < S.current_priority[suspend_thread[i]])
                /\ k <= Len(suspend_thread) =>
                     S.current_priority[t] < S.current_priority[suspend_thread[k]]
<1>. DEFINE q == suspend_thread
            later == {i \in DOMAIN q : S.current_priority[t] < S.current_priority[q[i]]}
            k == IF later = {} THEN Len(q) + 1 ELSE Min(later)
            r == InsertAt(q, k, t)
<1>0. q \in Seq(Threads) /\ Len(q) \in Nat /\ DOMAIN q = 1..Len(q)
  BY DEF RestOK
<1>1. Enqueue(t) = r
  BY DEF Enqueue
<1>2. later \subseteq 1..Len(q) /\ later \subseteq Nat
  BY <1>0
<1>3. k \in 1..Len(q)+1 /\ (\A i \in 1..k-1 : i \notin later) /\ (k <= Len(q) => k \in later)
  <2>1. CASE later = {}
    BY <1>0, <2>1
  <2>2. CASE later # {}
    <3>1. k \in later /\ \A y \in later : k <= y
      BY <1>2, <2>2, MinIsLeast
    <3>. HIDE DEF k, later
    <3>. QED BY <1>0, <1>2, <3>1
  <2>. QED BY <2>1, <2>2
<1>4. /\ \A i \in 1..k-1 : ~(S.current_priority[t] < S.current_priority[q[i]])
      /\ k <= Len(q) => S.current_priority[t] < S.current_priority[q[k]]
  <2>. HIDE DEF k
  <2>. QED BY <1>0, <1>3
<1>. HIDE DEF k, later
<1>5. With(Threads, q, k, t, r)
  BY <1>0, <1>3, InsertedAt
<1>. HIDE DEF r
<1>6. r \in Seq(Threads) /\ Once(r) /\ Members(r) = Members(q) \cup {t}
  BY <1>0, <1>3, <1>5, WithMembers
<1>7. r # <<>>
  BY <1>6 DEF Members
<1>. QED BY <1>1, <1>3, <1>4, <1>5, <1>6, <1>7

\* The place of rt_ipc_list_suspend is the only one behind all waiters that are
\* as urgent.
LEMMA ShownEnqueue ==
    ASSUME SchedInv, NEW t \in Threads, t \notin Members(suspend_thread)
    PROVE  Enqueue(t) = Mutex!Enqueue(suspend_thread, t)
<1>. DEFINE q == suspend_thread
            r == Enqueue(t)
<1>0. RestOK /\ S \in Records /\ Once(q) /\ q \in Seq(Threads) /\ Len(q) \in Nat
  BY Parts DEF MutexInv, RestOK
<1>1. PICK k \in 1..Len(q)+1 :
         /\ With(Threads, q, k, t, r)
         /\ \A i \in 1..k-1 : ~(S.current_priority[t] < S.current_priority[q[i]])
         /\ k <= Len(q) => S.current_priority[t] < S.current_priority[q[k]]
  BY <1>0, EnqueueEffect
<1>2. \A u \in Threads : S.current_priority[u] \in Nat /\ Urgencies[u] = S.current_priority[u]
  BY <1>0, PrioritiesAreNumbers DEF Records, Urgencies
<1>3. \A i \in 1..Len(q) : q[i] \in Threads
  BY <1>0
<1>4. Mutex!BehindAll(q, t, k)
  <2>1. ASSUME NEW i \in 1..k-1 PROVE Urgencies[q[i]] <= Urgencies[t]
    <3>1. i \in 1..Len(q)
      BY <1>0, <1>1
    <3>. QED BY <1>1, <1>2, <1>3, <3>1
  <2>2. ASSUME k <= Len(q) PROVE Urgencies[t] < Urgencies[q[k]]
    <3>1. k \in 1..Len(q)
      BY <1>0, <1>1, <2>2
    <3>. QED BY <1>1, <1>2, <1>3, <2>2, <3>1
  <2>. QED BY <2>1, <2>2 DEF Mutex!BehindAll, Urgencies
<1>5. ASSUME NEW j \in 1..Len(q)+1, Mutex!BehindAll(q, t, j) PROVE j = k
  <2>1. /\ \A i \in 1..j-1 : Urgencies[q[i]] <= Urgencies[t]
        /\ j <= Len(q) => Urgencies[t] < Urgencies[q[j]]
        /\ \A i \in 1..k-1 : Urgencies[q[i]] <= Urgencies[t]
        /\ k <= Len(q) => Urgencies[t] < Urgencies[q[k]]
    BY <1>4, <1>5 DEF Mutex!BehindAll, Urgencies
  <2>2. \A i \in 1..Len(q) : Urgencies[q[i]] \in Nat /\ Urgencies[t] \in Nat
    BY <1>2, <1>3
  <2>3. ~(j < k)
    <3>1. SUFFICES ASSUME j < k PROVE FALSE
      OBVIOUS
    <3>2. j \in 1..k-1 /\ j \in 1..Len(q) /\ j <= Len(q)
      BY <1>0, <1>1, <3>1
    <3>. QED BY <2>1, <2>2, <3>2
  <2>4. ~(k < j)
    <3>1. SUFFICES ASSUME k < j PROVE FALSE
      OBVIOUS
    <3>2. k \in 1..j-1 /\ k \in 1..Len(q) /\ k <= Len(q)
      BY <1>0, <1>1, <3>1
    <3>. QED BY <2>1, <2>2, <3>2
  <2>. QED BY <1>0, <2>3, <2>4
<1>6. Mutex!QueuePosition(q, t) = k
  BY <1>1, <1>4, <1>5 DEF Mutex!QueuePosition
<1>. DEFINE f == [i \in 1..Len(q)+1 |-> IF i < k THEN q[i] ELSE IF i = k THEN t ELSE q[i-1]]
<1>7. Mutex!Enqueue(q, t) = f
  BY <1>6 DEF Mutex!Enqueue
<1>8. r = f
  <2>1. r \in Seq(Threads) /\ Len(r) = Len(q) + 1
    BY <1>1 DEF With
  <2>2. r = [i \in 1..Len(q)+1 |-> r[i]]
    BY <2>1
  <2>3. ASSUME NEW i \in 1..Len(q)+1 PROVE r[i] = f[i]
    BY <1>0, <1>1, <2>1 DEF With
  <2>. QED BY <2>2, <2>3
<1>. QED BY <1>7, <1>8
\* The held mutex is asked for: the owner inherits and the caller is suspended.
LEMMA TakeHeldStep ==
    ASSUME SchedInv, NEW t \in Threads, TakeHeld(t)
    PROVE  SchedInv' /\ MutexStep
<1>. DEFINE p == S.current_priority[t]
            boosted == IF p < S.current_priority[owner] THEN ChangePriority(S, owner, p) ELSE S
<1>0. /\ RestOK /\ S \in Records /\ Good(S) /\ Placed(S, at) /\ MutexInv /\ TimersInv
  BY Parts
<1>1. /\ MayBlock(t) /\ owner \notin {t, NoThread} /\ ops[t] < MaxOps
      /\ S' = rt_thread_suspend(boosted, t)
      /\ suspend_thread' = Enqueue(t) /\ StopTimer(t)
      /\ at' = [at EXCEPT ![t] = "schedule"] /\ ops' = [ops EXCEPT ![t] = ops[t] + 1]
      /\ UNCHANGED <<remaining_tick, resumed, owner, original_priority>>
  BY DEF TakeHeld
<1>2. /\ S.current = t /\ t \in Everyone /\ S.stat[t] = "running"
      /\ t \notin Members(rt_timer_list) /\ t \notin Members(suspend_thread)
  BY <1>1, Blockable
<1>3. owner \in Threads /\ owner \in Everyone /\ p \in Priorities
  BY <1>0, <1>1, <1>2, PrioritiesAreNumbers DEF RestOK, Records
<1>. HIDE DEF p
<1>4. /\ Good(boosted) /\ boosted.stat = S.stat /\ boosted.yield = S.yield
      /\ boosted.current = S.current /\ boosted.nest = S.nest
      /\ \A u \in Everyone \ {owner} : boosted.current_priority[u] = S.current_priority[u]
      /\ boosted.current_priority[owner] <= S.current_priority[owner]
      /\ boosted.current_priority = IF p < S.current_priority[owner]
                                      THEN [S.current_priority EXCEPT ![owner] = p]
                                      ELSE S.current_priority
  <2>1. S.current_priority \in [Everyone -> Priorities] /\ S.current_priority[owner] \in Nat /\ p \in Nat
    BY <1>0, <1>3, PrioritiesAreNumbers DEF Records
  <2>2. CASE p < S.current_priority[owner]
    <3>1. boosted = ChangePriority(S, owner, p)
      BY <2>2
    <3>. HIDE DEF boosted
    <3>2. /\ Good(boosted) /\ boosted.stat = S.stat /\ boosted.yield = S.yield
          /\ boosted.current_priority = [S.current_priority EXCEPT ![owner] = p]
          /\ boosted.current = S.current /\ boosted.nest = S.nest
      BY <1>0, <1>3, <3>1, PriorityEffect
    <3>. QED BY <1>3, <2>1, <2>2, <3>2
  <2>3. CASE ~(p < S.current_priority[owner])
    BY <1>0, <2>1, <2>3
  <2>. QED BY <2>2, <2>3
<1>. HIDE DEF boosted
<1>5. /\ Good(S')
      /\ S'.stat = [S.stat EXCEPT ![t] = "suspend"]
      /\ S'.yield = S.yield
      /\ S'.current_priority = boosted.current_priority
      /\ S'.current = S.current /\ S'.nest = S.nest
  BY <1>1, <1>2, <1>4, SuspendEffect
<1>6. Placed(S', at')
  BY <1>1, <1>5, OwesSchedule
<1>7. \A u \in Everyone : S'.stat[u] = "suspend" <=> S.stat[u] = "suspend" \/ u = t
  BY <1>0, <1>2, <1>5 DEF Records
<1>8. /\ suspend_thread' \in Seq(Threads) /\ Once(suspend_thread')
      /\ Members(suspend_thread') = Members(suspend_thread) \cup {t}
      /\ suspend_thread' # <<>>
  BY <1>0, <1>1, <1>2, EnqueueEffect DEF MutexInv
<1>9. MutexInv'
  <2>1. Once(suspend_thread)'
    BY <1>8 DEF Once
  <2>2. \A u \in Members(suspend_thread') : S'.stat[u] = "suspend" /\ u # owner
    BY <1>0, <1>1, <1>7, <1>8, ListFacts, PrioritiesAreNumbers DEF MutexInv, RestOK
  <2>3. S'.stat[owner] # "suspend" /\ original_priority = init_priority[owner]
    BY <1>0, <1>1, <1>3, <1>7 DEF MutexInv
  <2>4. S'.current_priority[owner] <= init_priority[owner]
    <3>1. /\ S'.current_priority[owner] \in Nat /\ S.current_priority[owner] \in Nat
          /\ init_priority[owner] \in Nat
      BY <1>0, <1>3, <1>5, PrioritiesAreNumbers, SchedulerAssumption DEF Good, Records
    <3>2. S.current_priority[owner] <= init_priority[owner]
      BY <1>0, <1>1 DEF MutexInv
    <3>. QED BY <1>4, <1>5, <3>1, <3>2
  <2>5. \A u \in Everyone : u # owner => S'.current_priority[u] = init_priority[u]
    BY <1>0, <1>4, <1>5 DEF MutexInv
  <2>6. Members(suspend_thread)' = Members(suspend_thread')
    BY DEF Members
  <2>. QED BY <1>1, <1>8, <2>1, <2>2, <2>3, <2>4, <2>5, <2>6 DEF MutexInv
<1>10. TimersInv' /\ rt_timer_list' \in Seq(Threads) /\ timeout' \in [Threads -> Ticks]
  <2>1. \A u \in Members(rt_timer_list) : u \in Everyone /\ S'.stat[u] = "suspend"
    BY <1>0, <1>7, ListFacts, PrioritiesAreNumbers DEF TimersInv, RestOK
  <2>2. \A u \in Members(rt_timer_list) : u \notin Members(suspend_thread')
    BY <1>0, <1>2, <1>8 DEF TimersInv
  <2>. QED BY <1>0, <1>1, <2>1, <2>2, StopTimerEffect
<1>11. RestOK'
  <2>1. ops' \in [Threads -> 0..MaxOps]
    BY <1>0, <1>1, SchedulerAssumption DEF RestOK
  <2>2. at' \in [Everyone -> {"run", "schedule"}]
    BY <1>0, <1>1 DEF RestOK
  <2>. QED BY <1>0, <1>1, <1>8, <1>10, <2>1, <2>2 DEF RestOK
<1>12. MutexStep
  <2>1. Mutex!Running(t) /\ owner # t /\ owner # NoThread
    BY <1>1, ShownRunning
  <2>2. AbstractStat' = [AbstractStat EXCEPT ![t] = "waiting"]
    <3>1. /\ Range(suspend_thread) = Members(suspend_thread)
          /\ Range(suspend_thread)' = Members(suspend_thread) \cup {t}
      BY <1>0, <1>8, ListFacts DEF RestOK
    <3>. QED BY <1>7, <3>1, PrioritiesAreNumbers DEF AbstractStat
  <2>3. Urgencies' = IF Urgencies[t] < Urgencies[owner] THEN [Urgencies EXCEPT ![owner] = Urgencies[t]]
                                                      ELSE Urgencies
    <3>1. S.current_priority \in [Everyone -> Priorities]
      BY <1>0 DEF Records
    <3>. QED BY <1>3, <1>4, <1>5, <3>1, PrioritiesAreNumbers DEF Urgencies, p
  <2>4. suspend_thread' = Mutex!Enqueue(suspend_thread, t)
    BY <1>1, <1>2, ShownEnqueue
  <2>5. Mutex!TakeHeld(t)
    BY <1>1, <2>1, <2>2, <2>3, <2>4 DEF Mutex!TakeHeld, Mutex!Boosted, Urgencies
  <2>. QED BY <2>5 DEF MutexStep, Mutex!Next, Mutex!rt_mutex_take
<1>13. ResumedInv'
  <2>1. UNCHANGED resumed
    BY <1>1
  <2>2. Members(rt_timer_list') = Members(rt_timer_list) \ {t}
    BY <1>0, <1>1, StoppedMembers
  <2>3. ASSUME NEW u \in Threads, Unlisted(u)
        PROVE  /\ S'.stat[u] = "suspend"
               /\ u \notin Members(suspend_thread') /\ u \notin Members(rt_timer_list')
    <3>1. u # t /\ u \in Everyone
      BY <1>2, <2>3, PrioritiesAreNumbers DEF Unlisted
    <3>. QED BY <1>7, <1>8, <2>2, <2>3, <3>1 DEF Unlisted
  <2>. QED BY <2>1, <2>3, ResumedKept
<1>. QED BY <1>5, <1>6, <1>9, <1>10, <1>11, <1>12, <1>13, Whole

\* The owner returns to its own priority.
LEMMA RestoredEffect ==
    ASSUME SchedInv, NEW t \in Threads, owner = t
    PROVE  /\ Good(Restored(t)) /\ Restored(t).stat = S.stat /\ Restored(t).yield = S.yield
           /\ Restored(t).current = S.current /\ Restored(t).nest = S.nest
           /\ Restored(t).current_priority = [S.current_priority EXCEPT ![t] = original_priority]
           /\ \A u \in Everyone : Restored(t).current_priority[u] = init_priority[u]
           /\ suspend_thread = <<>> => Restored(t) = S
<1>0. /\ RestOK /\ S \in Records /\ Good(S) /\ MutexInv /\ t \in Everyone /\ t # NoThread
  BY Parts, PrioritiesAreNumbers, SchedulerAssumption
<1>1. original_priority = init_priority[t] /\ original_priority \in Priorities
  BY <1>0, PrioritiesAreNumbers DEF MutexInv
<1>2. S.current_priority \in [Everyone -> Priorities]
  BY <1>0 DEF Records
<1>. DEFINE r == Restored(t)
<1>3. /\ Good(r) /\ r.stat = S.stat /\ r.yield = S.yield
      /\ r.current_priority = [S.current_priority EXCEPT ![t] = original_priority]
      /\ r.current = S.current /\ r.nest = S.nest
  <2>1. CASE original_priority # S.current_priority[t]
    <3>1. r = ChangePriority(S, t, original_priority)
      BY <2>1 DEF Restored
    <3>. HIDE DEF r
    <3>. QED BY <1>0, <1>1, <3>1, PriorityEffect
  <2>2. CASE original_priority = S.current_priority[t]
    <3>1. r = S
      BY <2>2 DEF Restored
    <3>. HIDE DEF r
    <3>. QED BY <1>0, <1>2, <2>2, <3>1
  <2>. QED BY <2>1, <2>2
<1>4. suspend_thread = <<>> => r = S
  BY <1>0, <1>1 DEF MutexInv, Restored
<1>. HIDE DEF r
<1>5. \A u \in Everyone : r.current_priority[u] = init_priority[u]
  BY <1>0, <1>1, <1>2, <1>3 DEF MutexInv
<1>. QED BY <1>3, <1>4, <1>5 DEF r

\* A release with nobody waiting.
LEMMA ReleaseFreeStep ==
    ASSUME SchedInv, NEW t \in Threads, ReleaseFree(t)
    PROVE  SchedInv' /\ MutexStep
<1>0. /\ RestOK /\ Good(S) /\ Placed(S, at) /\ MutexInv /\ TimersInv
  BY Parts
<1>1. /\ MayBlock(t) /\ owner = t /\ suspend_thread = <<>> /\ S' = Restored(t)
      /\ owner' = NoThread /\ original_priority' = NoPriority
      /\ UNCHANGED <<remaining_tick, timers, at, resumed, suspend_thread, ops>>
  BY DEF ReleaseFree
<1>2. S' = S /\ \A u \in Everyone : S.current_priority[u] = init_priority[u]
  BY <1>1, RestoredEffect
<1>3. MutexInv'
  BY <1>1, <1>2 DEF MutexInv, Once, Members
<1>4. TimersInv'
  <2>1. \A u \in Members(rt_timer_list) : S'.stat[u] = "suspend"
    BY <1>0, <1>2 DEF TimersInv
  <2>. QED BY <1>0, <1>1, <2>1, TimersKept
<1>5. RestOK'
  BY <1>0, <1>1 DEF RestOK, timers
<1>6. MutexStep
  <2>1. Mutex!Running(t) /\ owner # NoThread
    BY <1>1, ShownRunning, SchedulerAssumption DEF Everyone
  <2>2. AbstractStat' = AbstractStat
    BY <1>1, <1>2 DEF AbstractStat
  <2>3. Urgencies' = [Urgencies EXCEPT ![t] = original_priority]
    <3>1. original_priority = init_priority[t]
      BY <1>0, <1>1, <2>1 DEF MutexInv
    <3>. QED BY <1>2, <3>1, PrioritiesAreNumbers DEF Urgencies
  <2>4. Mutex!ReleaseFree(t)
    BY <1>1, <2>1, <2>2, <2>3 DEF Mutex!ReleaseFree, Mutex!NoPriority, NoPriority, Urgencies
  <2>. QED BY <2>4 DEF MutexStep, Mutex!Next, Mutex!rt_mutex_release
<1>7. ResumedInv'
  <2>1. UNCHANGED <<S, resumed, suspend_thread, rt_timer_list>>
    BY <1>1, <1>2 DEF timers
  <2>. QED BY <2>1, ResumedKept DEF Unlisted
<1>. QED BY <1>0, <1>1, <1>2, <1>3, <1>4, <1>5, <1>6, <1>7, Whole

\* The first of a list leaves it.
LEMMA TailMembers ==
    ASSUME NEW list \in Seq(Threads), list # <<>>, Once(list)
    PROVE  /\ Head(list) \in Members(list) /\ Head(list) \in Threads
           /\ Tail(list) \in Seq(Threads) /\ Once(Tail(list))
           /\ Members(Tail(list)) = Members(list) \ {Head(list)}
<1>. DEFINE r == Tail(list)
<1>1. /\ r \in Seq(Threads) /\ Len(list) \in Nat /\ Len(list) >= 1 /\ Len(r) = Len(list) - 1
      /\ \A i \in 1..Len(r) : r[i] = list[i + 1]
      /\ Head(list) = list[1]
  BY HeadTailProperties
<1>. HIDE DEF r
<1>2. Head(list) \in Members(list) /\ Head(list) \in Threads
  BY <1>1 DEF Members
<1>3. Once(r)
  <2>1. ASSUME NEW i \in 1..Len(r), NEW j \in 1..Len(r), r[i] = r[j] PROVE i = j
    <3>1. i + 1 \in 1..Len(list) /\ j + 1 \in 1..Len(list) /\ list[i + 1] = list[j + 1]
      BY <1>1, <2>1
    <3>2. i + 1 = j + 1
      BY <3>1 DEF Once
    <3>. QED BY <3>2
  <2>. QED BY <2>1 DEF Once
<1>4. ASSUME NEW x \in Members(r) PROVE x \in Members(list) \ {Head(list)}
  <2>1. PICK i \in 1..Len(r) : x = r[i]
    BY DEF Members
  <2>2. i + 1 \in 1..Len(list) /\ x = list[i + 1] /\ i + 1 # 1 /\ 1 \in 1..Len(list)
    BY <1>1, <2>1
  <2>3. x # list[1]
    BY <2>2 DEF Once
  <2>. QED BY <1>1, <2>2, <2>3 DEF Members
<1>5. ASSUME NEW x \in Members(list), x # Head(list) PROVE x \in Members(r)
  <2>1. PICK j \in 1..Len(list) : x = list[j]
    BY DEF Members
  <2>. DEFINE i == j - 1
  <2>2. i \in 1..Len(r) /\ i + 1 = j
    BY <1>1, <1>5, <2>1
  <2>. HIDE DEF i
  <2>. QED BY <1>1, <2>1, <2>2 DEF Members
<1>6. Members(r) = Members(list) \ {Head(list)}
  BY <1>4, <1>5
<1>. QED BY <1>1, <1>2, <1>3, <1>6 DEF r

\* A release that hands the mutex over.
LEMMA HandOverStep ==
    ASSUME SchedInv, NEW t \in Threads, ReleaseHandOver(t)
    PROVE  SchedInv' /\ MutexStep
<1>. DEFINE next == Head(suspend_thread)
            q == Restored(t)
<1>0. /\ RestOK /\ S \in Records /\ Good(S) /\ Placed(S, at) /\ MutexInv /\ TimersInv
  BY Parts
<1>1. /\ MayBlock(t) /\ owner = t /\ suspend_thread # <<>>
      /\ owner' = next /\ original_priority' = S.current_priority[next] /\ StopTimer(next)
      /\ S' = rt_schedule_insert_thread(q, next)
      /\ suspend_thread' = Tail(suspend_thread)
      /\ at' = [at EXCEPT ![t] = "schedule"]
      /\ UNCHANGED <<remaining_tick, resumed, ops>>
  BY DEF ReleaseHandOver
<1>2. /\ next \in Members(suspend_thread) /\ next \in Threads
      /\ suspend_thread' \in Seq(Threads) /\ Once(suspend_thread')
      /\ Members(suspend_thread') = Members(suspend_thread) \ {next}
  BY <1>0, <1>1, TailMembers DEF RestOK, MutexInv
<1>. HIDE DEF next
<1>3. /\ S.stat[next] = "suspend" /\ next # t /\ next \in Everyone /\ next # NoThread
      /\ S.current_priority[next] = init_priority[next] /\ init_priority[next] \in Nat
  BY <1>0, <1>1, <1>2, PrioritiesAreNumbers, SchedulerAssumption DEF MutexInv
<1>4. /\ Good(q) /\ q.stat = S.stat /\ q.yield = S.yield
      /\ q.current = S.current /\ q.nest = S.nest
      /\ \A u \in Everyone : q.current_priority[u] = init_priority[u]
  BY <1>1, RestoredEffect
<1>12. q.current_priority = [S.current_priority EXCEPT ![t] = original_priority]
  BY <1>1, RestoredEffect
<1>. HIDE DEF q
<1>5. /\ Good(S')
      /\ S'.stat = [q.stat EXCEPT ![next] = IF next = q.current THEN "running" ELSE "ready"]
      /\ S'.yield = q.yield
      /\ S'.current_priority = q.current_priority
      /\ S'.current = q.current /\ S'.nest = q.nest
  BY <1>1, <1>3, <1>4, WakeEffect
<1>6. \A u \in Everyone : S'.stat[u] = "suspend" <=> S.stat[u] = "suspend" /\ u # next
  BY <1>0, <1>3, <1>4, <1>5 DEF Records
<1>7. Placed(S', at')
  BY <1>1, <1>4, <1>5, OwesSchedule
<1>8. MutexInv'
  <2>1. Once(suspend_thread)'
    BY <1>2 DEF Once
  <2>2. \A u \in Members(suspend_thread') : S'.stat[u] = "suspend" /\ u # next
    BY <1>0, <1>2, <1>6, ListFacts, PrioritiesAreNumbers DEF MutexInv, RestOK
  <2>3. S'.stat[next] # "suspend"
    BY <1>3, <1>6
  <2>4. \A u \in Everyone : S'.current_priority[u] = init_priority[u]
    BY <1>4, <1>5
  <2>5. Members(suspend_thread)' = Members(suspend_thread')
    BY DEF Members
  <2>6. S'.current_priority[next] <= init_priority[next]
    BY <1>3, <2>4
  <2>. QED BY <1>1, <1>3, <2>1, <2>2, <2>3, <2>4, <2>5, <2>6 DEF MutexInv
<1>9. TimersInv' /\ rt_timer_list' \in Seq(Threads) /\ timeout' \in [Threads -> Ticks]
  <2>1. \A u \in Members(rt_timer_list) \ {next} : u \in Everyone /\ S'.stat[u] = "suspend"
    BY <1>0, <1>6, ListFacts, PrioritiesAreNumbers DEF TimersInv, RestOK
  <2>2. \A u \in Members(rt_timer_list) : u \notin Members(suspend_thread')
    BY <1>0, <1>2 DEF TimersInv
  <2>. QED BY <1>0, <1>1, <1>2, <2>1, <2>2, StopTimerEffect
<1>10. RestOK'
  <2>1. at' \in [Everyone -> {"run", "schedule"}]
    BY <1>0, <1>1 DEF RestOK
  <2>2. original_priority' \in Priorities
    BY <1>0, <1>1, <1>3 DEF Records
  <2>. QED BY <1>0, <1>1, <1>2, <1>9, <2>1, <2>2 DEF RestOK
<1>11. MutexStep
  <2>1. Mutex!Running(t) /\ owner # NoThread
    BY <1>1, ShownRunning, SchedulerAssumption DEF Everyone
  <2>2. AbstractStat' = [AbstractStat EXCEPT ![next] = "ready"]
    <3>1. /\ Range(suspend_thread) = Members(suspend_thread)
          /\ Range(suspend_thread)' = Members(suspend_thread) \ {next}
      BY <1>0, <1>2, ListFacts DEF RestOK
    <3>. QED BY <1>2, <1>6, <3>1, PrioritiesAreNumbers DEF AbstractStat
  <2>3. Urgencies' = [Urgencies EXCEPT ![t] = original_priority] /\ Urgencies[next] = S.current_priority[next]
    <3>1. S.current_priority \in [Everyone -> Priorities]
      BY <1>0 DEF Records
    <3>. QED BY <1>2, <1>5, <1>12, <3>1, PrioritiesAreNumbers DEF Urgencies
  <2>4. Mutex!ReleaseHandOver(t)
    BY <1>1, <1>3, <2>1, <2>2, <2>3 DEF Mutex!ReleaseHandOver, Urgencies, next
  <2>. QED BY <2>4 DEF MutexStep, Mutex!Next, Mutex!rt_mutex_release
<1>13. ResumedInv'
  <2>1. UNCHANGED resumed
    BY <1>1
  <2>2. Members(rt_timer_list') = Members(rt_timer_list) \ {next}
    BY <1>0, <1>1, <1>2, StoppedMembers
  <2>3. ASSUME NEW u \in Threads, Unlisted(u)
        PROVE  /\ S'.stat[u] = "suspend"
               /\ u \notin Members(suspend_thread') /\ u \notin Members(rt_timer_list')
    <3>1. u # next /\ u \in Everyone
      BY <1>2, <2>3, PrioritiesAreNumbers DEF Unlisted
    <3>. QED BY <1>2, <1>6, <2>2, <2>3, <3>1 DEF Unlisted
  <2>. QED BY <2>1, <2>3, ResumedKept
<1>. QED BY <1>5, <1>7, <1>8, <1>9, <1>10, <1>11, <1>13, Whole

-----------------------------------------------------------------------------
(* The theorems about the scheduler itself.                                *)

\* The threads can be put in a list.
LEMMA ThreadsListed == SetToSeq(Threads) \in Seq(Threads) /\ Once(SetToSeq(Threads))
<1>. DEFINE n == Cardinality(Threads)
            F == {f \in [1..n -> Threads] : IsInjective(f)}
<1>1. n \in Nat /\ ExistsBijection(1..n, Threads)
  BY SchedulerAssumption, FS_CardinalityType
<1>2. PICK g : g \in Bijection(1..n, Threads)
  BY <1>1 DEF ExistsBijection
<1>3. g \in [1..n -> Threads] /\ IsInjective(g)
  BY <1>2, Zenon DEF Bijection, Injection
<1>4. \E f \in [1..n -> Threads] : IsInjective(f)
  BY <1>3
<1>5. SetToSeq(Threads) \in [1..n -> Threads] /\ IsInjective(SetToSeq(Threads))
  BY <1>4, Zenon DEF SetToSeq
<1>. HIDE DEF n
<1>. DEFINE q == SetToSeq(Threads)
<1>. HIDE DEF q
<1>6. q \in [1..n -> Threads] /\ IsInjective(q)
  BY <1>5 DEF q
<1>7. q \in Seq(Threads)
  BY <1>1, <1>6
<1>8. Once(q)
  BY <1>6, <1>7, ListFacts
<1>. QED BY <1>7, <1>8 DEF q

LEMMA SchedulerStart == Init => SchedInv
<1>. SUFFICES ASSUME Init PROVE SchedInv
  OBVIOUS
<1>1. /\ S.stat = [t \in Everyone |-> IF t = idle THEN "running" ELSE "suspend"]
      /\ S.yield = [t \in Everyone |-> FALSE]
      /\ S.current_priority = init_priority
      /\ S.table = [p \in Priorities |-> <<>>] /\ S.group = {}
      /\ S.current = idle /\ S.nest = 0
  BY DEF Init
<1>2. S \in Records
  <2>1. init_priority \in [Everyone -> Priorities] /\ idle \in Everyone
    BY PrioritiesAreNumbers, SchedulerAssumption
  <2>2. 0 \in 0..MaxNest
    BY SchedulerAssumption
  <2>3. [t \in Everyone |-> FALSE] \in [Everyone -> BOOLEAN]
    BY Zenon
  <2>4. /\ [t \in Everyone |-> IF t = idle THEN "running" ELSE "suspend"] \in [Everyone -> Stats]
        /\ [p \in Priorities |-> <<>>] \in [Priorities -> Seq(Everyone)]
    BY DEF Stats
  <2>. QED BY <2>1, <2>2, <2>3, <2>4 DEF Init, Records
<1>3. Ready(S) = {}
  BY <1>1 DEF Ready
<1>4. Tables(S, Ready(S))
  <2>1. \A p \in Priorities : S.table[p] = <<>> /\ Once(<<>>) /\ Members(<<>>) = {}
    BY <1>1 DEF Once, Members
  <2>. QED BY <1>1, <1>3, <2>1 DEF Tables
<1>5. Good(S)
  BY <1>1, <1>2, <1>4, PrioritiesAreNumbers DEF Good
<1>6. Placed(S, at)
  <2>1. at[idle] = "run" /\ \A t \in Everyone : ~S.yield[t]
    BY <1>1, PrioritiesAreNumbers DEF Init
  <2>. QED BY <1>1, <1>3, <2>1, PrioritiesAreNumbers DEF Placed, Urgent
<1>7. RestOK
  <2>1. 1 \in Ticks
    BY TickModAssumption DEF Ticks
  <2>2. rt_timer_list \in Seq(Threads)
    BY ThreadsListed DEF Init
  <2>3. remaining_tick = init_tick /\ \A t \in Everyone : init_tick[t] <= init_tick[t]
    BY SchedulerAssumption DEF Init
  <2>. QED BY <2>1, <2>2, <2>3, SchedulerAssumption DEF Init, RestOK
<1>8. MutexInv
  BY <1>1, SchedulerAssumption DEF Init, MutexInv, Once, Members
<1>9. TimersInv
  <2>1. Pending(1)
    BY TickModAssumption DEF Pending, Half, RT_TICK_MAX
  <2>2. ASSUME NEW t \in Members(rt_timer_list) PROVE t \in Threads /\ timeout[t] = 1 /\ S.stat[t] = "suspend"
    <3>1. t \in Threads /\ t # idle /\ t \in Everyone
      BY <1>7, <2>2, ListFacts, SchedulerAssumption, PrioritiesAreNumbers DEF RestOK
    <3>. QED BY <1>1, <3>1 DEF Init
  <2>3. Members(suspend_thread) = {}
    BY DEF Init, Members
  <2>4. Once(rt_timer_list)
    BY ThreadsListed DEF Init
  <2>5. Descending(rt_timer_list, Nearness)
    <3>1. ASSUME NEW i \in 1..Len(rt_timer_list) PROVE Nearness[rt_timer_list[i]] = -1
      BY <2>2 DEF Nearness, Members
    <3>. QED BY <3>1 DEF Descending
  <2>. QED BY <2>1, <2>2, <2>3, <2>4, <2>5 DEF TimersInv
<1>10. ResumedInv
  BY DEF Init, ResumedInv
<1>. QED BY <1>2, <1>5, <1>6, <1>7, <1>8, <1>9, <1>10, TypeSplit DEF SchedInv

LEMMA SchedulerStep == SchedInv /\ [Next]_vars => SchedInv' /\ MutexStep
<1>. SUFFICES ASSUME SchedInv, [Next]_vars PROVE SchedInv' /\ MutexStep
  OBVIOUS
<1>1. CASE rt_tick_increase
  BY <1>1, TickStep
<1>2. ASSUME NEW t \in Threads, IsrResume(t) PROVE SchedInv' /\ MutexStep
  BY <1>2, IsrStep
<1>3. ASSUME NEW t \in Threads, Reschedule(t) PROVE SchedInv' /\ MutexStep
  BY <1>3, RescheduleStep
<1>4. ASSUME NEW t \in Threads, Step(t) PROVE SchedInv' /\ MutexStep
  <2>1. CASE rt_thread_sleep(t)
    BY <2>1, SleepStep
  <2>2. CASE WaitForever(t)
    BY <2>2, WaitStep
  <2>3. CASE rt_thread_yield(t)
    BY <2>3, YieldStep
  <2>4. ASSUME NEW u \in Threads, rt_thread_resume(t, u) PROVE SchedInv' /\ MutexStep
    BY <2>4, ResumeStep
  <2>5. CASE rt_enter_critical(t)
    BY <2>5, EnterStep
  <2>6. CASE rt_exit_critical(t)
    BY <2>6, ExitStep
  <2>7. CASE TakeFree(t)
    BY <2>7, TakeFreeStep
  <2>8. CASE TakeHeld(t)
    BY <2>8, TakeHeldStep
  <2>9. CASE ReleaseFree(t)
    BY <2>9, ReleaseFreeStep
  <2>10. CASE ReleaseHandOver(t)
    BY <2>10, HandOverStep
  <2>. QED BY <1>4, <2>1, <2>2, <2>3, <2>4, <2>5, <2>6, <2>7, <2>8, <2>9, <2>10 DEF Step
<1>5. CASE UNCHANGED vars
  <2>1. UNCHANGED <<timers, resumed, mutex, ops>> /\ S' = S /\ at' = at /\ UNCHANGED remaining_tick
    BY <1>5 DEF vars
  <2>2. RestOK'
    BY <2>1, Parts DEF RestOK, timers, mutex
  <2>. QED BY <2>1, <2>2, OnlyScheduler, Parts
<1>6. ASSUME NEW t \in Threads, InsertResumed(t) PROVE SchedInv' /\ MutexStep
  BY <1>6, InsertStep
<1>. QED BY <1>1, <1>2, <1>3, <1>4, <1>5, <1>6 DEF Next

LEMMA SchedulerInvariant == Spec => []SchedInv
  BY SchedulerStart, SchedulerStep, PTL DEF Spec

LEMMA SchedInvQueues == SchedInv => QueuesSound
<1>. SUFFICES ASSUME SchedInv PROVE QueuesSound
  OBVIOUS
<1>0. /\ TypeOK /\ RestOK /\ S \in Records /\ Good(S) /\ TimersInv /\ ResumedInv
  BY Parts
<1>1. QueuesExact
  <2>1. ASSUME NEW p \in Priorities
        PROVE  /\ Range(S.table[p]) = {t \in Everyone : S.stat[t] = "ready" /\ S.current_priority[t] = p}
               /\ IsInjective(S.table[p])
    <3>1. S.table[p] \in Seq(Everyone)
      BY <1>0 DEF Records
    <3>2. Members(S.table[p]) = {t \in Ready(S) : S.current_priority[t] = p} /\ Once(S.table[p])
      BY <1>0 DEF Good, Tables
    <3>. QED BY <3>1, <3>2, ListFacts DEF Ready
  <2>. QED BY <1>0, <2>1 DEF QueuesExact, Good, Tables
<1>2. TimersExact
  <2>1. /\ Range(rt_timer_list) = Members(rt_timer_list) /\ IsInjective(rt_timer_list)
        /\ Range(suspend_thread) = Members(suspend_thread)
    BY <1>0, ListFacts DEF RestOK, TimersInv
  <2>2. ASSUME NEW t \in Members(rt_timer_list), NEW v \in Threads PROVE resumed[v] # t
    <3>1. t # NoThread
      BY <1>0, ListFacts, SchedulerAssumption DEF RestOK, Everyone
    <3>. QED BY <1>0, <3>1 DEF ResumedInv, Unlisted
  <2>. QED BY <1>0, <2>1, <2>2 DEF TimersExact, TimersInv, Wakeable, Pending
<1>. QED BY <1>0, <1>1, <1>2 DEF QueuesSound

\* The ready queues, the bitmap and the thread timers agree with the states of the
\* threads in every reachable state, whatever interrupts, inheritance and critical
\* sections do between a change of state and its rt_schedule(), or where
\* rt_thread_resume has taken a thread out of its wait and not made it ready yet.
THEOREM QueuesCorrect == Spec => []QueuesSound
  BY SchedulerInvariant, SchedInvQueues, PTL

LEMMA SchedInvRight == SchedInv => RightThreadRuns
<1>. SUFFICES ASSUME SchedInv PROVE RightThreadRuns
  OBVIOUS
<1>0. /\ RestOK /\ S \in Records /\ Good(S) /\ Placed(S, at) /\ MutexInv
  BY Parts
<1>1. HighestRuns
  BY <1>0 DEF HighestRuns, Placed, Urgent, Ready
<1>2. SliceObeyed
  <2>. SUFFICES ASSUME S.nest = 0, at[S.current] = "run", S.yield[S.current],
                       NEW t \in Everyone, S.stat[t] = "ready"
                PROVE  FALSE
    BY DEF SliceObeyed
  <2>1. S.current = idle
    BY <1>0 DEF Placed, Records
  <2>2. t \in Threads
    BY <1>0, <2>1 DEF Good, Everyone
  <2>3. S.current_priority[idle] <= S.current_priority[t]
    BY <1>0, <2>1 DEF Placed, Urgent, Ready
  <2>4. S.current_priority[idle] = init_priority[idle] /\ S.current_priority[t] <= init_priority[t]
    <3>1. idle # owner /\ idle \in Everyone /\ init_priority[t] \in Nat
      BY <1>0, SchedulerAssumption, PrioritiesAreNumbers DEF RestOK
    <3>. QED BY <1>0, <2>2, <3>1, SchedulerAssumption DEF MutexInv
  <2>5. /\ S.current_priority[t] \in Nat /\ init_priority[t] \in Nat /\ init_priority[idle] \in Nat
        /\ init_priority[t] < init_priority[idle]
    BY <1>0, <2>2, SchedulerAssumption, PrioritiesAreNumbers DEF Records
  <2>. QED BY <2>3, <2>4, <2>5
<1>. QED BY <1>1, <1>2 DEF RightThreadRuns

\* Whenever a thread executes its own code with the scheduler unlocked, it is the
\* most urgent thread that is able to run, and no equal waits for its used-up slice.
THEOREM RightThreadCorrect == Spec => []RightThreadRuns
  BY SchedulerInvariant, SchedInvRight, PTL

LEMMA MutexStart == Init => Mutex!Init
<1>. SUFFICES ASSUME Init PROVE Mutex!Init
  OBVIOUS
<1>1. /\ S.stat = [t \in Everyone |-> IF t = idle THEN "running" ELSE "suspend"]
      /\ S.current_priority = init_priority
      /\ owner = NoThread /\ original_priority = NoPriority /\ suspend_thread = <<>>
      /\ ops = [t \in Threads |-> 0]
  BY DEF Init
<1>2. Range(suspend_thread) = {}
  BY <1>1 DEF Range
<1>3. AbstractStat = [t \in Threads |-> "sleeping"]
  BY <1>1, <1>2, PrioritiesAreNumbers, SchedulerAssumption DEF AbstractStat
<1>. QED BY <1>1, <1>3 DEF Mutex!Init, Mutex!NoPriority, NoPriority

\* The scheduler with its queues, timers, critical sections and the interrupts that
\* come between a change of state and its rt_schedule() implements the mutex protocol
\* in which the running thread is simply one of the most urgent ready ones: what is
\* proved about RtMutex holds of the mutex as the scheduler runs it.
THEOREM SchedulerImplements == Spec => ImplementsMutex
<1>1. SchedInv /\ [Next]_vars => [Mutex!Next]_(Mutex!vars)
  BY SchedulerStep DEF MutexStep
<1>. QED BY <1>1, SchedulerInvariant, MutexStart, PTL DEF Spec, ImplementsMutex, Mutex!Spec
=============================================================================
