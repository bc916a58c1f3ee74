---------------------------- MODULE MemoryProofs ----------------------------
(***************************************************************************)
(* Proofs about the heap, for every size of the memory and of its headers  *)
(* and every sequence of requests; about the console's print buffer, for   *)
(* every set of printers and texts; and about the lap table as it is       *)
(* reported, for every width of the words and every sequence of laps.      *)
(***************************************************************************)
EXTENDS SmallMem, Console, LapReport, FiniteSetTheorems, WellFoundedInduction, TLAPS

-----------------------------------------------------------------------------
(* The heap.                                                               *)

\* The headers of h tile the heap: next and prev lead to the neighbours, every
\* block has room, and the last header is marked used.
Tiles(h) ==
    /\ DOMAIN h \subseteq Offsets
    /\ 0 \in DOMAIN h /\ heap_end \in DOMAIN h
    /\ h \in [DOMAIN h -> Header]
    /\ h[heap_end].used
    /\ h[0].prev = 0
    /\ \A b \in DOMAIN h \ {heap_end} :
         /\ h[b].next \in DOMAIN h
         /\ b + SIZEOF_STRUCT_MEM < h[b].next
         /\ \A x \in DOMAIN h : x <= b \/ h[b].next <= x
    /\ \A b \in DOMAIN h \ {0, heap_end} :
         /\ h[b].prev \in DOMAIN h
         /\ h[b].prev < b
         /\ \A x \in DOMAIN h : x <= h[b].prev \/ b <= x

-----------------------------------------------------------------------------
(* Numbers and neighbours.                                                 *)

LEMMA HeapNumbers ==
    /\ SIZEOF_STRUCT_MEM \in Nat \ {0} /\ MIN_SIZE \in Nat \ {0} /\ mem_size_aligned \in Nat \ {0}
    /\ heap_end \in Nat /\ heap_end > 0 /\ heap_end = mem_size_aligned + SIZEOF_STRUCT_MEM
    /\ Offsets = 0..heap_end
  BY MemAssumption DEF heap_end, Offsets

\* Neighbours of a block: who they are, and that they point back.
LEMMA Neighbours ==
    ASSUME NEW h, Tiles(h), NEW b \in DOMAIN h
    PROVE  /\ b \in 0..heap_end /\ b \in Int
           /\ h[b].used \in BOOLEAN
           /\ b # heap_end => /\ h[b].next \in DOMAIN h /\ h[b].next \in 0..heap_end
                              /\ b + SIZEOF_STRUCT_MEM < h[b].next /\ b < h[b].next
                              /\ h[b].next # heap_end => h[h[b].next].prev = b
           /\ b \notin {0, heap_end} => /\ h[b].prev \in DOMAIN h /\ h[b].prev \in 0..heap_end
                                        /\ h[b].prev < b /\ h[b].prev # heap_end
                                        /\ h[h[b].prev].next = b
<1>0. DOMAIN h \subseteq 0..heap_end /\ h[b] \in Header
  BY HeapNumbers DEF Tiles
<1>1. b \in 0..heap_end /\ b \in Int /\ h[b].used \in BOOLEAN
  BY <1>0, HeapNumbers DEF Header
<1>2. ASSUME b # heap_end
      PROVE  /\ h[b].next \in DOMAIN h /\ h[b].next \in 0..heap_end
             /\ b + SIZEOF_STRUCT_MEM < h[b].next /\ b < h[b].next
             /\ h[b].next # heap_end => h[h[b].next].prev = b
  <2>. DEFINE n == h[b].next
  <2>1. n \in DOMAIN h /\ b + SIZEOF_STRUCT_MEM < n /\ (\A x \in DOMAIN h : x <= b \/ n <= x)
    BY <1>2 DEF Tiles
  <2>2. n \in 0..heap_end /\ b < n
    BY <1>0, <1>1, <2>1, HeapNumbers
  <2>3. ASSUME n # heap_end PROVE h[n].prev = b
    <3>. DEFINE p == h[n].prev
    <3>1. n # 0
      BY <1>1, <2>2
    <3>2. p \in DOMAIN h /\ p < n /\ (\A x \in DOMAIN h : x <= p \/ n <= x)
      BY <2>1, <2>3, <3>1 DEF Tiles
    <3>. HIDE DEF p, n
    <3>3. p \in Int /\ n \in Int
      BY <1>0, <2>1, <3>2
    <3>4. p <= b /\ b <= p
      BY <1>1, <2>1, <2>2, <3>2, <3>3
    <3>. QED BY <1>1, <3>3, <3>4 DEF p
  <2>. QED BY <2>1, <2>2, <2>3
<1>3. ASSUME b \notin {0, heap_end}
      PROVE  /\ h[b].prev \in DOMAIN h /\ h[b].prev \in 0..heap_end
             /\ h[b].prev < b /\ h[b].prev # heap_end
             /\ h[h[b].prev].next = b
  <2>. DEFINE p == h[b].prev
  <2>1. p \in DOMAIN h /\ p < b /\ (\A x \in DOMAIN h : x <= p \/ b <= x)
    BY <1>3 DEF Tiles
  <2>2. p \in 0..heap_end /\ p # heap_end
    BY <1>0, <1>1, <2>1, HeapNumbers
  <2>3. h[p].next = b
    <3>. DEFINE n == h[p].next
    <3>1. n \in DOMAIN h /\ p + SIZEOF_STRUCT_MEM < n /\ (\A x \in DOMAIN h : x <= p \/ n <= x)
      BY <2>1, <2>2 DEF Tiles
    <3>. HIDE DEF p, n
    <3>2. n \in Int /\ p \in Int
      BY <1>0, <3>1, <2>2
    <3>3. n <= b /\ b <= n
      BY <1>1, <2>1, <3>1, <3>2, HeapNumbers
    <3>. QED BY <1>1, <3>2, <3>3 DEF n
  <2>. QED BY <2>1, <2>2, <2>3
<1>. QED BY <1>1, <1>2, <1>3

\* Marking a block used or free keeps the tiling.
LEMMA MarkTiles ==
    ASSUME NEW h, Tiles(h), NEW b \in DOMAIN h \ {heap_end}, NEW v \in BOOLEAN
    PROVE  LET r == [h EXCEPT ![b].used = v]
           IN  /\ Tiles(r) /\ DOMAIN r = DOMAIN h
               /\ r[b].used = v /\ r[b].next = h[b].next /\ r[b].prev = h[b].prev
               /\ \A x \in DOMAIN h \ {b} : r[x] = h[x]
<1>. DEFINE r == [h EXCEPT ![b].used = v]
<1>1. h \in [DOMAIN h -> Header]
  BY DEF Tiles
<1>2. /\ DOMAIN r = DOMAIN h
      /\ r[b].used = v /\ r[b].next = h[b].next /\ r[b].prev = h[b].prev
      /\ \A x \in DOMAIN h \ {b} : r[x] = h[x]
      /\ r[b] \in Header
  BY <1>1 DEF Header
<1>3. r \in [DOMAIN r -> Header]
  BY <1>1, <1>2
<1>. HIDE DEF r
<1>4. \A x \in DOMAIN h : r[x].next = h[x].next /\ r[x].prev = h[x].prev
  BY <1>2
<1>5. Tiles(r)
  BY <1>2, <1>3, <1>4 DEF Tiles
<1>. QED BY <1>2, <1>5 DEF r

\* Block b has another behind it.
CanJoin(h, b) == Tiles(h) /\ b \in DOMAIN h \ {heap_end} /\ h[b].next # heap_end

\* r is h with block b and the one behind it made one.
IsJoined(h, b, r) ==
    /\ Tiles(r) /\ DOMAIN r = DOMAIN h \ {h[b].next}
    /\ r[b].next = h[h[b].next].next /\ r[b].prev = h[b].prev
    /\ \A x \in DOMAIN r : r[x].used = h[x].used
    /\ \A x \in DOMAIN r \ {b} : r[x].next = h[x].next

\* Joining a block with the one behind it.
LEMMA JoinTiles ==
    ASSUME NEW h, NEW b, CanJoin(h, b)
    PROVE  IsJoined(h, b, Join(h, b))
<1>. Tiles(h) /\ b \in DOMAIN h \ {heap_end} /\ h[b].next # heap_end
  BY DEF CanJoin
<1>. DEFINE n == h[b].next
            m == h[n].next
            g == [h EXCEPT ![b].next = m, ![m].prev = b]
            r == Join(h, b)
            D == DOMAIN h
<1>0. h \in [D -> Header] /\ D \subseteq 0..heap_end
  BY HeapNumbers DEF Tiles
<1>1. /\ n \in D /\ n \in 0..heap_end /\ b \in 0..heap_end /\ b < n /\ n # heap_end
      /\ b + SIZEOF_STRUCT_MEM < n /\ h[n].prev = b
  BY Neighbours
<1>2. /\ m \in D /\ m \in 0..heap_end /\ n < m /\ n + SIZEOF_STRUCT_MEM < m
      /\ m # heap_end => h[m].prev = n
  BY <1>1, Neighbours
<1>. HIDE DEF n, m, D
<1>3. b # m /\ b # n /\ m # n /\ n # 0 /\ m # 0
  BY <1>1, <1>2
<1>4. /\ DOMAIN g = D /\ g \in [D -> Header]
      /\ g[b].next = m /\ g[b].used = h[b].used /\ g[b].prev = h[b].prev
      /\ g[m].prev = b /\ g[m].used = h[m].used /\ g[m].next = h[m].next
      /\ \A x \in D \ {b, m} : g[x] = h[x]
  BY <1>0, <1>1, <1>2, <1>3, HeapNumbers DEF D, Header, Offsets
<1>5. r = [x \in D \ {n} |-> g[x]]
  BY DEF Join, Restrict, n, m, D
<1>. HIDE DEF g, r
<1>6. DOMAIN r = D \ {n} /\ \A x \in D \ {n} : r[x] = g[x]
  BY <1>5
<1>7. /\ r \in [DOMAIN r -> Header]
      /\ r[b].next = m /\ r[b].used = h[b].used /\ r[b].prev = h[b].prev
      /\ r[m].prev = b /\ r[m].used = h[m].used /\ r[m].next = h[m].next
      /\ \A x \in DOMAIN r \ {b, m} : r[x] = h[x]
  BY <1>1, <1>2, <1>3, <1>4, <1>5, <1>6 DEF D
<1>8. /\ \A x \in DOMAIN r : r[x].used = h[x].used
      /\ \A x \in DOMAIN r \ {b} : r[x].next = h[x].next
      /\ \A x \in DOMAIN r \ {m} : r[x].prev = h[x].prev
  BY <1>7
<1>9. /\ DOMAIN r \subseteq Offsets /\ 0 \in DOMAIN r /\ heap_end \in DOMAIN r
      /\ r[heap_end].used /\ r[0].prev = 0
  BY <1>1, <1>3, <1>6, <1>8 DEF Tiles, D
<1>10. ASSUME NEW x \in DOMAIN r \ {heap_end}
       PROVE  /\ r[x].next \in DOMAIN r /\ x + SIZEOF_STRUCT_MEM < r[x].next
              /\ \A y \in DOMAIN r : y <= x \/ r[x].next <= y
  <2>0. x \in D /\ x # n /\ x \in 0..heap_end
    BY <1>0, <1>6 DEF D
  <2>1. CASE x = b
    <3>1. b + SIZEOF_STRUCT_MEM < m
      BY <1>1, <1>2, HeapNumbers
    <3>2. ASSUME NEW y \in DOMAIN r PROVE y <= b \/ m <= y
      <4>1. y \in D /\ y # n /\ y \in 0..heap_end
        BY <1>0, <1>6 DEF D
      <4>2. y <= b \/ n <= y
        BY <4>1 DEF Tiles, n, D
      <4>3. y <= n \/ m <= y
        BY <1>1, <4>1 DEF Tiles, m, D
      <4>. QED BY <1>1, <1>2, <4>1, <4>2, <4>3
    <3>. QED BY <1>2, <1>3, <1>6, <1>7, <2>1, <3>1, <3>2
  <2>2. CASE x # b
    <3>1. r[x].next = h[x].next
      BY <1>8, <2>2
    <3>2. /\ h[x].next \in D /\ x + SIZEOF_STRUCT_MEM < h[x].next
          /\ \A y \in D : y <= x \/ h[x].next <= y
      BY <2>0 DEF Tiles, D
    <3>3. h[x].next # n
      <4>1. ASSUME h[x].next = n PROVE FALSE
        <5>1. h[n].prev = x
          BY <1>1, <2>0, <4>1, Neighbours DEF D
        <5>. QED BY <1>1, <2>2, <5>1
      <4>. QED BY <4>1
    <3>. QED BY <1>6, <3>1, <3>2, <3>3
  <2>. QED BY <2>1, <2>2
<1>11. ASSUME NEW x \in DOMAIN r \ {0, heap_end}
       PROVE  /\ r[x].prev \in DOMAIN r /\ r[x].prev < x
              /\ \A y \in DOMAIN r : y <= r[x].prev \/ x <= y
  <2>0. x \in D /\ x # n /\ x \in 0..heap_end
    BY <1>0, <1>6 DEF D
  <2>1. CASE x = m
    <3>1. \A y \in DOMAIN r : y <= b \/ m <= y
      <4>1. b \in DOMAIN r \ {heap_end}
        BY <1>3, <1>6 DEF D
      <4>. QED BY <1>7, <1>10, <4>1
    <3>. QED BY <1>1, <1>2, <1>3, <1>6, <1>7, <2>1, <3>1 DEF D
  <2>2. CASE x # m
    <3>1. r[x].prev = h[x].prev
      BY <1>8, <2>2
    <3>2. /\ h[x].prev \in D /\ h[x].prev < x
          /\ \A y \in D : y <= h[x].prev \/ x <= y
      BY <2>0 DEF Tiles, D
    <3>3. h[x].prev # n
      <4>1. ASSUME h[x].prev = n PROVE FALSE
        <5>1. h[n].next = x
          BY <2>0, <4>1, Neighbours DEF D
        <5>. QED BY <2>2, <5>1 DEF m
      <4>. QED BY <4>1
    <3>. QED BY <1>6, <3>1, <3>2, <3>3
  <2>. QED BY <2>1, <2>2
<1>12. Tiles(r)
  BY <1>7, <1>9, <1>10, <1>11 DEF Tiles
<1>. QED BY <1>6, <1>7, <1>8, <1>12 DEF IsJoined, r, n, m, D

\* There is room to cut block b at n.
CanCut(h, b, n) ==
    /\ Tiles(h) /\ b \in DOMAIN h \ {heap_end} /\ n \in Int
    /\ b + SIZEOF_STRUCT_MEM < n /\ n + SIZEOF_STRUCT_MEM < h[b].next

\* r is h with block b cut at n; the second part is free.
IsCut(h, b, n, r) ==
    /\ Tiles(r) /\ DOMAIN r = DOMAIN h \cup {n} /\ n \notin DOMAIN h
    /\ r[b].next = n /\ r[n].next = h[b].next /\ r[n].prev = b /\ ~r[n].used
    /\ \A x \in DOMAIN h : r[x].used = h[x].used
    /\ \A x \in DOMAIN h \ {b} : r[x].next = h[x].next

\* Cutting a block in two.
LEMMA SplitTiles ==
    ASSUME NEW h, NEW b, NEW n, CanCut(h, b, n)
    PROVE  IsCut(h, b, n, Split(h, b, n))
<1>a. /\ Tiles(h) /\ b \in DOMAIN h \ {heap_end} /\ n \in Int
      /\ b + SIZEOF_STRUCT_MEM < n /\ n + SIZEOF_STRUCT_MEM < h[b].next
  BY DEF CanCut
<1>. PICK r : r = Split(h, b, n)
  OBVIOUS
<1>. DEFINE m == h[b].next
            D == DOMAIN h
            linked == IF m = heap_end THEN h ELSE [h EXCEPT ![m].prev = n]
<1>0. h \in [D -> Header] /\ D \subseteq 0..heap_end
  BY <1>a, HeapNumbers DEF Tiles
<1>1. /\ m \in D /\ m \in 0..heap_end /\ b \in 0..heap_end /\ b < m
      /\ m # heap_end => h[m].prev = b
      /\ \A x \in D : x <= b \/ m <= x
  BY <1>a, Neighbours DEF Tiles
<1>. HIDE DEF m, D
<1>2. /\ n \in 0..heap_end /\ b < n /\ n < m /\ n # 0 /\ n # heap_end
  BY <1>a, <1>1, HeapNumbers DEF m
<1>3. n \notin D
  BY <1>0, <1>1, <1>2
<1>4. r = [x \in D \cup {n} |->
             IF x = n THEN [used |-> FALSE, next |-> m, prev |-> b]
             ELSE IF x = b THEN [h[b] EXCEPT !.next = n]
             ELSE linked[x]]
  BY DEF Split, m, D
<1>5. /\ \A x \in D \ {m} : linked[x] = h[x]
      /\ linked[m].used = h[m].used /\ linked[m].next = h[m].next /\ linked[m] \in Header
      /\ m # heap_end => linked[m].prev = n
  <2>1. CASE m = heap_end
    BY <1>0, <1>1, <2>1 DEF D
  <2>2. CASE m # heap_end
    BY <1>0, <1>1, <1>2, <2>2, HeapNumbers DEF Header, D
  <2>. QED BY <2>1, <2>2
<1>. HIDE DEF linked
<1>6. DOMAIN r = D \cup {n} /\ b # n /\ b # m /\ m # n
  BY <1>1, <1>2, <1>4
<1>7. /\ r[n] = [used |-> FALSE, next |-> m, prev |-> b]
      /\ r[b] = [h[b] EXCEPT !.next = n]
      /\ \A x \in D \ {b} : r[x] = linked[x]
  BY <1>a, <1>3, <1>4, <1>6 DEF D
<1>8. /\ r[b].next = n /\ r[b].used = h[b].used /\ r[b].prev = h[b].prev /\ r[b] \in Header
      /\ r[n].next = m /\ r[n].prev = b /\ ~r[n].used /\ r[n] \in Header
  <2>1. /\ h[b] \in Header /\ m \in 0..heap_end /\ n \in 0..heap_end /\ b \in 0..heap_end
        /\ Offsets = 0..heap_end
    BY <1>a, <1>0, <1>1, <1>2, HeapNumbers DEF D
  <2>2. /\ r[b].next = n /\ r[b].used = h[b].used /\ r[b].prev = h[b].prev /\ r[b] \in Header
    <3>1. r[b] = [h[b] EXCEPT !.next = n]
      BY <1>7
    <3>. QED BY <2>1, <3>1 DEF Header
  <2>3. r[n].next = m /\ r[n].prev = b /\ ~r[n].used /\ r[n] \in Header
    <3>1. r[n] = [used |-> FALSE, next |-> m, prev |-> b]
      BY <1>7
    <3>. QED BY <2>1, <3>1 DEF Header
  <2>. QED BY <2>2, <2>3
<1>9. /\ \A x \in D : r[x].used = h[x].used
      /\ \A x \in D \ {b} : r[x].next = h[x].next
      /\ \A x \in D \ {m} : r[x].prev = h[x].prev
      /\ m # heap_end => r[m].prev = n
  <2>1. m \in D \ {b} /\ r[m] = linked[m]
    BY <1>1, <1>6, <1>7
  <2>2. \A x \in D \ {b, m} : r[x] = h[x]
    BY <1>5, <1>7
  <2>. QED BY <1>5, <1>8, <2>1, <2>2
<1>10. r \in [DOMAIN r -> Header]
  <2>1. ASSUME NEW x \in DOMAIN r PROVE r[x] \in Header
    <3>1. CASE x = n \/ x = b
      BY <1>8, <3>1
    <3>2. CASE x \in D \ {b, m}
      <4>1. r[x] = h[x]
        BY <1>5, <1>7, <3>2
      <4>. QED BY <1>0, <3>2, <4>1
    <3>3. CASE x = m
      <4>1. r[m] = linked[m]
        BY <1>1, <1>6, <1>7
      <4>. QED BY <1>5, <3>3, <4>1
    <3>. QED BY <1>6, <3>1, <3>2, <3>3
  <2>2. r = [x \in DOMAIN r |-> r[x]]
    BY <1>4, <1>6
  <2>. QED BY <2>1, <2>2
<1>11. /\ DOMAIN r \subseteq Offsets /\ 0 \in DOMAIN r /\ heap_end \in DOMAIN r
       /\ r[heap_end].used /\ r[0].prev = 0
  <2>1. 0 \in D /\ heap_end \in D /\ h[heap_end].used /\ h[0].prev = 0 /\ m # 0
    BY <1>a, <1>1 DEF Tiles, D
  <2>. QED BY <1>0, <1>2, <1>6, <1>9, <2>1, HeapNumbers
<1>12. ASSUME NEW x \in DOMAIN r \ {heap_end}
       PROVE  /\ r[x].next \in DOMAIN r /\ x + SIZEOF_STRUCT_MEM < r[x].next
              /\ \A y \in DOMAIN r : y <= x \/ r[x].next <= y
  <2>1. CASE x = b
    <3>1. ASSUME NEW y \in DOMAIN r PROVE y <= b \/ n <= y
      <4>1. y = n \/ y \in D
        BY <1>6
      <4>2. y \in D => y \in 0..heap_end /\ (y <= b \/ m <= y)
        BY <1>0, <1>1
      <4>. QED BY <1>1, <1>2, <4>1, <4>2
    <3>. QED BY <1>a, <1>6, <1>8, <2>1, <3>1
  <2>2. CASE x = n
    <3>1. ASSUME NEW y \in DOMAIN r PROVE y <= n \/ m <= y
      <4>1. y = n \/ y \in D
        BY <1>6
      <4>2. y \in D => y \in 0..heap_end /\ (y <= b \/ m <= y)
        BY <1>0, <1>1
      <4>. QED BY <1>1, <1>2, <4>1, <4>2
    <3>. QED BY <1>a, <1>1, <1>6, <1>8, <2>2, <3>1 DEF m
  <2>3. CASE x \notin {b, n}
    <3>0. x \in D /\ x \in 0..heap_end /\ r[x].next = h[x].next
      BY <1>0, <1>6, <1>9, <2>3
    <3>1. /\ h[x].next \in D /\ x + SIZEOF_STRUCT_MEM < h[x].next
          /\ \A y \in D : y <= x \/ h[x].next <= y
      BY <1>a, <3>0 DEF Tiles, D
    <3>2. h[x].next \in 0..heap_end
      BY <1>0, <3>1
    <3>3. n <= x \/ h[x].next <= n
      <4>1. b <= x \/ h[x].next <= b
        BY <1>a, <3>1 DEF D
      <4>2. x <= b \/ m <= x
        BY <1>1, <3>0
      <4>. QED BY <1>1, <1>2, <2>3, <3>0, <3>2, <4>1, <4>2
    <3>. QED BY <1>6, <3>0, <3>1, <3>3
  <2>. QED BY <2>1, <2>2, <2>3
<1>13. ASSUME NEW x \in DOMAIN r \ {0, heap_end}
       PROVE  /\ r[x].prev \in DOMAIN r /\ r[x].prev < x
              /\ \A y \in DOMAIN r : y <= r[x].prev \/ x <= y
  <2>1. CASE x = n
    <3>1. \A y \in DOMAIN r : y <= b \/ n <= y
      BY <1>a, <1>12, <1>6, <1>8 DEF D
    <3>. QED BY <1>a, <1>2, <1>6, <1>8, <2>1, <3>1 DEF D
  <2>2. CASE x = m
    <3>1. \A y \in DOMAIN r : y <= n \/ m <= y
      BY <1>2, <1>12, <1>6, <1>8
    <3>. QED BY <1>2, <1>6, <1>9, <2>2, <3>1
  <2>3. CASE x \notin {n, m}
    <3>0. x \in D /\ x \in 0..heap_end /\ r[x].prev = h[x].prev
      BY <1>0, <1>6, <1>9, <2>3
    <3>1. /\ h[x].prev \in D /\ h[x].prev < x
          /\ \A y \in D : y <= h[x].prev \/ x <= y
      BY <1>a, <3>0 DEF Tiles, D
    <3>2. h[x].prev \in 0..heap_end
      BY <1>0, <3>1
    <3>3. n <= h[x].prev \/ x <= n
      <4>1. m <= h[x].prev \/ x <= m
        BY <1>1, <3>1
      <4>2. x <= b \/ m <= x
        BY <1>1, <3>0
      <4>. QED BY <1>1, <1>2, <2>3, <3>0, <3>2, <4>1, <4>2
    <3>. QED BY <1>6, <3>0, <3>1, <3>3
  <2>. QED BY <2>1, <2>2, <2>3
<1>14. Tiles(r)
  BY <1>10, <1>11, <1>12, <1>13 DEF Tiles
<1>. QED BY <1>3, <1>6, <1>8, <1>9, <1>14 DEF IsCut, m, D
-----------------------------------------------------------------------------
(* Free blocks, used blocks and their neighbours.                          *)

Free(h) == {b \in DOMAIN h \ {heap_end} : ~h[b].used}
InUse(h) == {b \in DOMAIN h \ {heap_end} : h[b].used}

\* No free block follows another.
NoHoles(h) == \A b \in Free(h) : h[h[b].next].used

\* low is the first free block, or the end of the heap if there is none.
Lowest(h, low) == low \in Free(h) \cup {heap_end} /\ \A x \in Free(h) : low <= x

\* A set of naturals that is not empty has a least element, and Min finds it.
LEMMA LeastOffset ==
    ASSUME NEW T, T \subseteq Nat, T # {}
    PROVE  Min(T) \in T /\ \A y \in T : Min(T) <= y
<1>1. PICK x \in T : \A y \in T : ~(<<y, x>> \in OpToRel(<, Nat))
  BY NatLessThanWellFounded, WFMin, Zenon
<1>2. ASSUME NEW y \in T PROVE x <= y
  <2>1. ~(<<y, x>> \in OpToRel(<, Nat))
    BY <1>1, Zenon
  <2>2. ~(y < x)
    BY <2>1, Zenon DEF OpToRel
  <2>. QED BY <2>2
<1>3. \E z \in T : \A y \in T : z <= y
  BY <1>2
<1>. QED BY <1>3 DEF Min

\* What plug_holes has to find: around block b alone may free blocks adjoin.
HolesAround(h, b) == \A x \in Free(h) \ {b} : h[x].next # b => h[h[x].next].used

\* The first half of plug_holes: the block after b is taken in if it is free.
LEMMA PlugForward ==
    ASSUME NEW h, Tiles(h), NEW b \in Free(h), NEW low, Lowest(h, low), HolesAround(h, b)
    PROVE  LET n == h[b].next
               forward == Joinable(h, n)
               h1 == IF forward THEN Join(h, b) ELSE h
               low1 == IF forward /\ low = n THEN b ELSE low
           IN  /\ Tiles(h1) /\ b \in Free(h1) /\ HolesAround(h1, b)
               /\ h1[h1[b].next].used
               /\ low1 = low /\ Lowest(h1, low)
               /\ InUse(h1) = InUse(h) /\ \A x \in InUse(h) : h1[x].next = h[x].next
<1>. DEFINE n == h[b].next
            g == Join(h, b)
<1>0. b \in DOMAIN h \ {heap_end} /\ ~h[b].used
  BY DEF Free
<1>1. n \in DOMAIN h /\ n \in 0..heap_end /\ b \in 0..heap_end /\ b < n
  BY <1>0, Neighbours
<1>2. low <= b /\ low \in 0..heap_end
  <2>1. low \in DOMAIN h \/ low = heap_end
    BY DEF Lowest, Free
  <2>. QED BY <2>1, Neighbours, HeapNumbers DEF Lowest
<1>. HIDE DEF n
<1>3. low # n
  BY <1>1, <1>2
<1>4. CASE Joinable(h, n)
  <2>1. n # heap_end /\ ~h[n].used
    BY <1>4 DEF Joinable
  <2>2. /\ Tiles(g) /\ DOMAIN g = DOMAIN h \ {n}
        /\ g[b].next = h[n].next
        /\ \A x \in DOMAIN g : g[x].used = h[x].used
        /\ \A x \in DOMAIN g \ {b} : g[x].next = h[x].next
    <3>1. CanJoin(h, b)
      BY <1>0, <2>1 DEF CanJoin, n
    <3>2. IsJoined(h, b, g)
      BY <3>1, JoinTiles
    <3>. HIDE DEF g
    <3>. QED BY <3>2 DEF IsJoined, n
  <2>. HIDE DEF g
  <2>3. Free(g) = Free(h) \ {n} /\ InUse(g) = InUse(h) /\ b # n
    BY <1>1, <2>1, <2>2 DEF Free, InUse
  <2>4. g[g[b].next].used
    <3>1. n \in Free(h) \ {b}
      BY <1>1, <2>1, <2>3 DEF Free
    <3>2. h[n].next # b /\ h[n].next \in DOMAIN h /\ h[n].next # n
      BY <1>1, <2>1, Neighbours
    <3>3. h[h[n].next].used
      BY <3>1, <3>2 DEF HolesAround
    <3>. QED BY <2>2, <3>2, <3>3
  <2>5. HolesAround(g, b)
    <3>1. ASSUME NEW x \in Free(g) \ {b}, g[x].next # b PROVE g[g[x].next].used
      <4>1. x \in DOMAIN g \ {heap_end} /\ x \in Free(h) \ {b} /\ g[x].next = h[x].next
        BY <2>2, <2>3, <3>1 DEF Free
      <4>2. g[x].next \in DOMAIN g
        BY <2>2, <4>1, Neighbours
      <4>3. h[h[x].next].used
        BY <3>1, <4>1 DEF HolesAround
      <4>. QED BY <2>2, <4>1, <4>2, <4>3
    <3>. QED BY <3>1 DEF HolesAround
  <2>6. Lowest(g, low)
    BY <1>3, <2>3 DEF Lowest
  <2>7. \A x \in InUse(h) : g[x].next = h[x].next
    BY <1>0, <2>1, <2>2 DEF InUse
  <2>8. b \in Free(g)
    BY <2>3
  <2>. QED BY <1>3, <1>4, <2>2, <2>3, <2>4, <2>5, <2>6, <2>7, <2>8 DEF n, g
<1>5. CASE ~Joinable(h, n)
  <2>1. h[n].used
    BY <1>1, <1>5 DEF Joinable, Tiles
  <2>. QED BY <1>5, <2>1 DEF n
<1>. QED BY <1>4, <1>5

\* plug_holes leaves no holes, loses no used block and keeps lfree the lowest.
LEMMA PlugEffect ==
    ASSUME NEW h, Tiles(h), NEW b \in Free(h), NEW low, Lowest(h, low), HolesAround(h, b)
    PROVE  LET r == plug_holes(h, low, b)
           IN  /\ Tiles(r.heap) /\ NoHoles(r.heap) /\ Lowest(r.heap, r.lfree)
               /\ InUse(r.heap) = InUse(h)
               /\ \A x \in InUse(h) : r.heap[x].next = h[x].next
<1>. DEFINE n == h[b].next
            forward == Joinable(h, n)
            h1 == IF forward THEN Join(h, b) ELSE h
            low1 == IF forward /\ low = n THEN b ELSE low
            p == h1[b].prev
            backward == p # b /\ ~h1[p].used
            g == Join(h1, p)
            r == plug_holes(h, low, b)
<1>1. /\ Tiles(h1) /\ b \in Free(h1) /\ HolesAround(h1, b)
      /\ h1[h1[b].next].used
      /\ low1 = low /\ Lowest(h1, low)
      /\ InUse(h1) = InUse(h) /\ \A x \in InUse(h) : h1[x].next = h[x].next
  BY PlugForward
<1>2. /\ r.heap = IF backward THEN g ELSE h1
      /\ r.lfree = IF backward /\ low1 = b THEN p ELSE low1
  BY DEF plug_holes
<1>. HIDE DEF h1, low1, r, n, forward
<1>3. b \in DOMAIN h1 \ {heap_end} /\ ~h1[b].used
  BY <1>1 DEF Free
<1>4. CASE backward
  <2>1. b # 0
    BY <1>1, <1>4 DEF Tiles
  <2>2. /\ p \in DOMAIN h1 \ {heap_end} /\ p < b /\ h1[p].next = b /\ b # heap_end
        /\ p \in 0..heap_end /\ b \in 0..heap_end /\ ~h1[p].used
    BY <1>1, <1>3, <1>4, <2>1, Neighbours
  <2>3. /\ Tiles(g) /\ DOMAIN g = DOMAIN h1 \ {b}
        /\ g[p].next = h1[b].next
        /\ \A x \in DOMAIN g : g[x].used = h1[x].used
        /\ \A x \in DOMAIN g \ {p} : g[x].next = h1[x].next
    <3>. HIDE DEF p
    <3>1. CanJoin(h1, p)
      BY <1>1, <2>2 DEF CanJoin
    <3>2. IsJoined(h1, p, g)
      BY <3>1, JoinTiles
    <3>. HIDE DEF g
    <3>. QED BY <2>2, <3>2 DEF IsJoined
  <2>. HIDE DEF g
  <2>4. Free(g) = Free(h1) \ {b} /\ InUse(g) = InUse(h1) /\ p \in Free(h1)
    BY <1>3, <2>2, <2>3 DEF Free, InUse
  <2>5. low <= p /\ low # b
    <3>1. low \in DOMAIN h1 \/ low = heap_end
      BY <1>1 DEF Lowest, Free
    <3>2. low \in 0..heap_end
      BY <1>1, <3>1, Neighbours, HeapNumbers
    <3>3. low <= p
      BY <1>1, <2>4 DEF Lowest
    <3>. QED BY <2>2, <3>2, <3>3
  <2>6. Lowest(g, low)
    BY <1>1, <2>4, <2>5 DEF Lowest
  <2>7. NoHoles(g)
    <3>1. ASSUME NEW x \in Free(g) PROVE g[g[x].next].used
      <4>1. x \in DOMAIN g \ {heap_end} /\ x \in Free(h1) \ {b} /\ g[x].next \in DOMAIN g
        BY <2>3, <2>4, <3>1, Neighbours DEF Free
      <4>2. CASE x = p
        BY <1>1, <2>3, <4>1, <4>2
      <4>3. CASE x # p
        <5>1. g[x].next = h1[x].next
          BY <2>3, <4>1, <4>3
        <5>2. h1[x].next # b
          BY <2>3, <4>1, <5>1
        <5>3. h1[h1[x].next].used
          BY <1>1, <4>1, <5>2 DEF HolesAround
        <5>. QED BY <2>3, <4>1, <5>1, <5>3
      <4>. QED BY <4>2, <4>3
    <3>. QED BY <3>1 DEF NoHoles
  <2>8. \A x \in InUse(h) : g[x].next = h[x].next
    <3>1. \A x \in InUse(h1) : x \in DOMAIN g \ {p}
      BY <2>2, <2>4 DEF InUse
    <3>. QED BY <1>1, <2>3, <3>1
  <2>9. r.heap = g /\ r.lfree = low
    BY <1>1, <1>2, <1>4, <2>5
  <2>. QED BY <1>1, <2>3, <2>4, <2>6, <2>7, <2>8, <2>9 DEF r
<1>5. CASE ~backward
  <2>1. NoHoles(h1)
    <3>1. ASSUME NEW x \in Free(h1) PROVE h1[h1[x].next].used
      <4>1. x \in DOMAIN h1 \ {heap_end} /\ ~h1[x].used
        BY <3>1 DEF Free
      <4>2. CASE x = b
        BY <1>1, <4>2
      <4>3. CASE x # b
        <5>1. h1[x].next # b
          <6>1. ASSUME h1[x].next = b PROVE FALSE
            <7>1. p = x
              BY <1>1, <1>3, <4>1, <6>1, Neighbours
            <7>. QED BY <1>5, <4>1, <4>3, <7>1
          <6>. QED BY <6>1
        <5>. QED BY <1>1, <4>3, <5>1 DEF HolesAround
      <4>. QED BY <4>2, <4>3
    <3>. QED BY <3>1 DEF NoHoles
  <2>2. r.heap = h1 /\ r.lfree = low
    BY <1>1, <1>2, <1>5
  <2>. QED BY <1>1, <2>1, <2>2 DEF r
<1>. QED BY <1>4, <1>5

-----------------------------------------------------------------------------
(* The units of used blocks.                                               *)

Units(h, U) == UNION {b..h[b].next-1 : b \in U}

\* Blocks do not overlap, so a further block adds its own length.
LEMMA UnitsAdded ==
    ASSUME NEW h, Tiles(h), NEW U \in SUBSET (DOMAIN h \ {heap_end}),
           NEW b \in DOMAIN h \ {heap_end}, b \notin U,
           NEW e \in Int, b < e, e <= h[b].next
    PROVE  /\ Cardinality(Units(h, U)) \in Nat
           /\ Cardinality(Units(h, U) \cup b..e-1) = Cardinality(Units(h, U)) + (e - b)
           /\ Cardinality(Units(h, U) \cup b..e-1) \in 0..heap_end
<1>. DEFINE A == Units(h, U)
            B == b..e-1
<1>1. b \in 0..heap_end /\ h[b].next \in 0..heap_end
  BY Neighbours
<1>2. A \subseteq 0..heap_end-1
  <2>1. ASSUME NEW c \in U PROVE c..h[c].next-1 \subseteq 0..heap_end-1
    <3>1. c \in 0..heap_end /\ h[c].next \in 0..heap_end
      BY Neighbours
    <3>. QED BY <3>1, HeapNumbers
  <2>. QED BY <2>1 DEF Units
<1>3. B \subseteq 0..heap_end-1
  BY <1>1, HeapNumbers
<1>4. A \cap B = {}
  <2>1. ASSUME NEW c \in U, NEW x \in c..h[c].next-1, x \in B PROVE FALSE
    <3>1. c \in DOMAIN h \ {heap_end} /\ c # b
      OBVIOUS
    <3>2. c \in 0..heap_end /\ h[c].next \in 0..heap_end
      BY <3>1, Neighbours
    <3>3. (b <= c \/ h[c].next <= b) /\ (c <= b \/ h[b].next <= c)
      BY <3>1 DEF Tiles
    <3>4. x \in Int /\ c <= x /\ x < h[c].next /\ b <= x /\ x < e
      BY <1>1, <2>1, <3>2
    <3>. QED BY <1>1, <3>1, <3>2, <3>3, <3>4
  <2>. QED BY <2>1 DEF Units
<1>. HIDE DEF A
<1>5. IsFiniteSet(0..heap_end-1) /\ Cardinality(0..heap_end-1) = heap_end
  BY FS_Interval, HeapNumbers
<1>6. IsFiniteSet(A) /\ Cardinality(A) \in Nat
  BY <1>2, <1>5, FS_Subset, FS_CardinalityType
<1>7. IsFiniteSet(B) /\ Cardinality(B) = e - b
  <2>1. b \in Int /\ e - 1 \in Int /\ ~(b > e - 1) /\ (e - 1) - b + 1 = e - b
    BY <1>1
  <2>. QED BY <2>1, FS_Interval
<1>. HIDE DEF B
<1>8. Cardinality(A \cup B) = Cardinality(A) + Cardinality(B) - Cardinality({}) /\ IsFiniteSet(A \cup B)
  BY <1>4, <1>6, <1>7, FS_Union
<1>9. Cardinality({}) = 0
  BY FS_EmptySet
<1>10. Cardinality(A \cup B) <= heap_end
  BY <1>2, <1>3, <1>5, FS_Subset
<1>11. Cardinality(A \cup B) = Cardinality(A) + (e - b)
  BY <1>1, <1>6, <1>7, <1>8, <1>9
<1>. QED BY <1>1, <1>6, <1>10, <1>11, HeapNumbers DEF A, B

\* Only the ends of the used blocks count.
LEMMA UnitsSame ==
    ASSUME NEW h, NEW g, NEW U, \A x \in U : g[x].next = h[x].next
    PROVE  Units(g, U) = Units(h, U)
  BY DEF Units

\* Units of one block and of the others.
LEMMA UnitsSplit ==
    ASSUME NEW h, NEW U, NEW b \in U
    PROVE  Units(h, U) = Units(h, U \ {b}) \cup b..h[b].next-1
  BY DEF Units
-----------------------------------------------------------------------------
(* The invariant.                                                          *)

\* Its parts about the blocks are those of HeapSound, in terms of the tiling.
HeapInv ==
    /\ Tiles(heap) /\ NoHoles(heap) /\ Lowest(heap, lfree)
    /\ InUse(heap) = DOMAIN live
    /\ \A b \in DOMAIN live : live[b] <= Room(heap, b)
    /\ used_mem = Cardinality(Units(heap, DOMAIN live))
    /\ moving \subseteq DOMAIN live
    /\ RefusedOnlyIfFull

LEMMA HeapStart == HeapInit => HeapInv
<1>. SUFFICES ASSUME HeapInit PROVE HeapInv
  OBVIOUS
<1>1. /\ heap = InitialHeap /\ lfree = 0 /\ used_mem = 0 /\ moving = {} /\ refused = 0
      /\ DOMAIN live = {}
  BY DEF HeapInit
<1>2. /\ DOMAIN heap = {0, heap_end} /\ 0 # heap_end
      /\ heap[0] = [used |-> FALSE, next |-> heap_end, prev |-> 0]
      /\ heap[heap_end] = [used |-> TRUE, next |-> heap_end, prev |-> heap_end]
  <2>1. 0 # heap_end
    BY HeapNumbers
  <2>2. DOMAIN heap = {0, heap_end}
    BY <1>1 DEF InitialHeap
  <2>3. heap[0] = [used |-> 0 = heap_end, next |-> heap_end, prev |-> 0]
    BY <1>1 DEF InitialHeap
  <2>4. heap[heap_end] = [used |-> heap_end = heap_end, next |-> heap_end, prev |-> heap_end]
    BY <1>1 DEF InitialHeap
  <2>5. (0 = heap_end) = FALSE /\ (heap_end = heap_end) = TRUE
    BY <2>1
  <2>. QED BY <2>1, <2>2, <2>3, <2>4, <2>5
<1>3. heap \in [DOMAIN heap -> Header]
  <2>1. heap[0] \in Header /\ heap[heap_end] \in Header
    BY <1>2, HeapNumbers DEF Header
  <2>2. heap = [b \in {0, heap_end} |-> heap[b]]
    BY <1>1 DEF InitialHeap
  <2>. QED BY <1>2, <2>1, <2>2
<1>4. SIZEOF_STRUCT_MEM < heap_end
  BY HeapNumbers
<1>5. Tiles(heap)
  <2>1. /\ heap[0].next = heap_end /\ heap[0].prev = 0 /\ heap[heap_end].used
        /\ DOMAIN heap \ {heap_end} = {0} /\ DOMAIN heap \ {0, heap_end} = {}
        /\ DOMAIN heap \subseteq Offsets
    BY <1>2, HeapNumbers
  <2>2. \A x \in DOMAIN heap : x <= 0 \/ heap_end <= x
    BY <1>2, HeapNumbers
  <2>. QED BY <1>2, <1>3, <1>4, <2>1, <2>2, HeapNumbers DEF Tiles
<1>6. Free(heap) = {0} /\ InUse(heap) = {}
  BY <1>2 DEF Free, InUse
<1>7. NoHoles(heap) /\ Lowest(heap, lfree)
  BY <1>1, <1>2, <1>6 DEF NoHoles, Lowest
<1>8. Cardinality(Units(heap, DOMAIN live)) = 0
  <2>1. Units(heap, {}) = {}
    BY DEF Units
  <2>. QED BY <1>1, <2>1, FS_EmptySet
<1>. QED BY <1>1, <1>5, <1>6, <1>7, <1>8 DEF HeapInv, RefusedOnlyIfFull

\* The parts of the invariant, by name.
LEMMA HeapParts ==
    ASSUME HeapInv
    PROVE  /\ Tiles(heap) /\ NoHoles(heap) /\ Lowest(heap, lfree)
           /\ InUse(heap) = DOMAIN live /\ DOMAIN live \subseteq DOMAIN heap \ {heap_end}
           /\ \A b \in DOMAIN live : heap[b].used /\ live[b] <= Room(heap, b)
           /\ used_mem = Cardinality(Units(heap, DOMAIN live))
           /\ moving \subseteq DOMAIN live
           /\ lfree \in 0..heap_end /\ \A x \in Free(heap) : lfree <= x
<1>1. lfree \in DOMAIN heap \/ lfree = heap_end
  BY DEF HeapInv, Lowest, Free
<1>2. lfree \in 0..heap_end
  BY <1>1, Neighbours, HeapNumbers DEF HeapInv
<1>. QED BY <1>2 DEF HeapInv, Lowest, InUse

\* The block rt_malloc takes, and where it leaves lfree.
LEMMA TakenEffect ==
    ASSUME HeapInv, NEW b \in Free(heap), NEW size \in Nat \ {0}, Room(heap, b) >= size
    PROVE  LET h == Taken(b, size)
           IN  /\ Tiles(h) /\ NoHoles(h) /\ Lowest(h, NextFree(h, b))
               /\ InUse(h) = InUse(heap) \cup {b} /\ b \notin InUse(heap)
               /\ \A x \in InUse(heap) : h[x].next = heap[x].next
               /\ size <= Room(h, b) /\ h[b].next <= heap[b].next
<1>. DEFINE n == b + SIZEOF_STRUCT_MEM + size
            g == IF Splits(b, size) THEN Split(heap, b, n) ELSE heap
            h == Taken(b, size)
            new == IF Splits(b, size) THEN {n} ELSE {}
<1>0. /\ Tiles(heap) /\ NoHoles(heap) /\ Lowest(heap, lfree) /\ lfree \in 0..heap_end
      /\ b \in DOMAIN heap \ {heap_end} /\ ~heap[b].used
      /\ \A x \in Free(heap) : lfree <= x
  BY HeapParts DEF Free
<1>1. /\ b \in 0..heap_end /\ heap[b].next \in DOMAIN heap /\ heap[b].next \in 0..heap_end
      /\ b + SIZEOF_STRUCT_MEM < heap[b].next
      /\ heap[b].next - (b + SIZEOF_STRUCT_MEM) >= size
  BY <1>0, Neighbours DEF Room
<1>2. /\ Tiles(g) /\ DOMAIN g = DOMAIN heap \cup new /\ new \cap DOMAIN heap = {}
      /\ g[b].next \in Int /\ b + SIZEOF_STRUCT_MEM + size <= g[b].next /\ g[b].next <= heap[b].next
      /\ \A x \in DOMAIN heap : g[x].used = heap[x].used
      /\ \A x \in DOMAIN heap \ {b} : g[x].next = heap[x].next
      /\ \A x \in new : /\ x # heap_end /\ b < x /\ x \in Int
                        /\ ~g[x].used /\ g[x].next = heap[b].next
  <2>1. CASE Splits(b, size)
    <3>1. /\ n \in Int /\ b + SIZEOF_STRUCT_MEM < n /\ n + SIZEOF_STRUCT_MEM < heap[b].next
          /\ n # heap_end /\ b < n /\ n <= heap[b].next
      <4>. DEFINE e == heap[b].next
                  d == SIZEOF_STRUCT_MEM
      <4>1. e - (b + d) >= size + d + MIN_SIZE
        BY <2>1 DEF Splits, Room
      <4>2. b \in Int /\ e \in Int /\ e <= heap_end /\ heap_end \in Int /\ size \in Int /\ size > 0
        BY <1>1, HeapNumbers
      <4>3. d \in Int /\ d > 0 /\ MIN_SIZE \in Int /\ MIN_SIZE > 0
        BY HeapNumbers
      <4>4. n = b + d + size
        OBVIOUS
      <4>. HIDE DEF e, d, n
      <4>5. n \in Int /\ b + d < n /\ b < n
        BY <4>2, <4>3, <4>4
      <4>6. n + d < e
        BY <4>1, <4>2, <4>3, <4>4
      <4>7. n <= e /\ n # heap_end
        BY <4>2, <4>3, <4>5, <4>6
      <4>. QED BY <4>5, <4>6, <4>7 DEF e, d
    <3>2. g = Split(heap, b, n) /\ new = {n}
      BY <2>1
    <3>. HIDE DEF n, g, new
    <3>3. /\ Tiles(g) /\ DOMAIN g = DOMAIN heap \cup {n} /\ n \notin DOMAIN heap
          /\ g[b].next = n /\ g[n].next = heap[b].next /\ ~g[n].used
          /\ \A x \in DOMAIN heap : g[x].used = heap[x].used
          /\ \A x \in DOMAIN heap \ {b} : g[x].next = heap[x].next
      <4>1. CanCut(heap, b, n)
        BY <1>0, <3>1 DEF CanCut
      <4>2. IsCut(heap, b, n, g)
        BY <3>2, <4>1, SplitTiles
      <4>. QED BY <4>2 DEF IsCut
    <3>4. b + SIZEOF_STRUCT_MEM + size <= g[b].next
      BY <1>1, <3>3, HeapNumbers DEF n
    <3>. QED BY <3>1, <3>2, <3>3, <3>4
  <2>2. CASE ~Splits(b, size)
    <3>1. g = heap /\ new = {}
      BY <2>2
    <3>. HIDE DEF g, new
    <3>. QED BY <1>0, <1>1, <3>1, HeapNumbers
  <2>. QED BY <2>1, <2>2
<1>3. h = [g EXCEPT ![b].used = TRUE]
  BY DEF Taken
<1>. HIDE DEF g, h, new, n
<1>4. /\ Tiles(h) /\ DOMAIN h = DOMAIN g
      /\ h[b].used /\ h[b].next = g[b].next
      /\ \A x \in DOMAIN g \ {b} : h[x] = g[x]
  <2>1. b \in DOMAIN g \ {heap_end}
    BY <1>0, <1>2
  <2>. QED BY <1>2, <1>3, <2>1, MarkTiles
<1>5. Free(h) = (Free(heap) \ {b}) \cup new
  BY <1>0, <1>2, <1>4 DEF Free
<1>6. InUse(h) = InUse(heap) \cup {b} /\ b \notin InUse(heap)
  BY <1>0, <1>2, <1>4 DEF InUse
<1>7. \A x \in InUse(heap) : h[x].next = heap[x].next
  <2>1. \A x \in InUse(heap) : x \in DOMAIN heap \ {b} /\ x \in DOMAIN g \ {b}
    BY <1>2, <1>6 DEF InUse
  <2>. QED BY <1>2, <1>4, <2>1
<1>8. size <= Room(h, b) /\ h[b].next <= heap[b].next
  BY <1>1, <1>2, <1>4, HeapNumbers DEF Room
<1>9. NoHoles(h)
  <2>1. \A x \in DOMAIN heap : heap[x].used => h[x].used
    BY <1>2, <1>4
  <2>2. ASSUME NEW x \in Free(h) PROVE h[h[x].next].used
    <3>1. CASE x \in Free(heap) \ {b}
      <4>1. x \in DOMAIN heap \ {heap_end, b}
        BY <3>1 DEF Free
      <4>2. h[x].next = heap[x].next /\ heap[x].next \in DOMAIN heap
        BY <1>0, <1>2, <1>4, <4>1, Neighbours
      <4>3. heap[heap[x].next].used
        BY <1>0, <3>1 DEF NoHoles
      <4>. QED BY <2>1, <4>2, <4>3
    <3>2. CASE x \in new
      <4>1. x # b /\ x \in DOMAIN g
        BY <1>1, <1>2, <3>2
      <4>2. h[x].next = heap[b].next
        BY <1>2, <1>4, <3>2, <4>1
      <4>3. heap[heap[b].next].used
        BY <1>0 DEF NoHoles
      <4>. QED BY <1>1, <2>1, <4>2, <4>3
    <3>. QED BY <1>5, <2>2, <3>1, <3>2
  <2>. QED BY <2>2 DEF NoHoles
<1>10. Lowest(h, NextFree(h, b))
  <2>0. b \in Int /\ \A x \in new : x \in Int /\ b < x
    BY <1>1, <1>2
  <2>1. CASE b = lfree
    <3>. DEFINE T == {x \in DOMAIN h : x >= b /\ ~h[x].used} \cup {heap_end}
    <3>1. NextFree(h, b) = Min(T)
      BY <2>1 DEF NextFree
    <3>2. T \subseteq Nat /\ T # {}
      <4>1. \A x \in DOMAIN h : x \in Nat
        BY <1>4, Neighbours
      <4>. QED BY <4>1, HeapNumbers
    <3>3. T = Free(h) \cup {heap_end}
      <4>1. \A x \in Free(h) : x >= b /\ x \in DOMAIN h /\ ~h[x].used
        <5>1. \A x \in Free(heap) : x \in Int
          BY <1>0, Neighbours DEF Free
        <5>. QED BY <1>0, <1>5, <2>0, <2>1, <5>1 DEF Free
      <4>2. \A x \in T : x \in Free(h) \cup {heap_end}
        BY DEF Free
      <4>. QED BY <4>1, <4>2
    <3>. HIDE DEF T
    <3>4. Min(T) \in T /\ \A x \in T : Min(T) <= x
      BY <3>2, LeastOffset
    <3>. QED BY <3>1, <3>3, <3>4 DEF Lowest
  <2>2. CASE b # lfree
    <3>1. NextFree(h, b) = lfree /\ lfree <= b
      BY <1>0, <2>2 DEF NextFree
    <3>2. lfree \in Free(heap) \ {b}
      <4>1. lfree \in Free(heap) \cup {heap_end}
        BY <1>0 DEF Lowest
      <4>2. b < heap_end
        BY <1>1, HeapNumbers
      <4>. QED BY <1>0, <2>0, <2>2, <3>1, <4>1, <4>2, HeapNumbers
    <3>3. \A x \in Free(h) : lfree <= x
      BY <1>0, <1>5, <2>0, <3>1, HeapNumbers
    <3>. QED BY <1>5, <3>1, <3>2, <3>3 DEF Lowest
  <2>. QED BY <2>1, <2>2
<1>. QED BY <1>4, <1>6, <1>7, <1>8, <1>9, <1>10 DEF h

\* An allocation keeps the invariant.
LEMMA AllocateStep ==
    ASSUME HeapInv, NEW asked \in Nat \ {0}, Fitting(AtLeastMin(asked)) # {},
           Allocate(Min(Fitting(AtLeastMin(asked))), AtLeastMin(asked), asked),
           refused' = 0, moving' \subseteq DOMAIN live
    PROVE  HeapInv'
<1>. DEFINE size == AtLeastMin(asked)
            fits == Fitting(size)
            b == Min(fits)
            h == Taken(b, size)
            U == DOMAIN live
<1>0. /\ Tiles(heap) /\ InUse(heap) = U /\ U \subseteq DOMAIN heap \ {heap_end}
      /\ \A x \in U : live[x] <= Room(heap, x)
      /\ used_mem = Cardinality(Units(heap, U))
  BY HeapParts
<1>1. size \in Nat \ {0} /\ asked <= size
  BY HeapNumbers DEF AtLeastMin
<1>2. b \in fits
  <2>1. fits \subseteq Nat
    <3>1. \A x \in DOMAIN heap : x \in Nat
      BY <1>0, Neighbours
    <3>. QED BY <3>1 DEF Fitting, FreeBlocks, Blocks
  <2>. QED BY <2>1, LeastOffset
<1>3. b \in Free(heap) /\ Room(heap, b) >= size /\ b \in DOMAIN heap \ {heap_end} /\ b \in Int
  <2>1. b \in Free(heap) /\ Room(heap, b) >= size
    BY <1>2 DEF Fitting, FreeBlocks, Blocks, Free
  <2>. QED BY <1>0, <2>1, Neighbours DEF Free
<1>4. /\ heap' = h /\ lfree' = NextFree(h, b) /\ used_mem' = used_mem + (h[b].next - b)
      /\ live' = [x \in U \cup {b} |-> IF x = b THEN asked ELSE live[x]]
  BY DEF Allocate
<1>. HIDE DEF size, fits, b, h, U
<1>5. /\ Tiles(h) /\ NoHoles(h) /\ Lowest(h, NextFree(h, b))
      /\ InUse(h) = InUse(heap) \cup {b} /\ b \notin InUse(heap)
      /\ \A x \in InUse(heap) : h[x].next = heap[x].next
      /\ size <= Room(h, b) /\ h[b].next <= heap[b].next
  BY <1>1, <1>3, TakenEffect DEF h
<1>6. h[b].next \in Int /\ b < h[b].next
  <2>1. b \in DOMAIN h \ {heap_end}
    BY <1>5 DEF InUse
  <2>. QED BY <1>5, <2>1, Neighbours
<1>7. \A x \in DOMAIN live' : live'[x] <= Room(heap', x)
  <2>1. asked <= Room(h, b)
    BY <1>1, <1>3, <1>5, <1>6, HeapNumbers DEF Room
  <2>2. \A x \in U : Room(h, x) = Room(heap, x)
    BY <1>0, <1>5 DEF Room
  <2>. QED BY <1>0, <1>4, <2>1, <2>2
<1>8. used_mem' = Cardinality(Units(heap', DOMAIN live'))
  <2>1. DOMAIN live' = U \cup {b} /\ b \notin U
    BY <1>0, <1>4, <1>5
  <2>2. Units(h, U \cup {b}) = Units(h, U) \cup b..h[b].next-1
    <3>1. (U \cup {b}) \ {b} = U
      BY <2>1
    <3>. QED BY <3>1, UnitsSplit
  <2>3. Units(h, U) = Units(heap, U)
    BY <1>0, <1>5, UnitsSame
  <2>4. /\ Cardinality(Units(heap, U)) \in Nat
        /\ Cardinality(Units(heap, U) \cup b..h[b].next-1) = Cardinality(Units(heap, U)) + (h[b].next - b)
    <3>. DEFINE e == h[b].next
    <3>1. /\ Tiles(heap) /\ U \in SUBSET (DOMAIN heap \ {heap_end})
          /\ b \in DOMAIN heap \ {heap_end} /\ b \notin U
          /\ e \in Int /\ b < e /\ e <= heap[b].next
      BY <1>0, <1>3, <1>5, <1>6, <2>1
    <3>. HIDE DEF e
    <3>2. /\ Cardinality(Units(heap, U)) \in Nat
          /\ Cardinality(Units(heap, U) \cup b..e-1) = Cardinality(Units(heap, U)) + (e - b)
      BY <3>1, UnitsAdded
    <3>. QED BY <3>2 DEF e
  <2>. QED BY <1>0, <1>4, <2>1, <2>2, <2>3, <2>4
<1>9. /\ Tiles(heap)' /\ NoHoles(heap)' /\ Lowest(heap, lfree)' /\ InUse(heap)' = DOMAIN live'
  <2>1. Tiles(heap') /\ NoHoles(heap') /\ Lowest(heap', lfree') /\ InUse(heap') = DOMAIN live'
    BY <1>0, <1>4, <1>5
  <2>. QED BY <2>1 DEF Tiles, NoHoles, Lowest, InUse, Free
<1>10. RefusedOnlyIfFull'
  BY DEF RefusedOnlyIfFull
<1>11. moving' \subseteq DOMAIN live'
  BY <1>4 DEF U
<1>12. (used_mem = Cardinality(Units(heap, DOMAIN live)))'
  BY <1>8 DEF Units
<1>13. (\A x \in DOMAIN live : live[x] <= Room(heap, x))'
  BY <1>7 DEF Room
<1>. QED BY <1>9, <1>10, <1>11, <1>12, <1>13 DEF HeapInv

\* rt_free gives back exactly the block: its units leave used_mem, its neighbours
\* are joined to it and lfree moves down to it where it is the lowest.
LEMMA ReleaseStep ==
    ASSUME HeapInv, NEW b \in DOMAIN live, Release(b), moving' \subseteq DOMAIN live \ {b}
    PROVE  HeapInv'
<1>. DEFINE U == DOMAIN live
            V == U \ {b}
            g == [heap EXCEPT ![b].used = FALSE]
            low == IF b < lfree THEN b ELSE lfree
            r == plug_holes(g, low, b)
            e == heap[b].next
<1>0. /\ Tiles(heap) /\ NoHoles(heap) /\ Lowest(heap, lfree)
      /\ InUse(heap) = U /\ U \subseteq DOMAIN heap \ {heap_end}
      /\ \A x \in U : heap[x].used /\ live[x] <= Room(heap, x)
      /\ used_mem = Cardinality(Units(heap, U))
      /\ lfree \in 0..heap_end /\ \A x \in Free(heap) : lfree <= x
  BY HeapParts
<1>1. /\ b \in DOMAIN heap \ {heap_end} /\ heap[b].used
      /\ b \in 0..heap_end /\ e \in 0..heap_end /\ b < e
  BY <1>0, Neighbours
<1>2. /\ heap' = r.heap /\ lfree' = r.lfree /\ used_mem' = used_mem - (e - b)
      /\ live' = [x \in V |-> live[x]] /\ refused' = 0
  BY DEF Release, Freed, Restrict
<1>3. /\ Tiles(g) /\ DOMAIN g = DOMAIN heap
      /\ g[b].used = FALSE /\ g[b].next = e
      /\ \A x \in DOMAIN heap \ {b} : g[x] = heap[x]
  BY <1>0, <1>1, MarkTiles
<1>. HIDE DEF U, V, g, low, r, e
<1>4. Free(g) = Free(heap) \cup {b} /\ InUse(g) = V /\ b \notin Free(heap)
  <2>1. Free(g) = Free(heap) \cup {b} /\ b \notin Free(heap)
    BY <1>1, <1>3 DEF Free
  <2>2. InUse(g) = InUse(heap) \ {b}
    BY <1>1, <1>3 DEF InUse
  <2>. QED BY <1>0, <2>1, <2>2 DEF V
<1>5. Lowest(g, low)
  <2>1. \A x \in Free(heap) : x \in 0..heap_end
    BY <1>0, Neighbours DEF Free
  <2>2. lfree \in Free(heap) \cup {heap_end}
    BY <1>0 DEF Lowest
  <2>3. CASE b < lfree
    <3>1. low = b
      BY <2>3 DEF low
    <3>2. \A x \in Free(heap) : b <= x
      BY <1>0, <1>1, <2>1, <2>3
    <3>. QED BY <1>1, <1>4, <3>1, <3>2 DEF Lowest
  <2>4. CASE ~(b < lfree)
    <3>1. low = lfree
      BY <2>4 DEF low
    <3>2. lfree <= b
      BY <1>0, <1>1, <2>4
    <3>. QED BY <1>0, <1>4, <2>2, <3>1, <3>2 DEF Lowest
  <2>. QED BY <2>3, <2>4
<1>6. HolesAround(g, b)
  <2>1. ASSUME NEW x \in Free(g) \ {b}, g[x].next # b PROVE g[g[x].next].used
    <3>1. x \in Free(heap) /\ x \in DOMAIN heap \ {heap_end} /\ x # b
      BY <1>4, <2>1 DEF Free
    <3>2. g[x].next = heap[x].next /\ heap[x].next \in DOMAIN heap
      BY <1>0, <1>3, <3>1, Neighbours
    <3>3. heap[heap[x].next].used
      BY <1>0, <3>1 DEF NoHoles
    <3>. QED BY <1>3, <2>1, <3>2, <3>3
  <2>. QED BY <2>1 DEF HolesAround
<1>7. /\ Tiles(r.heap) /\ NoHoles(r.heap) /\ Lowest(r.heap, r.lfree)
      /\ InUse(r.heap) = InUse(g)
      /\ \A x \in InUse(g) : r.heap[x].next = g[x].next
  <2>1. Tiles(g) /\ b \in Free(g) /\ Lowest(g, low) /\ HolesAround(g, b)
    BY <1>3, <1>4, <1>5, <1>6
  <2>. QED BY <2>1, PlugEffect DEF r
<1>8. V \subseteq DOMAIN heap \ {heap_end} /\ b \notin V /\ U = V \cup {b} /\ DOMAIN live' = V
  BY <1>0, <1>2 DEF U, V
<1>9. \A x \in V : heap'[x].next = heap[x].next
  BY <1>2, <1>3, <1>4, <1>7, <1>8
<1>10. used_mem' = Cardinality(Units(heap', DOMAIN live'))
  <2>1. Units(heap, U) = Units(heap, V) \cup b..e-1
    BY <1>8, UnitsSplit DEF V, e, U
  <2>2. /\ Tiles(heap) /\ V \in SUBSET (DOMAIN heap \ {heap_end})
        /\ b \in DOMAIN heap \ {heap_end} /\ b \notin V
        /\ e \in Int /\ b < e /\ e <= heap[b].next
    BY <1>0, <1>1, <1>8 DEF e
  <2>3. /\ Cardinality(Units(heap, V)) \in Nat
        /\ Cardinality(Units(heap, V) \cup b..e-1) = Cardinality(Units(heap, V)) + (e - b)
    BY <2>2, UnitsAdded
  <2>4. Units(heap', V) = Units(heap, V)
    BY <1>9, UnitsSame
  <2>5. used_mem' = Cardinality(Units(heap, V))
    BY <1>0, <1>1, <1>2, <2>1, <2>3
  <2>. QED BY <1>8, <2>4, <2>5
<1>11. (\A x \in DOMAIN live : live[x] <= Room(heap, x))'
  <2>1. \A x \in V : live'[x] <= heap'[x].next - (x + SIZEOF_STRUCT_MEM)
    BY <1>0, <1>2, <1>8, <1>9 DEF Room
  <2>. QED BY <1>8, <2>1 DEF Room
<1>12. /\ Tiles(heap)' /\ NoHoles(heap)' /\ Lowest(heap, lfree)' /\ InUse(heap)' = DOMAIN live'
  <2>1. Tiles(heap') /\ NoHoles(heap') /\ Lowest(heap', lfree') /\ InUse(heap') = DOMAIN live'
    BY <1>2, <1>4, <1>7, <1>8
  <2>. QED BY <2>1 DEF Tiles, NoHoles, Lowest, InUse, Free
<1>13. (used_mem = Cardinality(Units(heap, DOMAIN live)))'
  BY <1>10 DEF Units
<1>14. RefusedOnlyIfFull' /\ moving' \subseteq DOMAIN live'
  BY <1>2, <1>8 DEF RefusedOnlyIfFull, U, V
<1>. QED BY <1>11, <1>12, <1>13, <1>14 DEF HeapInv

\* rt_realloc that cuts a block short keeps its front and frees its tail.
LEMMA ShrinkStep ==
    ASSUME HeapInv, NEW b, NEW newsize \in Nat \ {0}, ReallocShrink(b, newsize)
    PROVE  HeapInv'
<1>. DEFINE U == DOMAIN live
            V == U \ {b}
            n == b + SIZEOF_STRUCT_MEM + newsize
            g == Split(heap, b, n)
            low == IF n < lfree THEN n ELSE lfree
            r == plug_holes(g, low, n)
            e == heap[b].next
<1>0. /\ Tiles(heap) /\ NoHoles(heap) /\ Lowest(heap, lfree)
      /\ InUse(heap) = U /\ U \subseteq DOMAIN heap \ {heap_end}
      /\ \A x \in U : heap[x].used /\ live[x] <= Room(heap, x)
      /\ used_mem = Cardinality(Units(heap, U))
      /\ lfree \in 0..heap_end /\ (\A x \in Free(heap) : lfree <= x)
      /\ moving \subseteq U
  BY HeapParts
<1>1. /\ b \in U /\ newsize + SIZEOF_STRUCT_MEM + MIN_SIZE < e - (b + SIZEOF_STRUCT_MEM)
      /\ heap' = r.heap /\ lfree' = r.lfree
      /\ used_mem' = used_mem - ((e - (b + SIZEOF_STRUCT_MEM)) - newsize)
      /\ live' = [live EXCEPT ![b] = newsize] /\ refused' = 0 /\ moving' = moving
  BY DEF ReallocShrink, Room
<1>2. /\ b \in DOMAIN heap \ {heap_end} /\ heap[b].used
      /\ b \in 0..heap_end /\ e \in 0..heap_end /\ b < e
  BY <1>0, <1>1, Neighbours
<1>3. /\ n \in Int /\ b + SIZEOF_STRUCT_MEM < n /\ n + SIZEOF_STRUCT_MEM < e
      /\ b < n /\ n < e /\ n \in 0..heap_end /\ n # heap_end
  BY <1>1, <1>2, HeapNumbers
<1>. HIDE DEF U, V, n, g, low, r
<1>4. /\ Tiles(g) /\ DOMAIN g = DOMAIN heap \cup {n} /\ n \notin DOMAIN heap
      /\ g[b].next = n /\ g[n].next = e /\ ~g[n].used
      /\ \A x \in DOMAIN heap : g[x].used = heap[x].used
      /\ \A x \in DOMAIN heap \ {b} : g[x].next = heap[x].next
  <2>1. /\ Tiles(heap) /\ b \in DOMAIN heap \ {heap_end} /\ n \in Int
        /\ b + SIZEOF_STRUCT_MEM < n /\ n + SIZEOF_STRUCT_MEM < heap[b].next
    BY <1>0, <1>2, <1>3
  <2>2. /\ Tiles(g) /\ DOMAIN g = DOMAIN heap \cup {n} /\ n \notin DOMAIN heap
        /\ g[b].next = n /\ g[n].next = heap[b].next /\ ~g[n].used
        /\ \A x \in DOMAIN heap : g[x].used = heap[x].used
        /\ \A x \in DOMAIN heap \ {b} : g[x].next = heap[x].next
    <3>. HIDE DEF e
    <3>1. g = Split(heap, b, n)
      BY DEF g
    <3>2. CanCut(heap, b, n)
      BY <2>1 DEF CanCut
    <3>3. IsCut(heap, b, n, g)
      BY <3>1, <3>2, SplitTiles
    <3>. QED BY <3>3 DEF IsCut
  <2>. QED BY <2>2
<1>. HIDE DEF e
<1>5. Free(g) = Free(heap) \cup {n} /\ InUse(g) = U /\ b \notin Free(heap)
  <2>1. Free(g) = Free(heap) \cup {n} /\ b \notin Free(heap)
    BY <1>2, <1>3, <1>4 DEF Free
  <2>2. InUse(g) = InUse(heap)
    BY <1>3, <1>4 DEF InUse
  <2>. QED BY <1>0, <2>1, <2>2
<1>6. Lowest(g, low)
  <2>1. \A x \in Free(heap) : x \in 0..heap_end
    BY <1>0, Neighbours DEF Free
  <2>2. lfree \in Free(heap) \cup {heap_end}
    BY <1>0 DEF Lowest
  <2>3. CASE n < lfree
    <3>1. low = n
      BY <2>3 DEF low
    <3>2. \A x \in Free(heap) : n <= x
      BY <1>0, <1>3, <2>1, <2>3
    <3>. QED BY <1>3, <1>5, <3>1, <3>2 DEF Lowest
  <2>4. CASE ~(n < lfree)
    <3>1. low = lfree
      BY <2>4 DEF low
    <3>2. lfree <= n
      BY <1>0, <1>3, <2>4
    <3>. QED BY <1>0, <1>5, <2>2, <3>1, <3>2 DEF Lowest
  <2>. QED BY <2>3, <2>4
<1>7. HolesAround(g, n)
  <2>1. ASSUME NEW x \in Free(g) \ {n}, g[x].next # n PROVE g[g[x].next].used
    <3>1. x \in Free(heap) /\ x \in DOMAIN heap \ {heap_end} /\ x # b
      BY <1>5, <2>1 DEF Free
    <3>2. g[x].next = heap[x].next /\ heap[x].next \in DOMAIN heap
      BY <1>0, <1>4, <3>1, Neighbours
    <3>3. heap[heap[x].next].used
      BY <1>0, <3>1 DEF NoHoles
    <3>. QED BY <1>4, <3>2, <3>3
  <2>. QED BY <2>1 DEF HolesAround
<1>8. /\ Tiles(r.heap) /\ NoHoles(r.heap) /\ Lowest(r.heap, r.lfree)
      /\ InUse(r.heap) = InUse(g)
      /\ \A x \in InUse(g) : r.heap[x].next = g[x].next
  <2>1. Tiles(g) /\ n \in Free(g) /\ Lowest(g, low) /\ HolesAround(g, n)
    BY <1>4, <1>5, <1>6, <1>7
  <2>. QED BY <2>1, PlugEffect DEF r
<1>9. V \subseteq DOMAIN heap \ {heap_end} /\ b \notin V /\ V \subseteq U /\ DOMAIN live' = U
  BY <1>0, <1>1 DEF U, V
<1>10. heap'[b].next = n /\ \A x \in V : heap'[x].next = heap[x].next
  BY <1>1, <1>4, <1>5, <1>8, <1>9
<1>11. used_mem' = Cardinality(Units(heap', DOMAIN live'))
  <2>1. Units(heap, U) = Units(heap, V) \cup b..e-1
    BY <1>1, UnitsSplit DEF V, e
  <2>2. Units(heap', U) = Units(heap', V) \cup b..n-1
    BY <1>1, <1>10, UnitsSplit DEF V
  <2>3. /\ Tiles(heap) /\ V \in SUBSET (DOMAIN heap \ {heap_end})
        /\ b \in DOMAIN heap \ {heap_end} /\ b \notin V
        /\ e \in Int /\ b < e /\ e <= heap[b].next
    BY <1>0, <1>2, <1>9 DEF e
  <2>4. /\ Cardinality(Units(heap, V)) \in Nat
        /\ Cardinality(Units(heap, V) \cup b..e-1) = Cardinality(Units(heap, V)) + (e - b)
    BY <2>3, UnitsAdded
  <2>5. Cardinality(Units(heap, V) \cup b..n-1) = Cardinality(Units(heap, V)) + (n - b)
    <3>1. n \in Int /\ b < n /\ n <= heap[b].next
      BY <1>2, <1>3 DEF e
    <3>. QED BY <2>3, <3>1, UnitsAdded
  <2>6. Units(heap', V) = Units(heap, V)
    BY <1>10, UnitsSame
  <2>7. used_mem' = used_mem - (e - n)
    <3>1. (e - (b + SIZEOF_STRUCT_MEM)) - newsize = e - n
      BY <1>2, HeapNumbers DEF n
    <3>. QED BY <1>1, <3>1
  <2>8. used_mem' = Cardinality(Units(heap, V)) + (n - b)
    <3>. DEFINE c == Cardinality(Units(heap, V))
    <3>1. used_mem = c + (e - b) /\ c \in Nat
      BY <1>0, <2>1, <2>4
    <3>. HIDE DEF c
    <3>2. used_mem' = c + (n - b)
      BY <1>2, <1>3, <2>7, <3>1
    <3>. QED BY <3>2 DEF c
  <2>. QED BY <1>9, <2>2, <2>5, <2>6, <2>8
<1>12. (\A x \in DOMAIN live : live[x] <= Room(heap, x))'
  <2>1. \A x \in V : live'[x] <= heap'[x].next - (x + SIZEOF_STRUCT_MEM)
    BY <1>0, <1>1, <1>9, <1>10 DEF Room, U
  <2>2. live'[b] <= heap'[b].next - (b + SIZEOF_STRUCT_MEM)
    <3>1. live'[b] = newsize
      BY <1>1 DEF U
    <3>2. n - (b + SIZEOF_STRUCT_MEM) = newsize
      BY <1>2, HeapNumbers DEF n
    <3>. QED BY <1>10, <3>1, <3>2
  <2>3. \A x \in U : x = b \/ x \in V
    BY DEF V
  <2>. QED BY <1>9, <2>1, <2>2, <2>3 DEF Room
<1>13. /\ Tiles(heap)' /\ NoHoles(heap)' /\ Lowest(heap, lfree)' /\ InUse(heap)' = DOMAIN live'
  <2>1. Tiles(heap') /\ NoHoles(heap') /\ Lowest(heap', lfree') /\ InUse(heap') = DOMAIN live'
    BY <1>1, <1>5, <1>8, <1>9
  <2>. QED BY <2>1 DEF Tiles, NoHoles, Lowest, InUse, Free
<1>14. (used_mem = Cardinality(Units(heap, DOMAIN live)))'
  BY <1>11 DEF Units
<1>15. RefusedOnlyIfFull' /\ moving' \subseteq DOMAIN live'
  BY <1>0, <1>1, <1>9 DEF RefusedOnlyIfFull
<1>. QED BY <1>12, <1>13, <1>14, <1>15 DEF HeapInv

\* rt_realloc to the size the block has changes nothing but what is asked for.
LEMMA SameStep ==
    ASSUME HeapInv, NEW b, NEW newsize, ReallocSame(b, newsize)
    PROVE  HeapInv'
<1>1. /\ b \in DOMAIN live /\ newsize = Room(heap, b)
      /\ live' = [live EXCEPT ![b] = newsize] /\ refused' = 0
      /\ heap' = heap /\ lfree' = lfree /\ used_mem' = used_mem /\ moving' = moving
  BY DEF ReallocSame
<1>2. Room(heap, b) <= Room(heap, b)
  <2>1. b \in DOMAIN heap \ {heap_end}
    BY <1>1, HeapParts
  <2>2. b \in Int /\ heap[b].next \in Int
    BY <2>1, HeapParts, Neighbours
  <2>. QED BY <2>2, HeapNumbers DEF Room
<1>3. DOMAIN live' = DOMAIN live /\ \A x \in DOMAIN live : live'[x] <= Room(heap, x)
  BY <1>1, <1>2 DEF HeapInv
<1>4. (\A x \in DOMAIN live : live[x] <= Room(heap, x))'
  BY <1>1, <1>3 DEF Room
<1>5. (used_mem = Cardinality(Units(heap, DOMAIN live)))'
  BY <1>1, <1>3 DEF HeapInv, Units
<1>6. /\ Tiles(heap)' /\ NoHoles(heap)' /\ Lowest(heap, lfree)' /\ InUse(heap)' = DOMAIN live'
      /\ moving' \subseteq DOMAIN live'
  BY <1>1, <1>3 DEF HeapInv, Tiles, NoHoles, Lowest, InUse, Free
<1>7. RefusedOnlyIfFull'
  BY <1>1 DEF RefusedOnlyIfFull
<1>. QED BY <1>4, <1>5, <1>6, <1>7 DEF HeapInv

\* A refused request: there was no block for it.
LEMMA RefusedStep ==
    ASSUME HeapInv, NEW asked \in Nat \ {0},
           asked > mem_size_aligned \/ Fitting(AtLeastMin(asked)) = {},
           UNCHANGED <<heap, lfree, used_mem, live, moving>>, refused' = asked
    PROVE  HeapInv'
<1>. DEFINE size == AtLeastMin(asked)
<1>1. size \in Nat /\ asked <= size
  BY HeapNumbers DEF AtLeastMin
<1>2. ASSUME NEW b \in FreeBlocks
      PROVE  Room(heap, b) < size \/ b >= mem_size_aligned - size
  <2>1. b \in Free(heap) /\ b \in DOMAIN heap \ {heap_end}
    BY DEF FreeBlocks, Blocks, Free
  <2>2. /\ lfree <= b /\ b \in 0..heap_end /\ heap[b].next \in 0..heap_end
    BY <2>1, HeapParts, Neighbours
  <2>3. CASE asked > mem_size_aligned
    <3>1. Room(heap, b) <= mem_size_aligned
      BY <2>2, HeapNumbers DEF Room
    <3>2. Room(heap, b) \in Int
      BY <2>2, HeapNumbers DEF Room
    <3>. QED BY <1>1, <2>3, <3>1, <3>2, HeapNumbers
  <2>4. CASE Fitting(size) = {}
    <3>1. ~(b >= lfree /\ b < mem_size_aligned - size /\ Room(heap, b) >= size)
      BY <2>4 DEF Fitting
    <3>2. Room(heap, b) \in Int
      BY <2>2, HeapNumbers DEF Room
    <3>3. lfree \in Int
      BY HeapParts
    <3>. QED BY <1>1, <2>2, <3>1, <3>2, <3>3, HeapNumbers
  <2>. QED BY <2>3, <2>4
<1>3. RefusedOnlyIfFull'
  BY <1>2 DEF RefusedOnlyIfFull, FreeBlocks, Blocks, Room
<1>4. (\A x \in DOMAIN live : live[x] <= Room(heap, x))'
  BY DEF HeapInv, Room
<1>5. (used_mem = Cardinality(Units(heap, DOMAIN live)))'
  BY DEF HeapInv, Units
<1>6. /\ Tiles(heap)' /\ NoHoles(heap)' /\ Lowest(heap, lfree)' /\ InUse(heap)' = DOMAIN live'
      /\ moving' \subseteq DOMAIN live'
  BY DEF HeapInv, Tiles, NoHoles, Lowest, InUse, Free
<1>. QED BY <1>3, <1>4, <1>5, <1>6 DEF HeapInv

\* Every operation keeps the invariant.
LEMMA HeapStep == HeapInv /\ [HeapNext]_heapvars => HeapInv'
<1>. SUFFICES ASSUME HeapInv, [HeapNext]_heapvars PROVE HeapInv'
  OBVIOUS
<1>0. Sizes \subseteq Nat \ {0}
  BY MemAssumption
<1>1. ASSUME NEW size \in Sizes, rt_malloc(size) PROVE HeapInv'
  <2>0. size \in Nat \ {0} /\ moving' = moving /\ moving \subseteq DOMAIN live
    BY <1>0, <1>1, HeapParts DEF rt_malloc
  <2>1. CASE size <= mem_size_aligned /\ Fitting(AtLeastMin(size)) # {}
    <3>1. Allocate(Min(Fitting(AtLeastMin(size))), AtLeastMin(size), size) /\ refused' = 0
      BY <1>1, <2>1 DEF rt_malloc
    <3>. QED BY <2>0, <2>1, <3>1, AllocateStep
  <2>2. CASE ~(size <= mem_size_aligned /\ Fitting(AtLeastMin(size)) # {})
    <3>1. UNCHANGED <<heap, lfree, used_mem, live, moving>> /\ refused' = size
      BY <1>1, <2>2 DEF rt_malloc
    <3>2. size > mem_size_aligned \/ Fitting(AtLeastMin(size)) = {}
      BY <2>0, <2>2, HeapNumbers
    <3>. QED BY <2>0, <3>1, <3>2, RefusedStep
  <2>. QED BY <2>1, <2>2
<1>2. ASSUME NEW b \in Blocks, rt_free(b) PROVE HeapInv'
  <2>1. b \in DOMAIN live /\ Release(b) /\ moving' \subseteq DOMAIN live \ {b}
    BY <1>2, HeapParts DEF rt_free
  <2>. QED BY <2>1, ReleaseStep
<1>3. ASSUME NEW b \in Blocks, ReallocFree(b) PROVE HeapInv'
  <2>1. b \in DOMAIN live /\ Release(b) /\ moving' \subseteq DOMAIN live \ {b}
    BY <1>3, HeapParts DEF ReallocFree
  <2>. QED BY <2>1, ReleaseStep
<1>4. ASSUME NEW b \in Blocks, NEW size \in Sizes, ReallocShrink(b, size) PROVE HeapInv'
  BY <1>0, <1>4, ShrinkStep
<1>5. ASSUME NEW b \in Blocks, NEW size \in Sizes, ReallocSame(b, size) PROVE HeapInv'
  BY <1>5, SameStep
<1>6. ASSUME NEW b \in Blocks, NEW size \in Sizes, ReallocMove(b, size) PROVE HeapInv'
  <2>0. size \in Nat \ {0} /\ b \in DOMAIN live /\ moving \subseteq DOMAIN live
    BY <1>0, <1>6, HeapParts DEF ReallocMove
  <2>1. CASE Fitting(AtLeastMin(size)) # {}
    <3>1. /\ Allocate(Min(Fitting(AtLeastMin(size))), AtLeastMin(size), size)
          /\ refused' = 0 /\ moving' = moving \cup {b}
      BY <1>6, <2>1 DEF ReallocMove
    <3>2. moving' \subseteq DOMAIN live
      BY <2>0, <3>1
    <3>. QED BY <2>0, <2>1, <3>1, <3>2, AllocateStep
  <2>2. CASE Fitting(AtLeastMin(size)) = {}
    <3>1. UNCHANGED <<heap, lfree, used_mem, live, moving>> /\ refused' = size
      BY <1>6, <2>2 DEF ReallocMove
    <3>. QED BY <2>0, <2>2, <3>1, RefusedStep
  <2>. QED BY <2>1, <2>2
<1>7. ASSUME UNCHANGED heapvars PROVE HeapInv'
  BY <1>7 DEF heapvars, HeapInv, Tiles, NoHoles, Lowest, InUse, Free, Room, Units,
              RefusedOnlyIfFull, FreeBlocks, Blocks
<1>. QED BY <1>1, <1>2, <1>3, <1>4, <1>5, <1>6, <1>7 DEF HeapNext

-----------------------------------------------------------------------------
(* What the invariant says.                                                *)

\* A set of blocks never has more units than the heap.
LEMMA UnitsBound ==
    ASSUME NEW h, Tiles(h), NEW U \in SUBSET (DOMAIN h \ {heap_end})
    PROVE  Cardinality(Units(h, U)) \in 0..heap_end
<1>1. Units(h, U) \subseteq 0..heap_end-1
  <2>1. ASSUME NEW c \in U PROVE c..h[c].next-1 \subseteq 0..heap_end-1
    <3>1. c \in 0..heap_end /\ h[c].next \in 0..heap_end
      BY Neighbours
    <3>. QED BY <3>1, HeapNumbers
  <2>. QED BY <2>1 DEF Units
<1>2. IsFiniteSet(0..heap_end-1) /\ Cardinality(0..heap_end-1) = heap_end
  BY FS_Interval, HeapNumbers
<1>3. /\ IsFiniteSet(Units(h, U)) /\ Cardinality(Units(h, U)) \in Nat
      /\ Cardinality(Units(h, U)) <= heap_end
  BY <1>1, <1>2, FS_Subset, FS_CardinalityType
<1>. QED BY <1>3, HeapNumbers

\* The least and the greatest element of a set of offsets.
LEMMA MinIs ==
    ASSUME NEW S \in SUBSET Nat, NEW m \in S, \A x \in S : m <= x
    PROVE  Min(S) = m
<1>1. Min(S) \in S /\ \A x \in S : Min(S) <= x
  BY LeastOffset
<1>. DEFINE c == Min(S)
<1>. HIDE DEF c
<1>2. c \in Nat /\ m \in Nat /\ c <= m /\ m <= c
  BY <1>1 DEF c
<1>3. c = m
  BY <1>2
<1>. QED BY <1>3 DEF c

LEMMA MaxIs ==
    ASSUME NEW S \in SUBSET Nat, NEW m \in S, \A x \in S : x <= m
    PROVE  Max(S) = m
<1>1. \A x \in S : m >= x
  OBVIOUS
<1>2. Max(S) \in S /\ \A x \in S : Max(S) >= x
  BY <1>1 DEF Max
<1>. DEFINE c == Max(S)
<1>. HIDE DEF c
<1>3. c \in Nat /\ m \in Nat /\ m <= c /\ c <= m
  BY <1>2 DEF c
<1>4. c = m
  BY <1>3
<1>. QED BY <1>4 DEF c

LEMMA HeapFacts == HeapInv => HeapSound
<1>. SUFFICES ASSUME HeapInv PROVE HeapSound
  OBVIOUS
<1>0. /\ Tiles(heap) /\ NoHoles(heap) /\ Lowest(heap, lfree)
      /\ InUse(heap) = DOMAIN live /\ DOMAIN live \subseteq DOMAIN heap \ {heap_end}
      /\ \A b \in DOMAIN live : heap[b].used /\ live[b] <= Room(heap, b)
      /\ used_mem = Cardinality(Units(heap, DOMAIN live))
      /\ moving \subseteq DOMAIN live
      /\ lfree \in 0..heap_end /\ \A x \in Free(heap) : lfree <= x
  BY HeapParts
<1>1. \A x \in DOMAIN heap : x \in Nat /\ x \in 0..heap_end
  BY <1>0, Neighbours
<1>2. HeapTypeOK
  <2>1. lfree \in DOMAIN heap
    BY <1>0 DEF Lowest, Free, Tiles
  <2>2. used_mem \in 0..heap_end
    BY <1>0, UnitsBound
  <2>3. DOMAIN heap \subseteq Offsets /\ heap \in [DOMAIN heap -> Header]
    BY <1>0 DEF Tiles
  <2>. QED BY <1>0, <2>1, <2>2, <2>3 DEF HeapTypeOK, Blocks
<1>3. Tiled
  <2>1. 0 \in Blocks
    BY <1>0, HeapNumbers DEF Tiles, Blocks
  <2>2. ASSUME NEW b \in Blocks
        PROVE  /\ heap[b].next = Min({x \in DOMAIN heap : x > b})
               /\ Room(heap, b) > 0
               /\ heap[b].prev = Max({x \in Blocks : x < b} \cup {0})
    <3>. DEFINE n == heap[b].next
                p == heap[b].prev
                N == {x \in DOMAIN heap : x > b}
                P == {x \in Blocks : x < b} \cup {0}
    <3>1. /\ b \in DOMAIN heap \ {heap_end} /\ b \in 0..heap_end /\ n \in 0..heap_end
          /\ b + SIZEOF_STRUCT_MEM < n /\ b < n /\ n \in DOMAIN heap
      BY <1>0, Neighbours DEF Blocks
    <3>2. \A x \in DOMAIN heap : x <= b \/ n <= x
      BY <1>0, <3>1 DEF Tiles
    <3>3. n = Min(N)
      <4>1. N \in SUBSET Nat /\ n \in N
        BY <1>1, <3>1
      <4>2. \A x \in N : n <= x
        BY <1>1, <3>1, <3>2
      <4>. HIDE DEF n, N
      <4>. QED BY <4>1, <4>2, MinIs
    <3>4. Room(heap, b) > 0
      BY <3>1, HeapNumbers DEF Room
    <3>5. P \in SUBSET Nat
      BY <1>1 DEF Blocks
    <3>6. p \in P /\ \A x \in P : x <= p
      <4>1. CASE b = 0
        <5>1. P = {0}
          BY <1>1, <4>1 DEF Blocks
        <5>2. p = 0
          BY <1>0, <4>1 DEF Tiles
        <5>. QED BY <5>1, <5>2
      <4>2. CASE b # 0
        <5>1. /\ p \in DOMAIN heap /\ p \in 0..heap_end /\ p < b /\ p # heap_end
          BY <1>0, <3>1, <4>2, Neighbours
        <5>2. \A x \in DOMAIN heap : x <= p \/ b <= x
          BY <1>0, <3>1, <4>2 DEF Tiles
        <5>3. \A x \in P : x <= p
          BY <1>1, <3>1, <5>1, <5>2 DEF Blocks
        <5>. QED BY <5>1, <5>3 DEF Blocks
      <4>. QED BY <4>1, <4>2
    <3>7. p = Max(P)
      <4>. HIDE DEF p, P
      <4>. QED BY <3>5, <3>6, MaxIs
    <3>. QED BY <3>3, <3>4, <3>7
  <2>. QED BY <2>1, <2>2 DEF Tiled
<1>4. FreeBlocks = Free(heap)
  BY DEF FreeBlocks, Blocks, Free
<1>5. Coalesced
  <2>1. \A b \in FreeBlocks : heap[heap[b].next].used
    BY <1>0, <1>4 DEF NoHoles
  <2>2. ASSUME DOMAIN live = {} PROVE Blocks = {0}
    <3>. DEFINE n == heap[0].next
    <3>1. 0 \in DOMAIN heap \ {heap_end}
      BY <1>0, HeapNumbers DEF Tiles
    <3>2. ~heap[0].used
      BY <1>0, <2>2, <3>1 DEF InUse
    <3>3. heap[n].used /\ n \in DOMAIN heap
      BY <1>0, <3>1, <3>2, Neighbours DEF NoHoles, Free
    <3>4. n = heap_end
      BY <1>0, <2>2, <3>3 DEF InUse
    <3>5. \A x \in DOMAIN heap : x <= 0 \/ n <= x
      BY <1>0, <3>1 DEF Tiles
    <3>6. \A x \in DOMAIN heap : x = 0 \/ x = heap_end
      BY <1>1, <3>4, <3>5, HeapNumbers
    <3>. QED BY <3>1, <3>6 DEF Blocks
  <2>. QED BY <2>1, <2>2 DEF Coalesced
<1>6. LowestFree
  <2>. DEFINE S == Free(heap) \cup {heap_end}
  <2>1. S \in SUBSET Nat
    BY <1>1, HeapNumbers DEF Free
  <2>2. lfree \in S /\ \A x \in S : lfree <= x
    BY <1>0, HeapNumbers DEF Lowest
  <2>. HIDE DEF S
  <2>3. Min(S) = lfree
    BY <2>1, <2>2, MinIs
  <2>. QED BY <1>4, <2>3 DEF LowestFree, S
<1>7. HoldersKeep
  <2>1. {b \in Blocks : heap[b].used} = DOMAIN live
    BY <1>0 DEF InUse, Blocks
  <2>2. HeldUnits = Units(heap, DOMAIN live)
    BY DEF HeldUnits, Units
  <2>. QED BY <1>0, <2>1, <2>2 DEF HoldersKeep
<1>8. RefusedOnlyIfFull
  BY DEF HeapInv
<1>. QED BY <1>2, <1>3, <1>5, <1>6, <1>7, <1>8 DEF HeapSound

\* For every size of memory and every sequence of rt_malloc, rt_free and rt_realloc,
\* the calls of rt_realloc that are moving a block interleaved with the others
\* included: the headers tile the heap, no two free blocks are adjacent, lfree is
\* the lowest free block, used_mem counts exactly what is held, and a request is
\* refused only where the search could not have found a block for it.
THEOREM HeapCorrect == HeapSpec => []HeapSound
<1>1. HeapInit => HeapInv
  BY HeapStart
<1>2. HeapInv /\ [HeapNext]_heapvars => HeapInv'
  BY HeapStep
<1>3. HeapInv => HeapSound
  BY HeapFacts
<1>. QED BY <1>1, <1>2, <1>3, PTL DEF HeapSpec

-----------------------------------------------------------------------------
(* The console.                                                            *)

Places == {"out", "format", "flag", "set", "write", "putc"}
Writing == {"write", "putc"}

\* Where a printer is in its text and in the buffer.
PlaceOK(p) ==
    /\ call[p] \in DOMAIN Calls[p]
    /\ i[p] \in 0 .. Calls[p][call[p]]
    /\ at[p] \in {"flag", "set"} => i[p] = 0
    /\ at[p] = "write" => i[p] <= length(p)
    /\ at[p] = "putc" => i[p] < length(p)

ConsoleTypes ==
    /\ stream \in BOOLEAN /\ flag0 \in BOOLEAN /\ already_output \in BOOLEAN
    /\ at \in [Printer -> Places]
    /\ DOMAIN call = Printer /\ DOMAIN i = Printer /\ DOMAIN sent = Printer
    /\ old_flag \in [Printer -> BOOLEAN] /\ torn \in [Printer -> BOOLEAN]
    /\ DOMAIN rt_log_buf = 1 .. RT_CONSOLEBUF_SIZE
    /\ \A p \in Printer : PlaceOK(p)

\* Somebody less urgent than p, whom p came in between, is sending.
Below(p) == \E q \in Printer : at[q] \in Writing /\ Urgency[p] < Urgency[q]

\* The stream flag is set where it was at first or while somebody sends, and a
\* printer has saved what its interrupted ones need.
FlagInv ==
    /\ stream <=> (flag0 \/ \E q \in Printer : at[q] \in Writing)
    /\ \A p \in Printer : at[p] \in {"set", "write", "putc"} => (old_flag[p] <=> (flag0 \/ Below(p)))

-----------------------------------------------------------------------------
LEMMA ConsoleFacts ==
    /\ Isr \in Printer /\ Row \in Printer /\ Isr # Row
    /\ \A p \in Printer : Urgency[p] \in Nat
    /\ \A p, q \in Printer : p # q => Urgency[p] # Urgency[q]
    /\ \A p \in Printer : Urgency[Isr] <= Urgency[p] /\ (p # Isr => Urgency[Row] <= Urgency[p])
    /\ RT_CONSOLEBUF_SIZE \in Nat /\ RT_CONSOLEBUF_SIZE > 2
    /\ Len(Calls[Row]) = 1 /\ Calls[Row][1] < RT_CONSOLEBUF_SIZE - 1
  BY ConsoleAssumption

LEMMA CallsFacts ==
    ASSUME NEW p \in Printer
    PROVE  /\ Len(Calls[p]) \in Nat \ {0} /\ DOMAIN Calls[p] = 1 .. Len(Calls[p])
           /\ \A c \in DOMAIN Calls[p] : Calls[p][c] \in Nat \ {0}
  BY ConsoleAssumption

LEMMA ConsoleStartTypes == ConsoleInit => ConsoleTypes
<1>. SUFFICES ASSUME ConsoleInit PROVE ConsoleTypes
  OBVIOUS
<1>1. ASSUME NEW p \in Printer PROVE PlaceOK(p)
  <2>1. at[p] = "out" /\ i[p] = 0 /\ call[p] = 1
    BY DEF ConsoleInit
  <2>2. 1 \in DOMAIN Calls[p] /\ Calls[p][1] \in Nat
    BY CallsFacts
  <2>. QED BY <2>1, <2>2 DEF PlaceOK
<1>. QED BY <1>1 DEF ConsoleInit, ConsoleTypes, Places

\* A step of p leaves the places of the others alone.
LEMMA PlacesKept ==
    ASSUME ConsoleTypes, NEW p \in Printer, PlaceOK(p)',
           \A q \in Printer \ {p} : at'[q] = at[q] /\ call'[q] = call[q] /\ i'[q] = i[q]
    PROVE  \A q \in Printer : PlaceOK(q)'
<1>1. ASSUME NEW q \in Printer, q # p PROVE PlaceOK(q)'
  <2>1. PlaceOK(q)
    BY DEF ConsoleTypes
  <2>. QED BY <1>1, <2>1 DEF PlaceOK, length
<1>. QED BY <1>1

\* What a step of p may change.
Moved(p) ==
    /\ at' \in [Printer -> Places] /\ DOMAIN call' = Printer /\ DOMAIN i' = Printer
    /\ \A q \in Printer \ {p} : at'[q] = at[q] /\ call'[q] = call[q] /\ i'[q] = i[q]

LEMMA LengthFacts ==
    ASSUME ConsoleTypes, NEW p \in Printer
    PROVE  /\ Calls[p][call[p]] \in Nat \ {0} /\ length(p) \in Nat \ {0}
           /\ length(p) <= Calls[p][call[p]] /\ length(p) < RT_CONSOLEBUF_SIZE
           /\ i[p] \in Nat /\ i[p] <= Calls[p][call[p]]
<1>1. call[p] \in DOMAIN Calls[p] /\ i[p] \in 0 .. Calls[p][call[p]]
  BY DEF ConsoleTypes, PlaceOK
<1>2. Calls[p][call[p]] \in Nat \ {0}
  BY <1>1, CallsFacts
<1>. QED BY <1>1, <1>2, ConsoleFacts DEF length, Least

LEMMA TypesStep ==
    ASSUME ConsoleTypes, NEW p \in Printer, Begin(p) \/ Step(p)
    PROVE  ConsoleTypes'
<1>. DEFINE Rest == /\ stream' \in BOOLEAN /\ flag0' \in BOOLEAN /\ already_output' \in BOOLEAN
                    /\ DOMAIN sent' = Printer
                    /\ old_flag' \in [Printer -> BOOLEAN] /\ torn' \in [Printer -> BOOLEAN]
                    /\ DOMAIN rt_log_buf' = 1 .. RT_CONSOLEBUF_SIZE
<1>0. /\ stream \in BOOLEAN /\ flag0 \in BOOLEAN /\ already_output \in BOOLEAN
      /\ at \in [Printer -> Places]
      /\ DOMAIN call = Printer /\ DOMAIN i = Printer /\ DOMAIN sent = Printer
      /\ old_flag \in [Printer -> BOOLEAN] /\ torn \in [Printer -> BOOLEAN]
      /\ DOMAIN rt_log_buf = 1 .. RT_CONSOLEBUF_SIZE
      /\ PlaceOK(p)
  BY DEF ConsoleTypes
<1>1. SUFFICES Moved(p) /\ PlaceOK(p)' /\ Rest
  BY PlacesKept DEF ConsoleTypes, Moved
<1>2. /\ Calls[p][call[p]] \in Nat \ {0} /\ length(p) \in Nat \ {0}
      /\ length(p) <= Calls[p][call[p]] /\ i[p] \in Nat /\ i[p] <= Calls[p][call[p]]
  BY LengthFacts
<1>3. CASE Begin(p)
  <2>1. Rest
    BY <1>0, <1>3 DEF Begin
  <2>2. Moved(p)
    BY <1>0, <1>3 DEF Begin, Moved, Places
  <2>3. PlaceOK(p)'
    BY <1>0, <1>3 DEF Begin, PlaceOK
  <2>. QED BY <2>1, <2>2, <2>3
<1>4. CASE rt_vsnprintf(p)
  <2>1. Rest
    BY <1>0, <1>4 DEF rt_vsnprintf
  <2>2. Moved(p)
    BY <1>0, <1>4 DEF rt_vsnprintf, Moved, Places
  <2>3. PlaceOK(p)'
    <3>1. /\ call'[p] = call[p]
          /\ \/ i'[p] = i[p] + 1 /\ i[p] + 1 <= Calls[p][call[p]] /\ at'[p] = "format"
             \/ i'[p] = 0 /\ at'[p] = "flag"
      BY <1>0, <1>4 DEF rt_vsnprintf
    <3>. QED BY <1>0, <1>2, <3>1 DEF PlaceOK
  <2>. QED BY <2>1, <2>2, <2>3
<1>5. CASE SaveFlag(p)
  <2>1. Rest
    BY <1>0, <1>5 DEF SaveFlag
  <2>2. Moved(p)
    BY <1>0, <1>5 DEF SaveFlag, Moved, Places
  <2>3. PlaceOK(p)'
    BY <1>0, <1>5 DEF SaveFlag, PlaceOK
  <2>. QED BY <2>1, <2>2, <2>3
<1>6. CASE SetFlag(p)
  <2>1. Rest
    BY <1>0, <1>6 DEF SetFlag
  <2>2. Moved(p)
    BY <1>0, <1>6 DEF SetFlag, Moved, Places
  <2>3. PlaceOK(p)'
    BY <1>0, <1>2, <1>6 DEF SetFlag, PlaceOK, length
  <2>. QED BY <2>1, <2>2, <2>3
<1>7. CASE PutCR(p)
  <2>1. Rest
    BY <1>0, <1>7 DEF PutCR, Put
  <2>2. Moved(p)
    BY <1>0, <1>7 DEF PutCR, Moved, Places
  <2>3. PlaceOK(p)'
    BY <1>0, <1>2, <1>7 DEF PutCR, PlaceOK, length
  <2>. QED BY <2>1, <2>2, <2>3
<1>8. CASE PutChar(p)
  <2>1. Rest
    BY <1>0, <1>8 DEF PutChar, Put
  <2>2. Moved(p)
    BY <1>0, <1>8 DEF PutChar, Moved, Places
  <2>3. PlaceOK(p)'
    <3>1. i[p] < length(p)
      BY <1>0, <1>8 DEF PutChar, PlaceOK
    <3>2. i'[p] = i[p] + 1 /\ at'[p] = "write" /\ call' = call
      BY <1>0, <1>8 DEF PutChar
    <3>3. i'[p] \in 0 .. Calls[p][call[p]] /\ i'[p] <= length(p)
      BY <1>2, <3>1, <3>2
    <3>. QED BY <1>0, <3>2, <3>3 DEF PlaceOK, length
  <2>. QED BY <2>1, <2>2, <2>3
<1>9. CASE RestoreFlag(p)
  <2>1. Rest
    BY <1>0, <1>9 DEF RestoreFlag, FlagAfter
  <2>2. Moved(p)
    <3>1. /\ at' \in {[at EXCEPT ![p] = "format"], [at EXCEPT ![p] = "out"]}
          /\ call' \in {[call EXCEPT ![p] = @ + 1], [call EXCEPT ![p] = 1]}
          /\ i' = [i EXCEPT ![p] = 0]
      BY <1>9 DEF RestoreFlag
    <3>. QED BY <1>0, <3>1 DEF Moved, Places
  <2>3. PlaceOK(p)'
    <3>1. /\ i'[p] = 0 /\ at'[p] \in {"format", "out"}
          /\ \/ call'[p] = call[p] + 1 /\ call[p] < Len(Calls[p])
             \/ call'[p] = 1
      BY <1>0, <1>9 DEF RestoreFlag
    <3>2. call'[p] \in DOMAIN Calls[p]
      BY <1>0, <3>1, CallsFacts DEF PlaceOK
    <3>3. Calls[p][call'[p]] \in Nat
      BY <3>2, CallsFacts
    <3>. QED BY <3>1, <3>2, <3>3 DEF PlaceOK
  <2>. QED BY <2>1, <2>2, <2>3
<1>. QED BY <1>3, <1>4, <1>5, <1>6, <1>7, <1>8, <1>9 DEF Step

-----------------------------------------------------------------------------
(* The stream flag.                                                        *)

\* Whoever p came in between has saved a flag that p does not touch.
LEMMA FlagOthers ==
    ASSUME ConsoleTypes, FlagInv, NEW p \in Printer, MayRun(p), flag0' = flag0,
           \A q \in Printer \ {p} : at'[q] = at[q] /\ old_flag'[q] = old_flag[q]
    PROVE  /\ \A q \in Printer \ {p} :
                 at'[q] \in {"set", "write", "putc"} => (old_flag'[q] <=> (flag0' \/ Below(q)'))
           /\ Below(p)' <=> Below(p)
           /\ Below(p) <=> \E q \in Printer \ {p} : at[q] \in Writing
           /\ Below(p) <=> \E q \in Printer \ {p} : at'[q] \in Writing
<1>1. \A q \in Printer : Urgency[q] \in Nat
  BY ConsoleFacts
<1>2. \A q \in Printer \ {p} : at[q] # "out" => Urgency[p] < Urgency[q]
  BY DEF MayRun, Active
<1>3. ASSUME NEW q \in Printer \ {p}, at'[q] \in {"set", "write", "putc"}
      PROVE  old_flag'[q] <=> (flag0' \/ Below(q)')
  <2>1. at[q] \in {"set", "write", "putc"} /\ at[q] # "out" /\ ~(Urgency[q] < Urgency[p])
    BY <1>1, <1>2, <1>3
  <2>2. Below(q)' <=> Below(q)
    BY <2>1 DEF Below
  <2>3. old_flag[q] <=> (flag0 \/ Below(q))
    BY <2>1 DEF FlagInv
  <2>. QED BY <2>2, <2>3
<1>4. ~(Urgency[p] < Urgency[p])
  BY <1>1
<1>5. Below(p)' <=> Below(p)
  BY <1>4 DEF Below
<1>6. Below(p) <=> \E q \in Printer \ {p} : at[q] \in Writing
  BY <1>2, <1>4 DEF Below, Writing
<1>. QED BY <1>3, <1>5, <1>6

LEMMA FlagStep ==
    ASSUME ConsoleTypes, FlagInv, NEW p \in Printer, Begin(p) \/ Step(p)
    PROVE  FlagInv'
<1>0. at \in [Printer -> Places] /\ old_flag \in [Printer -> BOOLEAN] /\ stream \in BOOLEAN
  BY DEF ConsoleTypes
<1>1. /\ MayRun(p) /\ flag0' = flag0
      /\ \A q \in Printer \ {p} : at'[q] = at[q] /\ old_flag'[q] = old_flag[q]
  BY <1>0 DEF Begin, Step, rt_vsnprintf, SaveFlag, SetFlag, PutCR, PutChar, RestoreFlag
<1>2. /\ \A q \in Printer \ {p} :
            at'[q] \in {"set", "write", "putc"} => (old_flag'[q] <=> (flag0' \/ Below(q)'))
      /\ Below(p)' <=> Below(p)
      /\ Below(p) <=> \E q \in Printer \ {p} : at[q] \in Writing
      /\ Below(p) <=> \E q \in Printer \ {p} : at'[q] \in Writing
  BY <1>1, FlagOthers
<1>3. /\ stream <=> (flag0 \/ \E q \in Printer : at[q] \in Writing)
      /\ at[p] \in {"set", "write", "putc"} => (old_flag[p] <=> (flag0 \/ Below(p)))
  BY DEF FlagInv
<1>4. SUFFICES /\ stream' <=> (flag0 \/ Below(p) \/ at'[p] \in Writing)
               /\ at'[p] \in {"set", "write", "putc"} => (old_flag'[p] <=> (flag0 \/ Below(p)))
  <2>1. (\E q \in Printer : at'[q] \in Writing) <=> (Below(p) \/ at'[p] \in Writing)
    BY <1>2
  <2>2. \A q \in Printer : at'[q] \in {"set", "write", "putc"} => (old_flag'[q] <=> (flag0' \/ Below(q)'))
    BY <1>1, <1>2, <1>4
  <2>. QED BY <1>1, <1>4, <2>1, <2>2 DEF FlagInv
<1>5. stream <=> (flag0 \/ Below(p) \/ at[p] \in Writing)
  BY <1>2, <1>3
<1>6. CASE \/ Begin(p) \/ rt_vsnprintf(p) \/ PutCR(p) \/ PutChar(p)
  <2>1. /\ stream' = stream /\ old_flag' = old_flag
        /\ at'[p] \in Writing <=> at[p] \in Writing
        /\ at'[p] # "set"
    BY <1>0, <1>6 DEF Begin, rt_vsnprintf, PutCR, PutChar, Writing
  <2>. QED BY <1>3, <1>5, <2>1 DEF Writing
<1>7. CASE SaveFlag(p)
  <2>1. stream' = stream /\ old_flag'[p] = stream /\ at[p] = "flag" /\ at'[p] = "set"
    BY <1>0, <1>7 DEF SaveFlag
  <2>. QED BY <1>5, <2>1 DEF Writing
<1>8. CASE SetFlag(p)
  <2>1. stream' = TRUE /\ old_flag' = old_flag /\ at[p] = "set" /\ at'[p] = "write"
    BY <1>0, <1>8 DEF SetFlag
  <2>. QED BY <1>3, <2>1 DEF Writing
<1>9. CASE RestoreFlag(p)
  <2>1. stream' = old_flag[p] /\ at[p] = "write" /\ at'[p] \in {"out", "format"}
    BY <1>0, <1>9 DEF RestoreFlag, FlagAfter
  <2>. QED BY <1>3, <2>1 DEF Writing
<1>. QED BY <1>6, <1>7, <1>8, <1>9 DEF Step

-----------------------------------------------------------------------------
(* The rows.                                                               *)

RowEnd == Calls[Row][1]

\* The first m characters of a row on the line.
Shown(m) == [k \in 1 .. m |-> Expected[k]]
ShownSoFar == IF at[Row] = "putc" THEN RowEnd ELSE IF i[Row] < RowEnd THEN i[Row] ELSE RowEnd + 1

\* The row has been formatted up to character k.
Formatted(k) == \A x \in 1 .. k : rt_log_buf[x] = Chr(Row, 1, x)

\* The row that is being printed, if any, is whole so far.
RowClean ==
    /\ ~torn[Row]
    /\ at[Row] = "out" => i[Row] = 0
    /\ at[Row] \notin Writing => sent[Row] = << >>
    /\ at[Row] = "format" => Formatted(i[Row])
    /\ at[Row] \in {"flag", "set", "write", "putc"} => Formatted(RowEnd)
    /\ at[Row] = "putc" => i[Row] + 1 = RowEnd
    /\ at[Row] \in Writing => sent[Row] = Shown(ShownSoFar)

\* Only the warning of the interrupt can spoil a row, and only one.
RowInv ==
    /\ damaged \in 0 .. 1
    /\ ~already_output /\ at[Isr] = "out" => damaged = 0 /\ RowClean
    /\ damaged = 1 => already_output /\ at[Isr] = "out" /\ RowClean

LEMMA RowFacts ==
    /\ RowEnd \in Nat \ {0} /\ RowEnd < RT_CONSOLEBUF_SIZE - 1 /\ RT_CONSOLEBUF_SIZE \in Nat
    /\ DOMAIN Calls[Row] = {1} /\ Len(Calls[Row]) = 1
    /\ ConsoleTypes => call[Row] = 1 /\ length(Row) = RowEnd /\ i[Row] \in 0 .. RowEnd
<1>1. /\ Len(Calls[Row]) = 1 /\ DOMAIN Calls[Row] = 1 .. 1 /\ RowEnd < RT_CONSOLEBUF_SIZE - 1
      /\ RT_CONSOLEBUF_SIZE \in Nat
  BY ConsoleFacts, CallsFacts DEF RowEnd
<1>2. DOMAIN Calls[Row] = {1}
  BY <1>1
<1>3. RowEnd \in Nat \ {0}
  BY <1>2, ConsoleFacts, CallsFacts DEF RowEnd
<1>4. ASSUME ConsoleTypes PROVE call[Row] = 1 /\ length(Row) = RowEnd /\ i[Row] \in 0 .. RowEnd
  <2>1. PlaceOK(Row)
    BY <1>4, ConsoleFacts DEF ConsoleTypes
  <2>2. call[Row] = 1
    BY <1>2, <2>1 DEF PlaceOK
  <2>3. length(Row) = RowEnd
    BY <1>1, <1>3, <2>2 DEF length, Least, RowEnd
  <2>. QED BY <2>1, <2>2, <2>3 DEF PlaceOK, RowEnd
<1>. QED BY <1>1, <1>2, <1>3, <1>4

LEMMA ShownNext ==
    ASSUME NEW m \in 0 .. RowEnd
    PROVE  /\ Append(Shown(m), Expected[m + 1]) = Shown(m + 1)
           /\ Expected[m + 1] = IF m + 1 = RowEnd THEN CR
                                ELSE Chr(Row, 1, IF m + 1 < RowEnd THEN m + 1 ELSE RowEnd)
           /\ Shown(RowEnd + 1) = Expected /\ Shown(0) = << >>
<1>1. Expected = [k \in 1 .. RowEnd + 1 |-> IF k = RowEnd THEN CR ELSE Chr(Row, 1, Least(k, RowEnd))]
  BY DEF Expected, RowEnd
<1>2. Expected[m + 1] = IF m + 1 = RowEnd THEN CR
                        ELSE Chr(Row, 1, IF m + 1 < RowEnd THEN m + 1 ELSE RowEnd)
  <2>1. m + 1 \in 1 .. RowEnd + 1
    BY RowFacts
  <2>. QED BY <1>1, <2>1 DEF Least
<1>3. Shown(RowEnd + 1) = Expected
  BY <1>1 DEF Shown
<1>4. Shown(0) = << >>
  BY DEF Shown
<1>5. Append(Shown(m), Expected[m + 1]) = Shown(m + 1)
  <2>. DEFINE E == Expected
  <2>. HIDE DEF E
  <2>1. m \in Nat
    BY RowFacts
  <2>2. Append([k \in 1 .. m |-> E[k]], E[m + 1]) = [k \in 1 .. m + 1 |-> E[k]]
    BY <2>1
  <2>. QED BY <2>2 DEF Shown, E
<1>. QED BY <1>2, <1>3, <1>4, <1>5

\* A character of the row is a newline only where it is the last.
LEMMA RowNewline ==
    ASSUME NEW k
    PROVE  IsNewline(Chr(Row, 1, k)) <=> k = RowEnd
<1>1. Chr(Row, 1, k) = <<Row, 1, k>>
  BY DEF Chr
<1>. DEFINE ch == Chr(Row, 1, k)
<1>2. ch # BufferNul /\ ch[1] = Row /\ ch[2] = 1 /\ ch[3] = k
  BY <1>1 DEF BufferNul
<1>. HIDE DEF ch
<1>3. IsNewline(ch) <=> (1 = Len(Calls[Row]) /\ k = Calls[Row][1])
  BY <1>2 DEF IsNewline
<1>. QED BY <1>3, RowFacts DEF RowEnd, ch

\* While the timer thread prints, only the interrupt comes in between, and not
\* while the timer thread runs.
LEMMA RowAlone ==
    ASSUME NEW p \in Printer, MayRun(p)
    PROVE  /\ p \notin {Row, Isr} => at[Row] = "out"
           /\ p # Isr => at[Isr] = "out"
<1>1. ASSUME p \notin {Row, Isr}, at[Row] # "out" PROVE FALSE
  <2>1. Urgency[p] < Urgency[Row]
    BY <1>1, ConsoleFacts DEF MayRun, Active
  <2>. QED BY <1>1, <2>1, ConsoleFacts
<1>2. ASSUME p # Isr, at[Isr] # "out" PROVE FALSE
  <2>1. Urgency[p] < Urgency[Isr]
    BY <1>2, ConsoleFacts DEF MayRun, Active
  <2>. QED BY <1>2, <2>1, ConsoleFacts
<1>. QED BY <1>1, <1>2

\* Formatting and sending keep a whole row whole.
LEMMA RowCleanStep ==
    ASSUME ConsoleTypes, FlagInv, RowClean,
           \/ Begin(Row) \/ rt_vsnprintf(Row) \/ SaveFlag(Row) \/ SetFlag(Row)
           \/ PutCR(Row) \/ PutChar(Row)
    PROVE  RowClean'
<1>0. /\ at \in [Printer -> Places] /\ torn \in [Printer -> BOOLEAN]
      /\ DOMAIN call = Printer /\ DOMAIN i = Printer /\ DOMAIN sent = Printer
      /\ DOMAIN rt_log_buf = 1 .. RT_CONSOLEBUF_SIZE /\ PlaceOK(Row) /\ Row \in Printer
  BY ConsoleFacts DEF ConsoleTypes
<1>1. /\ RowEnd \in Nat \ {0} /\ RowEnd < RT_CONSOLEBUF_SIZE - 1 /\ RT_CONSOLEBUF_SIZE \in Nat
      /\ call[Row] = 1 /\ length(Row) = RowEnd /\ i[Row] \in 0 .. RowEnd
  BY RowFacts
<1>2. CASE Begin(Row)
  <2>1. /\ at[Row] = "out" /\ at'[Row] = "format" /\ i' = i /\ sent' = sent /\ torn' = torn
        /\ rt_log_buf' = rt_log_buf
    BY <1>0, <1>2 DEF Begin
  <2>2. i[Row] = 0 /\ sent[Row] = << >> /\ ~torn[Row]
    BY <2>1 DEF RowClean, Writing
  <2>. QED BY <2>1, <2>2 DEF RowClean, Writing, Formatted
<1>3. CASE rt_vsnprintf(Row)
  <2>. DEFINE k == i[Row] + 1
  <2>1. at[Row] = "format" /\ sent' = sent /\ torn' = torn
    BY <1>3 DEF rt_vsnprintf
  <2>2. sent[Row] = << >> /\ ~torn[Row] /\ Formatted(i[Row])
    BY <2>1 DEF RowClean, Writing
  <2>3. CASE k <= RowEnd
    <3>1. /\ rt_log_buf' = [rt_log_buf EXCEPT ![k] = Chr(Row, 1, k)]
          /\ i'[Row] = k /\ at' = at
      <4>1. k < RT_CONSOLEBUF_SIZE
        BY <1>1, <2>3
      <4>. QED BY <1>0, <1>1, <1>3, <2>3, <4>1 DEF rt_vsnprintf, RowEnd
    <3>2. k \in DOMAIN rt_log_buf
      BY <1>0, <1>1, <2>3
    <3>3. ASSUME NEW x \in 1 .. k PROVE rt_log_buf'[x] = Chr(Row, 1, x)
      <4>1. x = k \/ x \in 1 .. i[Row]
        BY <1>1
      <4>2. ASSUME x # k PROVE rt_log_buf[x] = Chr(Row, 1, x)
        BY <2>2, <4>1, <4>2 DEF Formatted
      <4>3. x \in DOMAIN rt_log_buf
        BY <1>0, <1>1, <2>3
      <4>. QED BY <3>1, <3>2, <4>2, <4>3
    <3>. QED BY <2>1, <2>2, <3>1, <3>3 DEF RowClean, Writing, Formatted
  <2>4. CASE ~(k <= RowEnd)
    <3>1. i[Row] = RowEnd
      BY <1>1, <2>4
    <3>2. /\ rt_log_buf' = [rt_log_buf EXCEPT ![Least(k, RT_CONSOLEBUF_SIZE - 1)] = BufferNul]
          /\ i'[Row] = 0 /\ at'[Row] = "flag"
      BY <1>0, <1>1, <1>3, <2>4 DEF rt_vsnprintf, RowEnd
    <3>3. Least(k, RT_CONSOLEBUF_SIZE - 1) = RowEnd + 1
      BY <1>1, <3>1 DEF Least
    <3>4. \A x \in 1 .. RowEnd : x \in DOMAIN rt_log_buf /\ x # RowEnd + 1
      BY <1>0, <1>1
    <3>5. \A x \in 1 .. RowEnd : rt_log_buf'[x] = Chr(Row, 1, x)
      BY <2>2, <3>1, <3>2, <3>3, <3>4 DEF Formatted
    <3>. QED BY <2>1, <2>2, <3>2, <3>5 DEF RowClean, Writing, Formatted
  <2>. QED BY <2>3, <2>4
<1>4. CASE SaveFlag(Row)
  <2>1. /\ at[Row] = "flag" /\ at'[Row] = "set" /\ i' = i /\ sent' = sent /\ torn' = torn
        /\ rt_log_buf' = rt_log_buf
    BY <1>0, <1>4 DEF SaveFlag
  <2>. QED BY <2>1 DEF RowClean, Writing, Formatted
<1>5. CASE SetFlag(Row)
  <2>1. /\ at[Row] = "set" /\ at'[Row] = "write" /\ i' = i /\ sent' = sent /\ torn' = torn
        /\ rt_log_buf' = rt_log_buf
    BY <1>0, <1>5 DEF SetFlag
  <2>2. i[Row] = 0
    BY <1>0, <2>1 DEF PlaceOK
  <2>3. sent[Row] = << >> /\ ~torn[Row] /\ Formatted(RowEnd)
    BY <2>1 DEF RowClean, Writing
  <2>4. ShownSoFar' = 0
    BY <1>1, <2>1, <2>2 DEF ShownSoFar, RowEnd
  <2>5. Shown(0) = << >>
    BY <1>1, ShownNext
  <2>6. sent'[Row] = Shown(ShownSoFar')
    BY <2>1, <2>3, <2>4, <2>5
  <2>. QED BY <2>1, <2>3, <2>6 DEF RowClean, Writing, Formatted, Shown
<1>6. CASE PutCR(Row)
  <2>1. /\ at[Row] = "write" /\ at'[Row] = "putc" /\ i' = i /\ rt_log_buf' = rt_log_buf
        /\ i[Row] < RowEnd /\ IsNewline(rt_log_buf[i[Row] + 1])
        /\ sent'[Row] = Append(sent[Row], CR) /\ torn'[Row] = torn[Row]
    BY <1>0, <1>1, <1>6 DEF PutCR, Put
  <2>2. Formatted(RowEnd) /\ ~torn[Row] /\ sent[Row] = Shown(i[Row])
    BY <2>1 DEF RowClean, Writing, ShownSoFar
  <2>3. i[Row] + 1 = RowEnd
    <3>1. rt_log_buf[i[Row] + 1] = Chr(Row, 1, i[Row] + 1)
      BY <1>1, <2>1, <2>2 DEF Formatted
    <3>. QED BY <2>1, <3>1, RowNewline
  <2>4. Append(Shown(i[Row]), CR) = Shown(RowEnd)
    BY <1>1, <2>3, ShownNext
  <2>5. ShownSoFar' = RowEnd
    BY <2>1 DEF ShownSoFar, RowEnd
  <2>6. sent'[Row] = Shown(ShownSoFar')
    BY <2>1, <2>2, <2>4, <2>5
  <2>. QED BY <2>1, <2>2, <2>3, <2>6 DEF RowClean, Writing, Formatted, Shown
<1>7. CASE PutChar(Row)
  <2>1. /\ at'[Row] = "write" /\ i'[Row] = i[Row] + 1 /\ rt_log_buf' = rt_log_buf
        /\ sent'[Row] = Append(sent[Row], rt_log_buf[i[Row] + 1]) /\ torn'[Row] = torn[Row]
        /\ \/ at[Row] = "putc"
           \/ /\ at[Row] = "write" /\ i[Row] < RowEnd
              /\ ~(IsNewline(rt_log_buf[i[Row] + 1]) /\ stream)
    BY <1>0, <1>1, <1>7 DEF PutChar, Put
  <2>2. /\ Formatted(RowEnd) /\ ~torn[Row] /\ sent[Row] = Shown(ShownSoFar)
        /\ at[Row] = "putc" => i[Row] + 1 = RowEnd
    BY <2>1 DEF RowClean, Writing
  <2>3. i[Row] < RowEnd /\ i[Row] + 1 \in 1 .. RowEnd
    BY <1>1, <2>1, <2>2
  <2>4. rt_log_buf[i[Row] + 1] = Chr(Row, 1, i[Row] + 1)
    BY <2>2, <2>3 DEF Formatted
  <2>5. Append(Shown(ShownSoFar), Chr(Row, 1, i[Row] + 1)) = Shown(ShownSoFar')
    <3>1. CASE at[Row] = "putc"
      <4>1. ShownSoFar = RowEnd /\ i[Row] + 1 = RowEnd
        BY <2>2, <3>1 DEF ShownSoFar
      <4>2. ShownSoFar' = RowEnd + 1
        BY <1>1, <2>1, <4>1 DEF ShownSoFar, RowEnd
      <4>3. RowEnd \in 0 .. RowEnd /\ RowEnd + 1 # RowEnd /\ ~(RowEnd + 1 < RowEnd)
        BY <1>1
      <4>4. Append(Shown(RowEnd), Chr(Row, 1, RowEnd)) = Shown(RowEnd + 1)
        BY <4>3, ShownNext
      <4>. QED BY <4>1, <4>2, <4>4
    <3>2. CASE at[Row] = "write"
      <4>1. ShownSoFar = i[Row]
        BY <2>3, <3>2 DEF ShownSoFar
      <4>2. stream
        BY <1>0, <3>2 DEF FlagInv, Writing
      <4>3. i[Row] + 1 # RowEnd
        BY <2>1, <2>4, <3>2, <4>2, RowNewline
      <4>4. i[Row] + 1 < RowEnd /\ i[Row] \in 0 .. RowEnd
        BY <1>1, <2>3, <4>3
      <4>5. ShownSoFar' = i[Row] + 1
        BY <2>1, <4>4 DEF ShownSoFar, RowEnd
      <4>6. Append(Shown(i[Row]), Chr(Row, 1, i[Row] + 1)) = Shown(i[Row] + 1)
        BY <4>3, <4>4, ShownNext
      <4>. QED BY <4>1, <4>5, <4>6
    <3>. QED BY <2>1, <3>1, <3>2
  <2>6. sent'[Row] = Shown(ShownSoFar')
    BY <2>1, <2>2, <2>4, <2>5
  <2>. QED BY <2>1, <2>2, <2>6 DEF RowClean, Writing, Formatted, Shown
<1>. QED BY <1>2, <1>3, <1>4, <1>5, <1>6, <1>7

\* The end of a row: whole if it was clean, and nothing is left of it.
LEMMA RowFinish ==
    ASSUME ConsoleTypes, RestoreFlag(Row)
    PROVE  /\ RowClean'
           /\ RowClean => damaged' = damaged
           /\ damaged' = damaged \/ damaged' = damaged + 1
<1>0. /\ at \in [Printer -> Places] /\ torn \in [Printer -> BOOLEAN]
      /\ DOMAIN i = Printer /\ DOMAIN sent = Printer /\ Row \in Printer
  BY ConsoleFacts DEF ConsoleTypes
<1>1. /\ call[Row] = 1 /\ length(Row) = RowEnd /\ Len(Calls[Row]) = 1 /\ RowEnd \in Nat \ {0}
  BY RowFacts
<1>2. /\ at[Row] = "write" /\ i[Row] = RowEnd
      /\ at' = [at EXCEPT ![Row] = "out"] /\ i' = [i EXCEPT ![Row] = 0]
      /\ sent' = [sent EXCEPT ![Row] = << >>] /\ torn' = [torn EXCEPT ![Row] = FALSE]
      /\ damaged' = IF (torn[Row] \/ sent[Row] # Expected) /\ damaged < 2
                    THEN damaged + 1 ELSE damaged
  BY <1>1 DEF RestoreFlag
<1>3. RowClean'
  <2>1. at'[Row] = "out" /\ i'[Row] = 0 /\ sent'[Row] = << >> /\ torn'[Row] = FALSE
    BY <1>0, <1>2
  <2>. QED BY <2>1 DEF RowClean, Writing
<1>4. ASSUME RowClean PROVE damaged' = damaged
  <2>1. ~torn[Row] /\ sent[Row] = Shown(RowEnd + 1)
    BY <1>1, <1>2, <1>4 DEF RowClean, Writing, ShownSoFar
  <2>2. Shown(RowEnd + 1) = Expected
    <3>1. 0 \in 0 .. RowEnd
      BY <1>1
    <3>. QED BY <3>1, ShownNext
  <2>. QED BY <1>2, <2>1, <2>2
<1>. QED BY <1>2, <1>3, <1>4

LEMMA RowStep ==
    ASSUME ConsoleTypes, FlagInv, RowInv, NEW p \in Printer, Begin(p) \/ Step(p)
    PROVE  RowInv'
<1>0. /\ at \in [Printer -> Places] /\ torn \in [Printer -> BOOLEAN] /\ already_output \in BOOLEAN
      /\ DOMAIN call = Printer /\ DOMAIN i = Printer /\ DOMAIN sent = Printer
      /\ Row \in Printer /\ Isr \in Printer /\ Isr # Row
  BY ConsoleFacts DEF ConsoleTypes
<1>1. MayRun(p)
  BY DEF Begin, Step, rt_vsnprintf, SaveFlag, SetFlag, PutCR, PutChar, RestoreFlag
<1>2. CASE p \notin {Row, Isr}
  <2>1. at[Row] = "out" /\ at[Isr] = "out"
    BY <1>1, <1>2, RowAlone
  <2>2. /\ at'[Row] = "out" /\ at'[Isr] = "out" /\ already_output' = already_output
        /\ damaged' = damaged /\ i'[Row] = i[Row] /\ sent'[Row] = sent[Row]
        /\ sent[Row] = << >> => (torn'[Row] <=> torn[Row])
    <3>1. CASE Begin(p)
      BY <1>0, <1>2, <2>1, <3>1 DEF Begin
    <3>2. CASE rt_vsnprintf(p)
      BY <1>0, <1>2, <2>1, <3>2 DEF rt_vsnprintf
    <3>3. CASE SaveFlag(p) \/ SetFlag(p)
      BY <1>0, <1>2, <2>1, <3>3 DEF SaveFlag, SetFlag
    <3>4. CASE PutCR(p) \/ PutChar(p)
      BY <1>0, <1>2, <2>1, <3>4 DEF PutCR, PutChar, Put
    <3>5. CASE RestoreFlag(p)
      BY <1>0, <1>2, <2>1, <3>5 DEF RestoreFlag
    <3>. QED BY <3>1, <3>2, <3>3, <3>4, <3>5 DEF Step
  <2>3. RowClean => RowClean'
    BY <2>1, <2>2 DEF RowClean, Writing
  <2>. QED BY <2>1, <2>2, <2>3 DEF RowInv
<1>3. CASE p = Isr
  <2>1. damaged = 0
    <3>1. CASE at[Isr] = "out"
      <4>1. Begin(Isr)
        BY <1>3, <3>1 DEF Step, rt_vsnprintf, SaveFlag, SetFlag, PutCR, PutChar, RestoreFlag
      <4>. QED BY <3>1, <4>1 DEF RowInv, Begin, MayBegin
    <3>2. CASE at[Isr] # "out"
      BY <3>2 DEF RowInv
    <3>. QED BY <3>1, <3>2
  <2>2. damaged' = damaged /\ (at'[Isr] # "out" \/ already_output')
    <3>1. CASE Begin(p)
      BY <1>0, <1>3, <3>1 DEF Begin
    <3>2. CASE rt_vsnprintf(p)
      BY <1>0, <1>3, <3>2 DEF rt_vsnprintf
    <3>3. CASE SaveFlag(p) \/ SetFlag(p)
      BY <1>0, <1>3, <3>3 DEF SaveFlag, SetFlag
    <3>4. CASE PutCR(p) \/ PutChar(p)
      BY <1>0, <1>3, <3>4 DEF PutCR, PutChar
    <3>5. CASE RestoreFlag(p)
      BY <1>0, <1>3, <3>5 DEF RestoreFlag
    <3>. QED BY <3>1, <3>2, <3>3, <3>4, <3>5 DEF Step
  <2>. QED BY <2>1, <2>2 DEF RowInv
<1>4. CASE p = Row
  <2>1. at[Isr] = "out"
    BY <1>0, <1>1, <1>4, RowAlone
  <2>2. CASE RestoreFlag(Row)
    <3>1. at'[Isr] = "out" /\ already_output' = already_output
      BY <1>0, <2>1, <2>2 DEF RestoreFlag
    <3>2. RowClean' /\ (RowClean => damaged' = damaged) /\ (damaged' = damaged \/ damaged' = damaged + 1)
      BY <2>2, RowFinish
    <3>. QED BY <2>1, <3>1, <3>2 DEF RowInv
  <2>3. CASE \/ Begin(Row) \/ rt_vsnprintf(Row) \/ SaveFlag(Row) \/ SetFlag(Row)
             \/ PutCR(Row) \/ PutChar(Row)
    <3>1. at'[Isr] = "out" /\ already_output' = already_output /\ damaged' = damaged
      BY <1>0, <2>1, <2>3 DEF Begin, rt_vsnprintf, SaveFlag, SetFlag, PutCR, PutChar
    <3>2. RowClean => RowClean'
      BY <2>3, RowCleanStep
    <3>. QED BY <2>1, <3>1, <3>2 DEF RowInv
  <2>. QED BY <1>4, <2>2, <2>3 DEF Step
<1>. QED BY <1>2, <1>3, <1>4

-----------------------------------------------------------------------------
ConsoleInv == ConsoleTypes /\ FlagInv /\ RowInv

LEMMA ConsoleStart == ConsoleInit => ConsoleInv
<1>. SUFFICES ASSUME ConsoleInit PROVE ConsoleInv
  OBVIOUS
<1>1. ConsoleTypes
  BY ConsoleStartTypes
<1>2. /\ \A p \in Printer : at[p] = "out" /\ i[p] = 0 /\ sent[p] = << >> /\ torn[p] = FALSE
      /\ damaged = 0 /\ flag0 = stream
  BY DEF ConsoleInit
<1>3. FlagInv
  BY <1>2 DEF FlagInv, Writing
<1>4. RowInv
  BY <1>2, ConsoleFacts DEF RowInv, RowClean, Writing
<1>. QED BY <1>1, <1>3, <1>4 DEF ConsoleInv

LEMMA ConsoleStep == ConsoleInv /\ [ConsoleNext]_consolevars => ConsoleInv'
<1>. SUFFICES ASSUME ConsoleInv, [ConsoleNext]_consolevars PROVE ConsoleInv'
  OBVIOUS
<1>1. ASSUME NEW p \in Printer, Begin(p) \/ Step(p) PROVE ConsoleInv'
  BY <1>1, TypesStep, FlagStep, RowStep DEF ConsoleInv
<1>2. ASSUME UNCHANGED consolevars PROVE ConsoleInv'
  <2>1. ConsoleTypes'
    BY <1>2 DEF ConsoleInv, consolevars, ConsoleTypes, PlaceOK, length
  <2>2. FlagInv'
    BY <1>2 DEF ConsoleInv, consolevars, FlagInv, Below
  <2>3. RowInv'
    BY <1>2 DEF ConsoleInv, consolevars, RowInv, RowClean, Formatted, ShownSoFar, Shown
  <2>. QED BY <2>1, <2>2, <2>3 DEF ConsoleInv
<1>. QED BY <1>1, <1>2 DEF ConsoleNext

LEMMA ConsoleMeans == ConsoleInv => ConsoleSound
<1>. SUFFICES ASSUME ConsoleInv PROVE ConsoleSound
  OBVIOUS
<1>1. ConsoleTypeOK
  <2>1. ASSUME NEW p \in Printer
        PROVE  /\ call[p] \in DOMAIN Calls[p] /\ i[p] \in 0 .. Calls[p][call[p]]
               /\ at[p] \in {"write", "putc"} => i[p] <= length(p)
    <3>1. PlaceOK(p) /\ i[p] \in Nat /\ length(p) \in Nat
      BY LengthFacts DEF ConsoleInv, ConsoleTypes
    <3>. QED BY <3>1 DEF PlaceOK
  <2>2. damaged \in 0 .. 2
    BY DEF ConsoleInv, RowInv
  <2>. QED BY <2>1, <2>2 DEF ConsoleInv, ConsoleTypes, ConsoleTypeOK, Places
<1>2. RowsWhole
  BY DEF ConsoleInv, RowInv, RowsWhole
<1>3. StreamWhileWriting
  BY DEF ConsoleInv, FlagInv, StreamWhileWriting, Writing
<1>4. FlagKept
  <2>1. ASSUME Active = {} PROVE stream = flag0
    <3>1. \A q \in Printer : at[q] \notin Writing
      BY <2>1 DEF Active, Writing
    <3>2. stream <=> flag0
      BY <3>1 DEF ConsoleInv, FlagInv
    <3>. QED BY <3>2 DEF ConsoleInv, ConsoleTypes
  <2>. QED BY <2>1 DEF FlagKept
<1>. QED BY <1>1, <1>2, <1>3, <1>4 DEF ConsoleSound

\* However the calls of rt_kprintf by any number of printers nest, with any texts:
\* rows come out whole up to one that the overflow warning damages, whoever sends
\* finds the stream flag set, and the flag is the old one when all are done.
THEOREM ConsoleCorrect == ConsoleSpec => []ConsoleSound
<1>1. ConsoleInit => ConsoleInv
  BY ConsoleStart
<1>2. ConsoleInv /\ [ConsoleNext]_consolevars => ConsoleInv'
  BY ConsoleStep
<1>3. ConsoleInv => ConsoleSound
  BY ConsoleMeans
<1>. QED BY <1>1, <1>2, <1>3, PTL DEF ConsoleSpec

-----------------------------------------------------------------------------
(* The lap report.                                                         *)

\* Induction along a table: a set that has 0 and with every place the next one.
LEMMA AlongTable ==
    ASSUME NEW n \in Nat, NEW G, 0 \in G, \A k \in 1..n : k - 1 \in G => k \in G
    PROVE  \A k \in 0..n : k \in G
<1>. DEFINE T == {k \in 0..n : k \notin G}
<1>. SUFFICES ASSUME T # {} PROVE FALSE
  OBVIOUS
<1>. DEFINE m == Min(T)
<1>1. m \in T /\ \A y \in T : m <= y
  BY LeastOffset
<1>. HIDE DEF m
<1>2. m \in 1..n /\ m \notin G /\ m - 1 \in 0..n /\ ~(m <= m - 1)
  BY <1>1
<1>3. m - 1 \in G
  BY <1>1, <1>2
<1>. QED BY <1>2, <1>3

\* The loops over the laps are well defined.
LEMMA TalliedSteps ==
    ASSUME laps \in Seq(Words)
    PROVE  /\ Tallied[0] = None
           /\ \A n \in 1..Len(laps) : Tallied[n] = Tally(Tallied[n - 1], laps[n])
<1>. DEFINE L == Len(laps)
            Upto(n) == \E f : f = [k \in 0..n |-> IF k = 0 THEN None ELSE Tally(f[k - 1], laps[k])]
            G == {n \in Nat : Upto(n)}
<1>0. L \in Nat
  OBVIOUS
<1>1. Upto(0)
  <2>. DEFINE f == [k \in 0..0 |-> None]
  <2>1. f = [k \in 0..0 |-> IF k = 0 THEN None ELSE Tally(f[k - 1], laps[k])]
    OBVIOUS
  <2>. QED BY <2>1
<1>2. ASSUME NEW n \in Nat, Upto(n) PROVE Upto(n + 1)
  <2>1. PICK g : g = [k \in 0..n |-> IF k = 0 THEN None ELSE Tally(g[k - 1], laps[k])]
    BY <1>2
  <2>. DEFINE f == [k \in 0..n+1 |-> IF k = n + 1 THEN Tally(g[n], laps[n + 1]) ELSE g[k]]
  <2>2. ASSUME NEW k \in 0..n+1
        PROVE  f[k] = IF k = 0 THEN None ELSE Tally(f[k - 1], laps[k])
    <3>1. CASE k = n + 1
      <4>1. f[k] = Tally(g[n], laps[k]) /\ k # 0
        BY <3>1
      <4>2. f[k - 1] = g[n]
        BY <3>1
      <4>. QED BY <4>1, <4>2
    <3>2. CASE k \in 0..n
      <4>1. f[k] = g[k]
        BY <3>2
      <4>2. g[k] = IF k = 0 THEN None ELSE Tally(g[k - 1], laps[k])
        BY <2>1, <3>2
      <4>3. k # 0 => f[k - 1] = g[k - 1]
        BY <3>2
      <4>. QED BY <4>1, <4>2, <4>3
    <3>. QED BY <3>1, <3>2
  <2>3. f = [k \in 0..n+1 |-> f[k]]
    OBVIOUS
  <2>. HIDE DEF f
  <2>4. f = [k \in 0..n+1 |-> IF k = 0 THEN None ELSE Tally(f[k - 1], laps[k])]
    BY <2>2, <2>3
  <2>. QED BY <2>4
<1>. HIDE DEF Upto
<1>3. Upto(L)
  <2>1. 0 \in G /\ \A n \in 1..L : n - 1 \in G => n \in G
    BY <1>0, <1>1, <1>2
  <2>. HIDE DEF L, G
  <2>2. \A n \in 0..L : n \in G
    BY <1>0, <2>1, AlongTable
  <2>3. L \in G
    BY <1>0, <2>2
  <2>. QED BY <2>3 DEF G
<1>4. \E f : f = [n \in 0..L |-> IF n = 0 THEN None ELSE Tally(f[n - 1], laps[n])]
  BY <1>3 DEF Upto
<1>5. Tallied = [n \in 0..L |-> IF n = 0 THEN None ELSE Tally(Tallied[n - 1], laps[n])]
  BY <1>4, Zenon DEF Tallied
<1>. HIDE DEF L
<1>6. Tallied[0] = None /\ \A n \in 1..L : Tallied[n] = Tally(Tallied[n - 1], laps[n])
  BY <1>0, <1>5
<1>. QED BY <1>6 DEF L

LEMMA SumsSteps ==
    ASSUME laps \in Seq(Words)
    PROVE  /\ LapSums[0] = 0
           /\ \A n \in 1..Len(laps) : LapSums[n] = LapSums[n - 1] + laps[n]
<1>. DEFINE L == Len(laps)
            Upto(n) == \E f : f = [k \in 0..n |-> IF k = 0 THEN 0 ELSE f[k - 1] + laps[k]]
            G == {n \in Nat : Upto(n)}
<1>0. L \in Nat
  OBVIOUS
<1>1. Upto(0)
  <2>. DEFINE f == [k \in 0..0 |-> 0]
  <2>1. f = [k \in 0..0 |-> IF k = 0 THEN 0 ELSE f[k - 1] + laps[k]]
    OBVIOUS
  <2>. QED BY <2>1
<1>2. ASSUME NEW n \in Nat, Upto(n) PROVE Upto(n + 1)
  <2>1. PICK g : g = [k \in 0..n |-> IF k = 0 THEN 0 ELSE g[k - 1] + laps[k]]
    BY <1>2
  <2>. DEFINE f == [k \in 0..n+1 |-> IF k = n + 1 THEN g[n] + laps[n + 1] ELSE g[k]]
  <2>2. ASSUME NEW k \in 0..n+1
        PROVE  f[k] = IF k = 0 THEN 0 ELSE f[k - 1] + laps[k]
    <3>1. CASE k = n + 1
      <4>1. f[k] = g[n] + laps[k] /\ k # 0
        BY <3>1
      <4>2. f[k - 1] = g[n]
        BY <3>1
      <4>. QED BY <4>1, <4>2
    <3>2. CASE k \in 0..n
      <4>1. f[k] = g[k]
        BY <3>2
      <4>2. g[k] = IF k = 0 THEN 0 ELSE g[k - 1] + laps[k]
        BY <2>1, <3>2
      <4>3. k # 0 => f[k - 1] = g[k - 1]
        BY <3>2
      <4>. QED BY <4>1, <4>2, <4>3
    <3>. QED BY <3>1, <3>2
  <2>3. f = [k \in 0..n+1 |-> f[k]]
    OBVIOUS
  <2>. HIDE DEF f
  <2>4. f = [k \in 0..n+1 |-> IF k = 0 THEN 0 ELSE f[k - 1] + laps[k]]
    BY <2>2, <2>3
  <2>. QED BY <2>4
<1>. HIDE DEF Upto
<1>3. Upto(L)
  <2>1. 0 \in G /\ \A n \in 1..L : n - 1 \in G => n \in G
    BY <1>0, <1>1, <1>2
  <2>. HIDE DEF L, G
  <2>2. \A n \in 0..L : n \in G
    BY <1>0, <2>1, AlongTable
  <2>3. L \in G
    BY <1>0, <2>2
  <2>. QED BY <2>3 DEF G
<1>4. \E f : f = [n \in 0..L |-> IF n = 0 THEN 0 ELSE f[n - 1] + laps[n]]
  BY <1>3 DEF Upto
<1>5. LapSums = [n \in 0..L |-> IF n = 0 THEN 0 ELSE LapSums[n - 1] + laps[n]]
  BY <1>4, Zenon DEF LapSums
<1>. HIDE DEF L
<1>6. LapSums[0] = 0 /\ \A n \in 1..L : LapSums[n] = LapSums[n - 1] + laps[n]
  BY <1>0, <1>5
<1>. QED BY <1>6 DEF L

LEMMA ReportNumbers ==
    /\ U32 \in Nat \ {0} /\ MaxLaps \in Nat \ {0} /\ Columns \in Nat /\ Buffer \in Nat
    /\ TimeBuffer \in Nat /\ Steps \subseteq 0..U32-1 /\ MaxSteps \in Nat
    /\ (U32 - 1) \div 60000 < 100000 /\ MaxLaps < 100
    /\ Columns >= 120 /\ Buffer > 20 /\ TimeBuffer > 11
    /\ Words = 0..U32-1
  BY ReportAssumption DEF Words

\* A 32-bit sum.
LEMMA WordSum ==
    ASSUME NEW y \in Nat
    PROVE  y % U32 \in 0..U32-1 /\ y % U32 <= y /\ (y < U32 => y % U32 = y)
  BY ReportNumbers

\* Minimum, maximum and number of the first k laps.
TallyOK(r, k) ==
    /\ r.cnt = k
    /\ r.min \in Words /\ r.max \in Words /\ r.sum \in Words
    /\ r = [min |-> r.min, max |-> r.max, sum |-> r.sum, cnt |-> r.cnt]
    /\ k = 0 => r.min = U32 - 1 /\ r.max = 0
    /\ \A x \in 1..k : r.min <= laps[x] /\ laps[x] <= r.max
    /\ k > 0 => (\E x \in 1..k : r.min = laps[x]) /\ (\E x \in 1..k : r.max = laps[x])

LEMMA TallyFacts ==
    ASSUME laps \in Seq(Words)
    PROVE  \A k \in 0..Len(laps) : TallyOK(Tallied[k], k)
<1>. DEFINE L == Len(laps)
            G == {k \in 0..L : TallyOK(Tallied[k], k)}
<1>0. L \in Nat /\ \A k \in 1..L : laps[k] \in 0..U32-1
  BY ReportNumbers
<1>1. Tallied[0] = None /\ \A n \in 1..L : Tallied[n] = Tally(Tallied[n - 1], laps[n])
  BY TalliedSteps
<1>. HIDE DEF L
<1>2. 0 \in G
  <2>1. TallyOK(None, 0)
    BY ReportNumbers DEF TallyOK, None
  <2>. QED BY <1>0, <1>1, <2>1
<1>3. ASSUME NEW k \in 1..L, k - 1 \in G PROVE k \in G
  <2>. DEFINE r == Tallied[k - 1]
              v == laps[k]
              s == Tallied[k]
  <2>1. TallyOK(r, k - 1)
    BY <1>3
  <2>2. s = Tally(r, v) /\ v \in 0..U32-1
    BY <1>0, <1>1
  <2>. HIDE DEF r, v, s
  <2>3. /\ r.cnt = k - 1 /\ r.min \in 0..U32-1 /\ r.max \in 0..U32-1 /\ r.sum \in 0..U32-1
    BY <2>1, ReportNumbers DEF TallyOK
  <2>4. /\ s = [min |-> IF v < r.min THEN v ELSE r.min, max |-> IF v > r.max THEN v ELSE r.max,
                sum |-> (r.sum + v) % U32, cnt |-> r.cnt + 1]
    BY <2>2 DEF Tally
  <2>5. /\ s.min = IF v < r.min THEN v ELSE r.min
        /\ s.max = IF v > r.max THEN v ELSE r.max
        /\ s.sum = (r.sum + v) % U32 /\ s.cnt = k
        /\ s = [min |-> s.min, max |-> s.max, sum |-> s.sum, cnt |-> s.cnt]
    BY <2>3, <2>4
  <2>6. s.sum \in 0..U32-1
    <3>1. r.sum + v \in Nat
      BY <2>2, <2>3
    <3>. QED BY <2>5, <3>1, WordSum
  <2>7. s.min \in 0..U32-1 /\ s.max \in 0..U32-1
    BY <2>2, <2>3, <2>5
  <2>8. s.min <= r.min /\ r.max <= s.max /\ s.min <= v /\ v <= s.max
    BY <2>2, <2>3, <2>5
  <2>9. ASSUME NEW x \in 1..k PROVE s.min <= laps[x] /\ laps[x] <= s.max
    <3>1. CASE x = k
      BY <2>8, <3>1 DEF v
    <3>2. CASE x # k
      <4>1. x \in 1..k-1 /\ x \in 1..L
        BY <1>0, <3>2
      <4>2. r.min <= laps[x] /\ laps[x] <= r.max /\ laps[x] \in 0..U32-1
        BY <1>0, <2>1, <4>1 DEF TallyOK
      <4>. QED BY <2>3, <2>7, <2>8, <4>2
    <3>. QED BY <3>1, <3>2
  <2>10. \E x \in 1..k : s.min = laps[x]
    <3>1. k \in 1..k
      BY <1>0
    <3>2. CASE s.min = v
      BY <3>1, <3>2 DEF v
    <3>3. CASE s.min # v
      <4>1. s.min = r.min /\ ~(v < r.min)
        BY <2>5, <3>3
      <4>2. k - 1 > 0
        <5>1. k - 1 # 0
          BY <2>1, <2>2, <3>3, <4>1, ReportNumbers DEF TallyOK
        <5>. QED BY <1>0, <5>1
      <4>3. PICK x \in 1..k-1 : r.min = laps[x]
        BY <2>1, <4>2 DEF TallyOK
      <4>. QED BY <1>0, <4>1, <4>3
    <3>. QED BY <3>2, <3>3
  <2>11. \E x \in 1..k : s.max = laps[x]
    <3>1. k \in 1..k
      BY <1>0
    <3>2. CASE s.max = v
      BY <3>1, <3>2 DEF v
    <3>3. CASE s.max # v
      <4>1. s.max = r.max /\ ~(v > r.max)
        BY <2>5, <3>3
      <4>2. k - 1 > 0
        <5>1. k - 1 # 0
          BY <2>1, <2>2, <3>3, <4>1, ReportNumbers DEF TallyOK
        <5>. QED BY <1>0, <5>1
      <4>3. PICK x \in 1..k-1 : r.max = laps[x]
        BY <2>1, <4>2 DEF TallyOK
      <4>. QED BY <1>0, <4>1, <4>3
    <3>. QED BY <3>2, <3>3
  <2>12. TallyOK(s, k)
    <3>1. k # 0 /\ s.min \in Words /\ s.max \in Words /\ s.sum \in Words
      BY <2>6, <2>7, ReportNumbers
    <3>2. s.cnt = k /\ s = [min |-> s.min, max |-> s.max, sum |-> s.sum, cnt |-> s.cnt]
      BY <2>5
    <3>. QED BY <2>9, <2>10, <2>11, <3>1, <3>2 DEF TallyOK
  <2>. QED BY <1>0, <2>12 DEF s
<1>. HIDE DEF G
<1>4. \A k \in 0..L : k \in G
  BY <1>0, <1>2, <1>3, AlongTable
<1>. QED BY <1>4 DEF G, L

\* The 32-bit sum is at most the real one, which lies between the number of laps
\* times any lower and times any upper bound of them.
LEMMA SumBounds ==
    ASSUME laps \in Seq(Words), NEW lo \in Nat, NEW hi \in Nat,
           \A x \in 1..Len(laps) : lo <= laps[x] /\ laps[x] <= hi
    PROVE  \A k \in 0..Len(laps) :
             /\ LapSums[k] \in Nat /\ k * lo <= LapSums[k] /\ LapSums[k] <= k * hi
             /\ Tallied[k].sum <= LapSums[k]
<1>. DEFINE L == Len(laps)
            P(k) == /\ LapSums[k] \in Nat /\ k * lo <= LapSums[k] /\ LapSums[k] <= k * hi
                    /\ Tallied[k].sum <= LapSums[k]
            G == {k \in 0..L : P(k)}
<1>0. L \in Nat /\ \A k \in 1..L : laps[k] \in 0..U32-1 /\ lo <= laps[k] /\ laps[k] <= hi
  BY ReportNumbers
<1>1. /\ Tallied[0] = None /\ \A n \in 1..L : Tallied[n] = Tally(Tallied[n - 1], laps[n])
      /\ LapSums[0] = 0 /\ \A n \in 1..L : LapSums[n] = LapSums[n - 1] + laps[n]
      /\ \A k \in 0..L : TallyOK(Tallied[k], k)
  BY TalliedSteps, SumsSteps, TallyFacts
<1>. HIDE DEF L
<1>2. 0 \in G
  BY <1>0, <1>1 DEF None
<1>3. ASSUME NEW k \in 1..L, k - 1 \in G PROVE k \in G
  <2>. DEFINE a == LapSums[k - 1]
              r == Tallied[k - 1]
              t == r.sum
              v == laps[k]
              u == (k - 1) * lo
              w == (k - 1) * hi
  <2>0. k - 1 \in 0..L /\ k \in Int
    BY <1>0
  <2>1. a \in Nat /\ u <= a /\ a <= w /\ t <= a
    BY <1>3
  <2>2. v \in 0..U32-1 /\ lo <= v /\ v <= hi /\ LapSums[k] = a + v
    BY <1>0, <1>1
  <2>3. Tallied[k].sum = (t + v) % U32
    <3>1. Tallied[k] = Tally(r, v)
      BY <1>1
    <3>. HIDE DEF r, v
    <3>. QED BY <3>1 DEF Tally
  <2>4. t \in 0..U32-1
    <3>1. TallyOK(r, k - 1)
      BY <1>1, <2>0
    <3>. HIDE DEF r
    <3>. QED BY <3>1, ReportNumbers DEF TallyOK
  <2>5. k * lo = u + lo /\ k * hi = w + hi /\ u \in Int /\ w \in Int
    BY <2>0
  <2>. HIDE DEF a, r, t, v, u, w
  <2>6. t + v \in Nat
    BY <2>2, <2>4
  <2>7. (t + v) % U32 \in Int /\ (t + v) % U32 <= t + v
    BY <2>6, WordSum
  <2>8. /\ a + v \in Nat /\ u + lo <= a + v /\ a + v <= w + hi /\ (t + v) % U32 <= a + v
    BY <2>1, <2>2, <2>4, <2>5, <2>6, <2>7
  <2>9. P(k)
    BY <2>2, <2>3, <2>5, <2>8
  <2>. QED BY <1>0, <2>9
<1>. HIDE DEF G
<1>4. \A k \in 0..L : k \in G
  BY <1>0, <1>2, <1>3, AlongTable
<1>. QED BY <1>4 DEF G, L

\* The totals at which the laps that are kept began and ended: laps adjoin.
Marks(m) ==
    /\ m \in [0..Len(laps) -> 0..mark] /\ m[Len(laps)] = mark
    /\ \A x \in 1..Len(laps) : laps[x] = m[x] - m[x - 1]

\* All laps together are at most the total, so their 32-bit sum is exact.
LEMMA SumExact ==
    ASSUME laps \in Seq(Words), mark \in Words, NEW m, Marks(m)
    PROVE  /\ Tallied[Len(laps)].sum = LapSums[Len(laps)]
           /\ LapSums[Len(laps)] <= mark
<1>. DEFINE L == Len(laps)
            P(k) == LapSums[k] = m[k] - m[0] /\ Tallied[k].sum = LapSums[k]
            G == {k \in 0..L : P(k)}
<1>0. /\ L \in Nat /\ mark \in 0..U32-1 /\ \A k \in 0..L : m[k] \in 0..mark
      /\ \A k \in 1..L : laps[k] \in 0..U32-1 /\ laps[k] = m[k] - m[k - 1]
      /\ m[L] = mark
  <2>1. L \in Nat /\ mark \in 0..U32-1 /\ \A k \in 1..L : laps[k] \in 0..U32-1
    BY ReportNumbers
  <2>2. m \in [0..L -> 0..mark] /\ m[L] = mark /\ \A k \in 1..L : laps[k] = m[k] - m[k - 1]
    BY DEF Marks
  <2>. QED BY <2>1, <2>2
<1>1. /\ Tallied[0] = None /\ \A n \in 1..L : Tallied[n] = Tally(Tallied[n - 1], laps[n])
      /\ LapSums[0] = 0 /\ \A n \in 1..L : LapSums[n] = LapSums[n - 1] + laps[n]
  BY TalliedSteps, SumsSteps
<1>. HIDE DEF L
<1>2. 0 \in G
  <2>1. m[0] \in Int
    BY <1>0
  <2>. QED BY <1>0, <1>1, <2>1 DEF None
<1>3. ASSUME NEW k \in 1..L, k - 1 \in G PROVE k \in G
  <2>. DEFINE r == Tallied[k - 1]
              v == laps[k]
  <2>0. k - 1 \in 0..L /\ k \in 0..L /\ 0 \in 0..L
    BY <1>0
  <2>1. LapSums[k - 1] = m[k - 1] - m[0] /\ r.sum = LapSums[k - 1]
    BY <1>3
  <2>2. v = m[k] - m[k - 1] /\ LapSums[k] = LapSums[k - 1] + v
    BY <1>0, <1>1
  <2>3. Tallied[k].sum = (r.sum + v) % U32
    <3>1. Tallied[k] = Tally(r, v)
      BY <1>1
    <3>. HIDE DEF r, v
    <3>. QED BY <3>1 DEF Tally
  <2>4. m[k] \in 0..mark /\ m[k - 1] \in 0..mark /\ m[0] \in 0..mark
    BY <1>0, <2>0
  <2>. HIDE DEF r, v
  <2>5. LapSums[k] = m[k] - m[0] /\ r.sum + v = LapSums[k]
    BY <1>0, <2>1, <2>2, <2>4
  <2>6. v \in 0..U32-1
    BY <1>0 DEF v
  <2>7. LapSums[k - 1] \in Nat
    <3>1. TallyOK(r, k - 1)
      BY <2>0, TallyFacts DEF r, L
    <3>. QED BY <2>1, <3>1, ReportNumbers DEF TallyOK
  <2>8. r.sum + v \in Nat /\ r.sum + v < U32
    <3>1. LapSums[k] \in Int /\ LapSums[k] < U32
      <4>1. mark \in Int /\ mark < U32 /\ U32 \in Int
        BY <1>0, ReportNumbers
      <4>2. m[k] \in Int /\ m[0] \in Int /\ m[k] <= mark /\ 0 <= m[0]
        BY <2>4, <4>1
      <4>. QED BY <2>5, <4>1, <4>2
    <3>2. r.sum \in Nat /\ v \in Nat
      BY <2>1, <2>6, <2>7
    <3>. QED BY <2>5, <3>1, <3>2
  <2>9. Tallied[k].sum = LapSums[k]
    BY <2>3, <2>5, <2>8, WordSum
  <2>. QED BY <2>0, <2>5, <2>9
<1>. HIDE DEF G
<1>4. \A k \in 0..L : k \in G
  BY <1>0, <1>2, <1>3, AlongTable
<1>5. P(L)
  BY <1>0, <1>4 DEF G
<1>6. m[0] \in 0..mark
  BY <1>0
<1>. QED BY <1>0, <1>5, <1>6 DEF L

\* An average lies between the bounds of what is averaged.
LEMMA DivBetween ==
    ASSUME NEW s \in Nat, NEW c \in Nat \ {0}, NEW hi \in Nat, s <= c * hi
    PROVE  /\ s \div c \in Nat /\ s \div c <= hi
           /\ \A lo \in Nat : c * lo <= s => lo <= s \div c
<1>. DEFINE q == s \div c
<1>1. q \in Nat /\ c * q <= s /\ s < c * q + c
  OBVIOUS
<1>. HIDE DEF q
<1>2. q <= hi
  <2>. SUFFICES ASSUME hi + 1 <= q PROVE FALSE
    BY <1>1
  <2>1. c * (hi + 1) <= c * q
    BY <1>1
  <2>2. c * (hi + 1) = c * hi + c /\ c * hi \in Int /\ c * q \in Int
    BY <1>1
  <2>. QED BY <1>1, <2>1, <2>2
<1>3. ASSUME NEW lo \in Nat, c * lo <= s PROVE lo <= q
  <2>. SUFFICES ASSUME q + 1 <= lo PROVE FALSE
    BY <1>1
  <2>1. c * (q + 1) <= c * lo
    BY <1>1
  <2>2. c * (q + 1) = c * q + c /\ c * lo \in Int /\ c * q \in Int
    BY <1>1
  <2>. QED BY <1>1, <1>3, <2>1, <2>2
<1>. QED BY <1>1, <1>2, <1>3 DEF q

\* How long numbers are.
LEMMA DigitsBound ==
    ASSUME NEW n \in Nat
    PROVE  /\ Digits(n) \in Nat
           /\ n < 100000 => Digits(n) <= 5 /\ AtLeastTwo(n) <= 5
           /\ n < 100 => Digits(n) <= 2
           /\ AtLeastTwo(n) \in Nat
<1>. DEFINE S == {k \in DOMAIN Tens : n >= Tens[k]}
<1>1. /\ DOMAIN Tens = 1..9
      /\ Tens[2] = 100 /\ Tens[3] = 1000 /\ Tens[4] = 10000 /\ Tens[5] = 100000 /\ Tens[6] = 1000000
      /\ Tens[7] = 10000000 /\ Tens[8] = 100000000 /\ Tens[9] = 1000000000
  BY DEF Tens
<1>2. S \subseteq 1..9
  BY <1>1
<1>3. n < 100000 => S \subseteq 1..4
  <2>. SUFFICES ASSUME n < 100000, NEW k \in S PROVE k \in 1..4
    OBVIOUS
  <2>1. k \in 1..9 /\ n >= Tens[k]
    BY <1>1
  <2>2. k \notin {5, 6, 7, 8, 9}
    BY <1>1, <2>1
  <2>. QED BY <2>1, <2>2
<1>4. n < 100 => S \subseteq 1..1
  <2>. SUFFICES ASSUME n < 100, NEW k \in S PROVE k \in 1..1
    OBVIOUS
  <2>1. k \in 1..9 /\ n >= Tens[k]
    BY <1>1
  <2>2. k \notin {2, 3, 4, 5, 6, 7, 8, 9}
    BY <1>1, <2>1
  <2>. QED BY <2>1, <2>2
<1>. HIDE DEF S
<1>5. /\ IsFiniteSet(1..9)
      /\ IsFiniteSet(1..4) /\ Cardinality(1..4) = 4
      /\ IsFiniteSet(1..1) /\ Cardinality(1..1) = 1
  <2>1. \A b \in Nat \ {0} : IsFiniteSet(1..b) /\ Cardinality(1..b) = b
    BY FS_Interval
  <2>2. 1 \in Nat \ {0} /\ 4 \in Nat \ {0} /\ 9 \in Nat \ {0}
    OBVIOUS
  <2>3. IsFiniteSet(1..1) /\ Cardinality(1..1) = 1
    BY <2>1, <2>2, Zenon
  <2>4. IsFiniteSet(1..4) /\ Cardinality(1..4) = 4
    BY <2>1, <2>2, Zenon
  <2>5. IsFiniteSet(1..9)
    BY <2>1, <2>2, Zenon
  <2>. QED BY <2>3, <2>4, <2>5
<1>6. Cardinality(S) \in Nat
  BY <1>2, <1>5, FS_Subset, FS_CardinalityType
<1>7. n < 100000 => Cardinality(S) <= 4
  BY <1>3, <1>5, FS_Subset
<1>8. n < 100 => Cardinality(S) <= 1
  BY <1>4, <1>5, FS_Subset
<1>9. Digits(n) = 1 + Cardinality(S)
  BY DEF Digits, S
<1>. QED BY <1>6, <1>7, <1>8, <1>9 DEF AtLeastTwo

LEMMA TimeBound ==
    ASSUME NEW ms \in Words
    PROVE  TimeLength(ms) \in Nat /\ TimeLength(ms) <= 11
<1>. DEFINE q == ms \div 60000
<1>1. ms \in 0..U32-1 /\ U32 \in Nat \ {0} /\ (U32 - 1) \div 60000 < 100000
  BY ReportNumbers
<1>2. q \in Nat /\ q < 100000
  BY <1>1
<1>. HIDE DEF q
<1>3. AtLeastTwo(q) \in Nat /\ AtLeastTwo(q) <= 5
  BY <1>2, DigitsBound
<1>. QED BY <1>3 DEF TimeLength, q

-----------------------------------------------------------------------------
\* The lap table between any two operations, and what a report is.
ReportInv ==
    /\ total \in Words /\ mark \in Words
    /\ laps \in Seq(Words) /\ Len(laps) <= MaxLaps
    /\ steps \in 0..MaxSteps /\ turned \in BOOLEAN
    /\ ~turned => mark <= total /\ \E m : Marks(m)
    /\ report = None \/ (laps # << >> /\ report = Tallied[Len(laps)])

LEMMA ReportStart == ReportInit => ReportInv
<1>. SUFFICES ASSUME ReportInit PROVE ReportInv
  OBVIOUS
<1>1. total = 0 /\ mark = 0 /\ laps = << >> /\ report = None /\ steps = 0 /\ turned = FALSE
  BY DEF ReportInit
<1>2. Marks([x \in 0..0 |-> 0])
  BY <1>1 DEF Marks
<1>3. 0 \in Words /\ 0 \in 0..MaxSteps /\ 0 <= MaxLaps /\ 0 <= 0
  BY ReportNumbers
<1>. QED BY <1>1, <1>2, <1>3 DEF ReportInv

\* A new lap adjoins the ones that are kept.
LEMMA LapStep ==
    ASSUME ReportInv, stopwatch_lap
    PROVE  ReportInv'
<1>. DEFINE L == Len(laps)
            kept == IF L < MaxLaps THEN laps ELSE Tail(laps)
<1>0. /\ total \in 0..U32-1 /\ mark \in 0..U32-1 /\ laps \in Seq(Words) /\ L \in Nat /\ L <= MaxLaps
      /\ U32 \in Nat \ {0} /\ MaxLaps \in Nat \ {0} /\ Words = 0..U32-1
  BY ReportNumbers DEF ReportInv
<1>1. /\ laps' = Append(kept, LapMs) /\ mark' = total /\ report' = None
      /\ total' = total /\ steps' = steps /\ turned' = turned
  BY DEF stopwatch_lap
<1>2. LapMs \in Words
  BY <1>0 DEF LapMs
<1>3. /\ kept \in Seq(Words) /\ Len(kept) = IF L < MaxLaps THEN L ELSE L - 1
      /\ Len(kept) \in Nat /\ Len(kept) + 1 <= MaxLaps
      /\ \A x \in 1..Len(kept) : kept[x] = laps[IF L < MaxLaps THEN x ELSE x + 1]
  <2>1. CASE L < MaxLaps
    BY <1>0, <2>1
  <2>2. CASE ~(L < MaxLaps)
    <3>1. L = MaxLaps /\ laps # << >> /\ kept = Tail(laps)
      BY <1>0, <2>2
    <3>2. Tail(laps) \in Seq(Words) /\ Len(Tail(laps)) = L - 1
      BY <1>0, <3>1
    <3>3. \A x \in 1..L-1 : Tail(laps)[x] = laps[x + 1]
      BY <1>0, <3>1
    <3>. QED BY <1>0, <2>2, <3>1, <3>2, <3>3
  <2>. QED BY <2>1, <2>2
<1>. DEFINE K == Len(kept)
<1>. HIDE DEF kept, K
<1>4. /\ laps' \in Seq(Words) /\ Len(laps') = K + 1 /\ Len(laps') <= MaxLaps
      /\ \A x \in 1..K : laps'[x] = kept[x]
      /\ laps'[K + 1] = LapMs
  BY <1>1, <1>2, <1>3 DEF K
<1>5. ASSUME ~turned PROVE total <= total /\ \E m : Marks(m)'
  <2>1. mark <= total
    BY <1>5 DEF ReportInv
  <2>2. PICK m : Marks(m)
    BY <1>5 DEF ReportInv
  <2>3. LapMs = total - mark
    <3>1. total - mark \in Nat /\ total - mark < U32
      BY <1>0, <2>1
    <3>. QED BY <3>1, WordSum DEF LapMs
  <2>. DEFINE d == IF L < MaxLaps THEN 0 ELSE 1
              m2 == [x \in 0..K+1 |-> IF x <= K THEN m[x + d] ELSE total]
  <2>4. K + d = L /\ K \in Nat /\ d \in {0, 1}
    BY <1>0, <1>3 DEF K
  <2>5. \A x \in 0..L : m[x] \in 0..mark /\ m[x] \in 0..total
    BY <1>0, <2>1, <2>2 DEF Marks
  <2>6. m[L] = mark /\ \A x \in 1..L : laps[x] = m[x] - m[x - 1]
    BY <2>2 DEF Marks
  <2>7. \A x \in 1..K : kept[x] = laps[x + d]
    BY <1>0, <1>3 DEF K
  <2>. HIDE DEF d
  <2>8. m2 \in [0..K+1 -> 0..total] /\ m2[K + 1] = total
    <3>1. \A x \in 0..K : m[x + d] \in 0..total
      BY <2>4, <2>5
    <3>2. \A x \in 0..K+1 : x <= K \/ x = K + 1
      BY <2>4
    <3>3. \A x \in 0..K+1 : x <= K => x \in 0..K
      BY <2>4
    <3>4. \A x \in 0..K+1 : (IF x <= K THEN m[x + d] ELSE total) \in 0..total
      BY <1>0, <3>1, <3>3
    <3>5. K + 1 \in 0..K+1 /\ ~(K + 1 <= K)
      BY <2>4
    <3>. QED BY <3>4, <3>5
  <2>9. ASSUME NEW x \in 1..K+1 PROVE laps'[x] = m2[x] - m2[x - 1]
    <3>1. CASE x = K + 1
      <4>1. m2[x] = total /\ m2[x - 1] = m[K + d]
        BY <2>4, <3>1
      <4>. QED BY <1>4, <2>3, <2>4, <2>6, <3>1, <4>1
    <3>2. CASE x # K + 1
      <4>1. x \in 1..K /\ x - 1 \in 0..K /\ x \in 0..K+1 /\ x - 1 \in 0..K+1
        BY <2>4, <3>2
      <4>2. m2[x] = m[x + d] /\ m2[x - 1] = m[(x - 1) + d]
        BY <2>4, <4>1
      <4>3. x + d \in 1..L /\ (x + d) - 1 = (x - 1) + d
        BY <2>4, <4>1
      <4>4. laps'[x] = laps[x + d]
        BY <1>4, <2>7, <4>1
      <4>5. laps[x + d] = m[x + d] - m[(x - 1) + d]
        BY <2>6, <4>3
      <4>. QED BY <4>2, <4>4, <4>5
    <3>. QED BY <3>1, <3>2
  <2>. HIDE DEF m2
  <2>10. PICK c : c = m2
    OBVIOUS
  <2>11. /\ c \in [0..Len(laps') -> 0..mark'] /\ c[Len(laps')] = mark'
         /\ \A x \in 1..Len(laps') : laps'[x] = c[x] - c[x - 1]
    BY <1>1, <1>4, <2>8, <2>9, <2>10
  <2>12. Marks(c)'
    BY <2>11 DEF Marks
  <2>. QED BY <1>0, <2>12
<1>. QED BY <1>0, <1>1, <1>4, <1>5 DEF ReportInv

LEMMA ReportStep == ReportInv /\ [ReportNext]_reportvars => ReportInv'
<1>. SUFFICES ASSUME ReportInv, [ReportNext]_reportvars PROVE ReportInv'
  OBVIOUS
<1>0. /\ total \in 0..U32-1 /\ mark \in 0..U32-1 /\ laps \in Seq(Words)
      /\ U32 \in Nat \ {0} /\ Words = 0..U32-1 /\ MaxSteps \in Nat /\ MaxLaps \in Nat
      /\ steps \in 0..MaxSteps /\ turned \in BOOLEAN
  BY ReportNumbers DEF ReportInv
<1>1. ASSUME NEW ms \in Steps, Elapse(ms) PROVE ReportInv'
  <2>1. /\ steps < MaxSteps /\ total' = (total + ms) % U32
        /\ turned' = (turned \/ total + ms >= U32) /\ steps' = steps + 1 /\ report' = None
        /\ mark' = mark /\ laps' = laps
    BY <1>1 DEF Elapse
  <2>2. ms \in Nat /\ total + ms \in Nat
    BY <1>0, ReportNumbers
  <2>3. total' \in 0..U32-1 /\ (total + ms < U32 => total' = total + ms)
    BY <2>1, <2>2, WordSum
  <2>4. steps' \in 0..MaxSteps /\ turned' \in BOOLEAN
    BY <1>0, <2>1
  <2>5. ASSUME ~turned' PROVE mark' <= total' /\ \E m : Marks(m)'
    <3>1. ~turned /\ total + ms < U32
      <4>1. turned' <=> (turned \/ total + ms >= U32)
        BY <2>1
      <4>2. ~turned /\ ~(total + ms >= U32)
        BY <2>5, <4>1, Zenon
      <4>. QED BY <1>0, <2>2, <4>2
    <3>2. mark <= total /\ \E m : Marks(m)
      BY <3>1 DEF ReportInv
    <3>3. mark' <= total'
      BY <1>0, <2>1, <2>2, <2>3, <3>1, <3>2
    <3>. QED BY <2>1, <3>2, <3>3 DEF Marks
  <2>. QED BY <1>0, <2>1, <2>3, <2>4, <2>5 DEF ReportInv
<1>2. CASE stopwatch_lap
  BY <1>2, LapStep
<1>3. CASE stopwatch_clear_laps
  <2>1. /\ laps' = << >> /\ mark' = total /\ report' = None
        /\ total' = total /\ steps' = steps /\ turned' = turned
    BY <1>3 DEF stopwatch_clear_laps
  <2>2. Marks([x \in 0..0 |-> total])'
    BY <1>0, <2>1 DEF Marks
  <2>3. \E m : Marks(m)'
    BY <2>2
  <2>. QED BY <1>0, <2>1, <2>3 DEF ReportInv
<1>4. CASE stopwatch_reset
  <2>1. /\ laps' = << >> /\ mark' = 0 /\ report' = None
        /\ total' = 0 /\ steps' = steps /\ turned' = FALSE
    BY <1>4 DEF stopwatch_reset
  <2>2. Marks([x \in 0..0 |-> 0])'
    BY <2>1 DEF Marks
  <2>3. \E m : Marks(m)'
    BY <2>2
  <2>4. 0 \in Words /\ 0 <= 0 /\ << >> \in Seq(Words) /\ Len(<< >>) <= MaxLaps
    BY <1>0
  <2>. QED BY <1>0, <2>1, <2>3, <2>4 DEF ReportInv
<1>5. CASE Report
  <2>1. /\ laps # << >> /\ report' = Tallied[Len(laps)]
        /\ laps' = laps /\ mark' = mark /\ total' = total /\ steps' = steps /\ turned' = turned
    BY <1>5 DEF Report
  <2>2. Tallied' = Tallied
    BY <2>1 DEF Tallied
  <2>3. (~turned => mark <= total /\ \E m : Marks(m))'
    BY <2>1 DEF ReportInv, Marks
  <2>. QED BY <1>0, <2>1, <2>2, <2>3 DEF ReportInv
<1>6. CASE UNCHANGED reportvars
  <2>1. /\ laps' = laps /\ mark' = mark /\ total' = total /\ steps' = steps /\ turned' = turned
        /\ report' = report
    BY <1>6 DEF reportvars
  <2>2. Tallied' = Tallied
    BY <2>1 DEF Tallied
  <2>3. (~turned => mark <= total /\ \E m : Marks(m))'
    BY <2>1 DEF ReportInv, Marks
  <2>. QED BY <1>0, <2>1, <2>2, <2>3 DEF ReportInv
<1>. QED BY <1>1, <1>2, <1>3, <1>4, <1>5, <1>6 DEF ReportNext

\* A report of a table that is not empty.
LEMMA ReportOfLaps ==
    ASSUME laps \in Seq(Words), laps # << >>, report = Tallied[Len(laps)]
    PROVE  /\ TallyOK(report, Len(laps)) /\ Len(laps) \in Nat \ {0}
           /\ LapSums[Len(laps)] \in Nat /\ report.sum <= LapSums[Len(laps)]
           /\ avg_ms \in Nat /\ avg_ms <= report.max
           /\ report.sum = LapSums[Len(laps)] => report.min <= avg_ms
<1>. DEFINE L == Len(laps)
            lo == report.min
            hi == report.max
            s == report.sum
            S == LapSums[L]
<1>1. L \in Nat \ {0}
  OBVIOUS
<1>2. TallyOK(report, L)
  BY <1>1, TallyFacts
<1>3. /\ lo \in Nat /\ hi \in Nat /\ s \in Nat /\ report.cnt = L
      /\ \A x \in 1..L : lo <= laps[x] /\ laps[x] <= hi
  BY <1>2, ReportNumbers DEF TallyOK
<1>. HIDE DEF lo, hi
<1>4. S \in Nat /\ L * lo <= S /\ S <= L * hi /\ s <= S
  <2>1. L \in 0..Len(laps)
    BY <1>1
  <2>. QED BY <1>3, <2>1, SumBounds
<1>. HIDE DEF L, s, S
<1>5. s <= L * hi
  <2>1. L * hi \in Int
    BY <1>1, <1>3
  <2>. QED BY <1>3, <1>4, <2>1
<1>6. /\ s \div L \in Nat /\ s \div L <= hi /\ (L * lo <= s => lo <= s \div L)
  BY <1>1, <1>3, <1>5, DivBetween
<1>7. avg_ms = s \div L
  BY <1>3 DEF avg_ms, s
<1>. QED BY <1>1, <1>2, <1>4, <1>6, <1>7 DEF L, lo, hi, s, S

LEMMA ReportMeans == ReportInv => ReportSound
<1>. SUFFICES ASSUME ReportInv PROVE ReportSound
  OBVIOUS
<1>. DEFINE L == Len(laps)
            filled == laps # << >> /\ report = Tallied[L]
<1>0. /\ total \in Words /\ mark \in Words /\ laps \in Seq(Words) /\ L \in Nat /\ L <= MaxLaps
      /\ steps \in 0..MaxSteps /\ turned \in BOOLEAN
      /\ report = None \/ filled
      /\ MaxLaps \in Nat /\ MaxLaps < 100
  BY ReportNumbers DEF ReportInv
<1>1. ASSUME filled
      PROVE  /\ TallyOK(report, L) /\ L \in Nat \ {0}
             /\ LapSums[L] \in Nat /\ report.sum <= LapSums[L]
             /\ avg_ms \in Nat /\ avg_ms <= report.max
             /\ report.sum = LapSums[L] => report.min <= avg_ms
  BY <1>0, <1>1, ReportOfLaps
<1>. HIDE DEF L, filled
<1>2. None.cnt = 0 /\ None \in [min: Words, max: Words, sum: Words, cnt: 0..MaxLaps]
  BY ReportNumbers DEF None
<1>3. ReportTypeOK
  <2>1. report \in [min: Words, max: Words, sum: Words, cnt: 0..MaxLaps]
    <3>1. CASE filled
      <4>1. /\ report = [min |-> report.min, max |-> report.max, sum |-> report.sum, cnt |-> report.cnt]
            /\ report.min \in Words /\ report.max \in Words /\ report.sum \in Words /\ report.cnt = L
        BY <1>1, <3>1 DEF TallyOK
      <4>2. report.cnt \in 0..MaxLaps
        BY <1>0, <4>1
      <4>. QED BY <4>1, <4>2
    <3>. QED BY <1>0, <1>2, <3>1
  <2>. QED BY <1>0, <2>1 DEF ReportTypeOK, L
<1>4. ReportExact
  <2>. SUFFICES ASSUME report.cnt > 0, ~turned
                PROVE  /\ report.cnt = Len(laps)
                       /\ report.min \in Range(laps) /\ report.max \in Range(laps)
                       /\ \A x \in DOMAIN laps : report.min <= laps[x] /\ laps[x] <= report.max
                       /\ report.sum = LapSums[Len(laps)]
                       /\ report.min <= avg_ms /\ avg_ms <= report.max
                       /\ LapSums[Len(laps)] <= total
    BY DEF ReportExact
  <2>1. filled
    BY <1>0, <1>2
  <2>2. /\ report.cnt = L /\ DOMAIN laps = 1..L
        /\ \A x \in 1..L : report.min <= laps[x] /\ laps[x] <= report.max
        /\ (\E x \in 1..L : report.min = laps[x]) /\ (\E x \in 1..L : report.max = laps[x])
    <3>1. DOMAIN laps = 1..L
      BY <1>0 DEF L
    <3>. QED BY <1>1, <2>1, <3>1 DEF TallyOK
  <2>3. report.min \in Range(laps) /\ report.max \in Range(laps)
    BY <2>2 DEF Range
  <2>4. PICK m : Marks(m)
    BY DEF ReportInv
  <2>5. report.sum = LapSums[L] /\ LapSums[L] <= mark
    BY <1>0, <2>1, <2>4, SumExact DEF filled, L
  <2>6. LapSums[L] <= total
    <3>1. mark <= total /\ mark \in Nat /\ total \in Nat
      BY <1>0, ReportNumbers DEF ReportInv
    <3>. QED BY <1>1, <2>1, <2>5, <3>1
  <2>. QED BY <1>1, <2>1, <2>2, <2>3, <2>5, <2>6 DEF L
<1>5. /\ Columns \in Nat /\ Columns >= 120 /\ Buffer \in Nat /\ Buffer > 20
      /\ TimeBuffer \in Nat /\ TimeBuffer > 11
  BY ReportNumbers
<1>6. TimesWhole
  <2>1. TimeLength(total) \in Nat /\ TimeLength(total) <= 11
    BY <1>0, TimeBound
  <2>2. Whole(TimeLength(total), Buffer, OLED_8X16, 0)
    BY <1>5, <2>1 DEF Whole, OLED_8X16
  <2>3. ASSUME NEW x \in DOMAIN laps
        PROVE  /\ TimeLength(laps[x]) < TimeBuffer
               /\ Whole(RowLength(x), Buffer, OLED_6X8, 0)
               /\ Whole(TimeLength(laps[x]), Buffer, OLED_6X8, 30)
    <3>1. x \in 1..L /\ laps[x] \in Words
      BY <1>0 DEF L
    <3>2. TimeLength(laps[x]) \in Nat /\ TimeLength(laps[x]) <= 11
      BY <3>1, TimeBound
    <3>3. Digits(x) \in Nat /\ Digits(x) <= 2
      <4>1. x \in Nat /\ x < 100
        BY <1>0, <3>1
      <4>. QED BY <4>1, DigitsBound
    <3>4. RowLength(x) \in Nat /\ RowLength(x) <= 15
      BY <3>2, <3>3 DEF RowLength
    <3>. QED BY <1>5, <3>2, <3>4 DEF Whole, OLED_6X8
  <2>. QED BY <2>2, <2>3 DEF TimesWhole
<1>7. StatWhole
  <2>. SUFFICES ASSUME report.cnt > 0, report.max < 100000
                PROVE  Whole(StatLength, Buffer, OLED_6X8, 0)
    BY DEF StatWhole
  <2>1. filled
    BY <1>0, <1>2
  <2>2. report.min \in Nat /\ report.max \in Nat /\ report.min <= report.max
    <3>1. /\ report.min \in Words /\ report.max \in Words
          /\ \E x \in 1..L : report.min = laps[x] /\ laps[x] <= report.max
      BY <1>1, <2>1 DEF TallyOK
    <3>. QED BY <3>1, ReportNumbers
  <2>3. avg_ms \in Nat /\ avg_ms < 100000 /\ report.min < 100000
    BY <1>1, <2>1, <2>2
  <2>4. /\ Digits(report.min) \in Nat /\ Digits(report.min) <= 5
    BY <2>2, <2>3, DigitsBound
  <2>5. /\ Digits(report.max) \in Nat /\ Digits(report.max) <= 5
    BY <2>2, DigitsBound
  <2>6. /\ Digits(avg_ms) \in Nat /\ Digits(avg_ms) <= 5
    BY <2>3, DigitsBound
  <2>7. StatLength \in Nat /\ StatLength <= 20
    BY <2>4, <2>5, <2>6 DEF StatLength
  <2>. QED BY <1>5, <2>7 DEF Whole, OLED_6X8
<1>. QED BY <1>3, <1>4, <1>6, <1>7 DEF ReportSound

\* For every table size below 100, every width of the words and every sequence of
\* laps: a report's minimum, maximum and average are those of the laps that are
\* kept, the 32-bit sum does not overflow while the total has not, and the texts
\* fit their buffers and the panel.
THEOREM ReportCorrect == ReportSpec => []ReportSound
<1>1. ReportInit => ReportInv
  BY ReportStart
<1>2. ReportInv /\ [ReportNext]_reportvars => ReportInv'
  BY ReportStep
<1>3. ReportInv => ReportSound
  BY ReportMeans
<1>. QED BY <1>1, <1>2, <1>3, PTL DEF ReportSpec
=============================================================================
