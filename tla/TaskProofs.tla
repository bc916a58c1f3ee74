----------------------------- MODULE TaskProofs -----------------------------
(***************************************************************************)
(* Proofs about the tasks that MCTasks runs side by side, for every value  *)
(* of their constants.                                                     *)
(*                                                                         *)
(* What the user sees: the main page is always drawn over its own labels,  *)
(* a list that no command disturbs is the page and the statistics of the   *)
(* table, and the indicator LEDs show the state of the stopwatch in time.  *)
(* Serial input, for every ring size, byte alphabet and semaphore bound.   *)
(* The light link, for every counter width above the debounce length.  The *)
(* dispatch of a line, for every line and every table of commands.         *)
(***************************************************************************)
EXTENDS MCTasks, WellFoundedInduction, TLAPS

-----------------------------------------------------------------------------
(* Least elements.                                                         *)

\* A set of naturals that is not empty has a least element, which is its Min.
LEMMA LeastOf ==
    ASSUME NEW T, T \subseteq Nat, T # {}
    PROVE  Min(T) \in T /\ \A y \in T : Min(T) <= y
<1>1. PICK x \in T : \A y \in T : ~(<<y, x>> \in OpToRel(<, Nat))
  BY NatLessThanWellFounded, WFMin, Zenon
<1>2. ASSUME NEW y \in T PROVE x <= y
  <2>1. ~(<<y, x>> \in OpToRel(<, Nat))
    BY <1>1, Zenon
  <2>2. ~(y < x)
    BY <2>1, Zenon DEF OpToRel
  <2>. QED BY <2>2
<1>3. \E z \in T : \A y \in T : z <= y
  BY <1>2
<1>. QED BY <1>3 DEF Min

\* There is no other.
LEMMA LeastIs ==
    ASSUME NEW T, T \subseteq Nat, NEW x \in T, \A y \in T : x <= y
    PROVE  Min(T) = x
<1>1. Min(T) \in T /\ Min(T) <= x
  BY LeastOf
<1>2. x <= Min(T)
  BY <1>1
<1>3. Min(T) \in Nat /\ x \in Nat
  BY <1>1
<1>. QED BY <1>1, <1>2, <1>3

\* Induction along a table: a set that has 0 and with every place the next one.
LEMMA Along ==
    ASSUME NEW n \in Nat, NEW G, 0 \in G, \A k \in 1..n : k - 1 \in G => k \in G
    PROVE  \A k \in 0..n : k \in G
<1>. DEFINE T == {k \in 0..n : k \notin G}
<1>. SUFFICES ASSUME T # {} PROVE FALSE
  OBVIOUS
<1>. DEFINE m == Min(T)
<1>1. m \in T /\ \A y \in T : m <= y
  BY LeastOf
<1>. HIDE DEF m
<1>2. m \in 1..n /\ m \notin G /\ m - 1 \in 0..n /\ ~(m <= m - 1)
  BY <1>1
<1>3. m - 1 \in G
  BY <1>1, <1>2
<1>. QED BY <1>2, <1>3

-----------------------------------------------------------------------------
(* The display.                                                            *)

\* The display has the five parts of Blank.
Framed == \E p, t, l, r, st :
    screen = [page |-> p, time |-> t, lap |-> l, rows |-> r, stat |-> st]

InMain == ui_pc \in {"drawn", "time", "lap"}
InList == ui_pc \in {"laps", "clamp", "rows", "stat", "update"}

\* Why MainClean holds: the labels are there from the moment they are drawn to
\* the end of the frame; if the flag is set while the main page is selected they
\* are there and no list is being drawn over them; and a main frame that has
\* begun and finds the flag set finds the labels.  The flag may well be set
\* with the list on the screen, but then the list is selected, and leaving it
\* clears the flag.
LabelInv ==
    /\ s_page \in {"main", "laps"}
    /\ Framed
    /\ MainClean
    /\ InMain => screen.page = "main"
    /\ s_page_drawn /\ s_page = "main" => screen.page = "main" /\ ~InList
    /\ s_page_drawn /\ ui_pc = "main" => screen.page = "main"

\* At power-up nothing is drawn.
LEMMA LabelInit == UiInit => LabelInv
<1>. SUFFICES ASSUME UiInit PROVE LabelInv
  OBVIOUS
<1>1. screen = [page |-> "boot", time |-> FALSE, lap |-> <<>>, rows |-> <<>>, stat |-> <<>>]
  BY DEF UiInit, Blank
<1>2. Framed
  BY <1>1 DEF Framed
<1>. QED BY <1>1, <1>2 DEF UiInit, LabelInv, MainClean, InMain, InList

\* Every step of the OLED thread keeps it.
LEMMA LabelUi == LabelInv /\ UiStep => LabelInv'
<1>. SUFFICES ASSUME LabelInv, UiStep PROVE LabelInv'
  OBVIOUS
<1>. USE DEF LabelInv, MainClean, InMain, InList, shared, frame
<1>1. CASE FrameBegin
  BY <1>1 DEF FrameBegin, Framed
<1>2. CASE MainLabels
  <2>1. CASE s_page_drawn
    BY <1>2, <2>1 DEF MainLabels, Framed
  <2>2. CASE ~s_page_drawn
    <3>1. screen' = [page |-> "main", time |-> FALSE, lap |-> <<>>, rows |-> <<>>, stat |-> <<>>]
      BY <1>2, <2>2 DEF MainLabels, Blank
    <3>. QED BY <1>2, <2>2, <3>1 DEF MainLabels, Framed
  <2>. QED BY <2>1, <2>2
<1>3. CASE MainDrawn
  BY <1>3 DEF MainDrawn, Framed
<1>4. CASE MainTime
  <2>1. PICK p, t, l, r, st :
          screen = [page |-> p, time |-> t, lap |-> l, rows |-> r, stat |-> st]
    BY DEF Framed
  <2>2. screen' = [page |-> p, time |-> TRUE, lap |-> l, rows |-> r, stat |-> st]
    BY <1>4, <2>1 DEF MainTime
  <2>. QED BY <1>4, <2>1, <2>2 DEF MainTime, Framed
<1>5. CASE MainLap
  <2>1. PICK p, t, l, r, st :
          screen = [page |-> p, time |-> t, lap |-> l, rows |-> r, stat |-> st]
    BY DEF Framed
  <2>2. PICK v : screen' = [page |-> p, time |-> t, lap |-> v, rows |-> r, stat |-> st]
    BY <1>5, <2>1 DEF MainLap
  <2>. QED BY <1>5, <2>1, <2>2 DEF MainLap, Framed
<1>6. CASE LapsCount \/ LapsClamp \/ LapsRow \/ LapsStat
  BY <1>6 DEF LapsCount, LapsClamp, LapsRow, LapsStat, Framed
<1>7. CASE LapsUpdate
  <2>1. PICK r, st : screen' = [page |-> "laps", time |-> FALSE, lap |-> <<>>, rows |-> r, stat |-> st]
    BY <1>7 DEF LapsUpdate
  <2>2. Framed'
    BY <2>1 DEF Framed
  <2>. QED BY <1>7, <2>1, <2>2 DEF LapsUpdate
<1>. QED BY <1>1, <1>2, <1>3, <1>4, <1>5, <1>6, <1>7 DEF UiStep

\* Every command keeps it.
LEMMA LabelShell == LabelInv /\ UiShellStep => LabelInv'
<1>. SUFFICES ASSUME LabelInv, UiShellStep PROVE LabelInv'
  OBVIOUS
<1>. USE DEF LabelInv, MainClean, InMain, InList, Framed, Command, frame
<1>1. ASSUME NEW page \in {"main", "laps"}, ui_oled_set_page(page) PROVE LabelInv'
  BY <1>1 DEF ui_oled_set_page
<1>2. CASE ui_oled_laps_prev \/ ui_oled_laps_next
  BY <1>2 DEF ui_oled_laps_prev, ui_oled_laps_next
<1>3. ASSUME NEW v \in LapValues, Lap(v) PROVE LabelInv'
  BY <1>3 DEF Lap
<1>4. CASE ClearLaps
  BY <1>4 DEF ClearLaps
<1>. QED BY <1>1, <1>2, <1>3, <1>4 DEF UiShellStep

\* However sw_page falls into a frame, the time and the latest lap are only ever
\* drawn over the main page's labels.
THEOREM MainPageClean == UiSpec => []MainClean
<1>1. LabelInv /\ [UiNext]_uivars => LabelInv'
  <2>1. LabelInv /\ UNCHANGED uivars => LabelInv'
    <3>. SUFFICES ASSUME LabelInv, UNCHANGED <<s_page, s_page_drawn, ui_pc, screen>>
                  PROVE  LabelInv'
      BY DEF uivars, shared
    <3>1. Framed'
      BY DEF LabelInv, Framed
    <3>. QED BY <3>1 DEF LabelInv, MainClean, InMain, InList
  <2>. QED BY <2>1, LabelUi, LabelShell DEF UiNext
<1>2. LabelInv => MainClean
  BY DEF LabelInv
<1>. QED BY <1>1, <1>2, LabelInit, PTL DEF UiSpec

\* Numbers of the display stay in range; while a list is drawn the statistics
\* start from NoStat, i counts the rows, and a sum of i laps is at most i * MaxMs.
UiRange ==
    /\ UiTypeOK
    /\ rows \in Seq(Nat \X Nat)
    /\ stat \in [min: 0..MaxMs, max: 0..MaxMs, sum: Nat]
    /\ ui_pc \in {"clamp", "rows"} => stat = NoStat
    /\ ui_pc = "clamp" => i = 0 /\ rows = <<>>
    /\ ui_pc = "rows" => i = Len(rows)
    /\ ui_pc = "stat" => i <= cnt /\ stat.sum <= i * MaxMs

\* A table is a sequence of at most MAX_LAPS laps.
LEMMA TableOf ==
    ASSUME NEW tab \in Tables
    PROVE  /\ tab \in Seq(LapValues) /\ Len(tab) \in 0..MAX_LAPS /\ DOMAIN tab = 1..Len(tab)
           /\ \A k \in 1..Len(tab) : tab[k] \in 0..MaxMs
<1>1. PICK n \in 0..MAX_LAPS : tab \in [1..n -> LapValues]
  BY DEF Tables
<1>2. n \in Nat /\ Len(tab) = n /\ DOMAIN tab = 1..n /\ tab \in Seq(LapValues)
  BY <1>1, UiConstants
<1>3. \A k \in 1..n : tab[k] \in LapValues
  BY <1>1
<1>. QED BY <1>1, <1>2, <1>3, UiConstants

\* Any such sequence is a table.
LEMMA IsTable ==
    ASSUME NEW tab \in Seq(LapValues), Len(tab) <= MAX_LAPS
    PROVE  tab \in Tables
<1>1. Len(tab) \in 0..MAX_LAPS /\ tab \in [1..Len(tab) -> LapValues]
  BY UiConstants
<1>. QED BY <1>1 DEF Tables

\* What one lap adds to a sum.
LEMMA OneMore ==
    ASSUME NEW a \in Nat, NEW v \in 0..MaxMs, NEW k \in Nat, NEW n \in Nat, a <= k * MaxMs, k < n, n <= MAX_LAPS
    PROVE  a + v <= (k + 1) * MaxMs /\ a + v <= MAX_LAPS * MaxMs
<1>. DEFINE p == k * MaxMs
            q == (k + 1) * MaxMs
            r == MAX_LAPS * MaxMs
<1>1. MaxMs \in Nat /\ MAX_LAPS \in Nat
  BY UiConstants
<1>2. p \in Nat /\ q \in Nat /\ r \in Nat /\ q = p + MaxMs
  BY <1>1
<1>3. q <= r
  <2>1. PICK d \in Nat : MAX_LAPS = (k + 1) + d
    <3>1. MAX_LAPS - (k + 1) \in Nat /\ MAX_LAPS = (k + 1) + (MAX_LAPS - (k + 1))
      BY <1>1
    <3>. QED BY <3>1
  <2>2. r = q + d * MaxMs /\ d * MaxMs \in Nat
    BY <1>1, <2>1
  <2>. QED BY <1>2, <2>2
<1>4. a <= p
  OBVIOUS
<1>. HIDE DEF p, q, r
<1>5. a + v <= q /\ a + v <= r
  BY <1>1, <1>2, <1>3, <1>4
<1>. QED BY <1>5 DEF q, r

\* A neighbouring multiple.
LEMMA NextMultiple ==
    ASSUME NEW m \in Nat \ {0}, NEW x \in Int, NEW y \in Int, x % m = 0, y = x + m \/ y = x - m
    PROVE  y % m = 0
<1>. DEFINE q == x \div m
            r == y \div m
            e == y % m
<1>1. q \in Int /\ r \in Int /\ e \in 0..m-1 /\ x = m * q /\ y = m * r + e
  OBVIOUS
<1>2. PICK d \in Int : y = m * d
  <2>1. CASE y = x + m
    <3>1. q + 1 \in Int /\ y = m * (q + 1)
      BY <1>1, <2>1
    <3>. QED BY <3>1, Zenon
  <2>2. CASE y = x - m
    <3>1. q - 1 \in Int /\ y = m * (q - 1)
      BY <1>1, <2>2
    <3>. QED BY <3>1, Zenon
  <2>. QED BY <2>1, <2>2
<1>. HIDE DEF q, r, e
<1>3. PICK j \in Int : j = d - r
  BY <1>1
<1>4. m * j = e
  BY <1>1, <1>2, <1>3
<1>5. ~(j >= 1)
  BY <1>1, <1>4
<1>6. ~(j <= -1)
  BY <1>1, <1>4
<1>7. j = 0
  BY <1>5, <1>6
<1>8. e = 0
  BY <1>4, <1>7
<1>. QED BY <1>8 DEF e

\* Pages begin at multiples of PageRows.
OnPage(k) == k % PageRows = 0

LEMMA PageSteps ==
    ASSUME NEW k \in Nat, OnPage(k)
    PROVE  OnPage(0) /\ OnPage(k + PageRows) /\ OnPage(k - PageRows)
<1>1. PageRows \in Nat \ {0} /\ k \in Int /\ k + PageRows \in Int /\ k - PageRows \in Int
  BY UiConstants
<1>2. PICK m \in Nat \ {0} : m = PageRows
  BY <1>1
<1>3. PICK y \in Int : y = k + m
  BY <1>1, <1>2
<1>4. PICK z \in Int : z = k - m
  BY <1>1, <1>2
<1>5. k % m = 0
  BY <1>2, Zenon DEF OnPage
<1>6. y % m = 0
  BY <1>1, <1>3, <1>5, NextMultiple
<1>7. z % m = 0
  BY <1>1, <1>4, <1>5, NextMultiple
<1>8. 0 % m = 0
  OBVIOUS
<1>. QED BY <1>2, <1>3, <1>4, <1>6, <1>7, <1>8, Zenon DEF OnPage

\* At power-up.
LEMMA RangeInit == UiInit => UiRange
<1>. SUFFICES ASSUME UiInit PROVE UiRange
  OBVIOUS
<1>1. /\ PageRows \in Nat \ {0} /\ MAX_LAPS \in Nat \ {0} /\ MaxMs \in Nat /\ MaxCmds \in Nat
      /\ MAX_LAPS * MaxMs \in Nat
  BY UiConstants
<1>2. 0 \in {k \in 0..MAX_LAPS-1 : k % PageRows = 0}
  BY <1>1
<1>3. stat = [min |-> MaxMs, max |-> 0, sum |-> 0] /\ screen.page = "boot"
  BY DEF UiInit, NoStat, Blank
<1>4. rows \in Seq(Nat \X Nat) /\ Len(rows) = 0
  BY DEF UiInit
<1>5. UiTypeOK
  <2>1. /\ cnt = 0 /\ i = 0 /\ cmds = 0 /\ ui_pc = "delay" /\ s_page = "main" /\ s_page_drawn = FALSE
        /\ laps \in Tables /\ s_laps_offset = 0 /\ touched = FALSE
    BY DEF UiInit
  <2>2. stat.min \in 0..MaxMs /\ stat.max \in 0..MaxMs /\ stat.sum \in 0..MAX_LAPS*MaxMs
    BY <1>1, <1>3
  <2>3. 0 \in 0..MAX_LAPS /\ 0 \in 0..MaxCmds /\ Len(rows) <= PageRows
    BY <1>1, <1>4
  <2>. QED BY <1>2, <1>3, <2>1, <2>2, <2>3 DEF UiTypeOK
<1>. QED BY <1>1, <1>3, <1>4, <1>5 DEF UiInit, UiRange

\* Every step of the OLED thread.
LEMMA RangeUi == LabelInv /\ UiRange /\ UiStep => UiRange'
<1>. SUFFICES ASSUME LabelInv, UiRange, UiStep PROVE UiRange'
  OBVIOUS
<1>0. /\ PageRows \in Nat \ {0} /\ MAX_LAPS \in Nat \ {0} /\ MaxMs \in Nat /\ MaxCmds \in Nat
      /\ MAX_LAPS * MaxMs \in Nat
  BY UiConstants
<1>a. /\ Len(laps) \in 0..MAX_LAPS /\ \A k \in 1..Len(laps) : laps[k] \in 0..MaxMs
  BY TableOf DEF UiRange, UiTypeOK
<1>b. 0 \in {k \in 0..MAX_LAPS-1 : k % PageRows = 0}
  BY <1>0
<1>1. CASE FrameBegin
  BY <1>1 DEF FrameBegin, UiRange, UiTypeOK, shared, frame
<1>2. CASE MainLabels
  BY <1>2 DEF MainLabels, UiRange, UiTypeOK, shared, frame, Blank
<1>3. CASE MainDrawn
  BY <1>3 DEF MainDrawn, UiRange, UiTypeOK, frame
<1>4. CASE MainTime
  <2>1. screen'.page = screen.page
    BY <1>4 DEF MainTime, LabelInv, Framed
  <2>. QED BY <1>a, <1>4, <2>1 DEF MainTime, UiRange, UiTypeOK, shared
<1>5. CASE MainLap
  <2>1. screen'.page = screen.page
    BY <1>5 DEF MainLap, LabelInv, Framed
  <2>. QED BY <1>5, <2>1 DEF MainLap, UiRange, UiTypeOK, shared, frame
<1>6. CASE LapsCount
  <2>1. stat' = [min |-> MaxMs, max |-> 0, sum |-> 0] /\ stat' = NoStat
    BY <1>6 DEF LapsCount, NoStat
  <2>2. rows' \in Seq(Nat \X Nat) /\ Len(rows') = 0 /\ rows' = <<>> /\ i' = 0 /\ cnt' \in 0..MAX_LAPS
    BY <1>a, <1>6 DEF LapsCount
  <2>3. UiTypeOK'
    BY <1>0, <1>6, <2>1, <2>2 DEF LapsCount, UiRange, UiTypeOK, shared
  <2>. QED BY <1>0, <1>6, <2>1, <2>2, <2>3 DEF LapsCount, UiRange
<1>7. CASE LapsClamp
  <2>1. Len(rows) = i
    BY <1>7 DEF LapsClamp, UiRange
  <2>. QED BY <1>0, <1>b, <1>7, <2>1 DEF LapsClamp, UiRange, UiTypeOK, frame
<1>8. CASE LapsRow
  <2>0. /\ i = Len(rows) /\ rows \in Seq(Nat \X Nat) /\ i \in Nat /\ cnt \in 0..MAX_LAPS
        /\ s_laps_offset \in 0..MAX_LAPS-1 /\ stat = NoStat /\ Len(rows) <= PageRows
        /\ stat.sum = 0
    BY <1>8 DEF LapsRow, UiRange, UiTypeOK, NoStat
  <2>. DEFINE idx == s_laps_offset + i
  <2>1. CASE i < PageRows /\ idx < cnt
    <3>1. rows' = Append(rows, <<idx, LapMs(idx)>>) /\ i' = i + 1 /\ ui_pc' = "rows"
      BY <1>8, <2>1 DEF LapsRow
    <3>2. LapMs(idx) \in Nat /\ idx \in Nat
      <4>1. idx \in Nat
        BY <1>0, <2>0
      <4>2. CASE idx < Len(laps)
        BY <1>0, <1>a, <4>1, <4>2 DEF LapMs
      <4>3. CASE ~(idx < Len(laps))
        BY <4>1, <4>3 DEF LapMs
      <4>. QED BY <4>1, <4>2, <4>3
    <3>. HIDE DEF idx
    <3>3. <<idx, LapMs(idx)>> \in Nat \X Nat
      BY <3>2
    <3>4. rows' \in Seq(Nat \X Nat) /\ Len(rows') = i' /\ i' <= PageRows
      BY <1>0, <2>0, <2>1, <3>1, <3>3
    <3>5. i' \in 0..MAX_LAPS
      BY <1>0, <2>0, <2>1, <3>1 DEF idx
    <3>. QED BY <1>8, <2>0, <3>1, <3>4, <3>5 DEF LapsRow, UiRange, UiTypeOK, shared
  <2>2. CASE ~(i < PageRows /\ idx < cnt)
    <3>1. rows' = rows /\ i' = 0 /\ ui_pc' \in {"stat", "update"}
      BY <1>8, <2>2 DEF LapsRow
    <3>. HIDE DEF idx
    <3>2. stat'.sum <= i' * MaxMs /\ i' <= cnt'
      BY <1>0, <1>8, <2>0, <3>1 DEF LapsRow
    <3>. QED BY <1>0, <1>8, <2>0, <3>1, <3>2 DEF LapsRow, UiRange, UiTypeOK, shared
  <2>. QED BY <2>1, <2>2
<1>9. CASE LapsStat
  <2>0. /\ i <= cnt /\ stat.sum <= i * MaxMs /\ i \in Nat /\ cnt \in 0..MAX_LAPS
        /\ stat \in [min: 0..MaxMs, max: 0..MaxMs, sum: Nat]
    BY <1>9 DEF LapsStat, UiRange, UiTypeOK
  <2>1. CASE i < cnt
    <3>. DEFINE v == LapMs(i)
    <3>1. /\ stat' = [min |-> IF v < stat.min THEN v ELSE stat.min,
                      max |-> IF v > stat.max THEN v ELSE stat.max,
                      sum |-> stat.sum + v]
          /\ i' = i + 1 /\ ui_pc' = "stat" /\ cnt' = cnt
      BY <1>9, <2>1 DEF LapsStat
    <3>2. v \in 0..MaxMs
      <4>1. CASE i < Len(laps)
        BY <1>0, <1>a, <2>0, <4>1 DEF LapMs
      <4>2. CASE ~(i < Len(laps))
        BY <1>0, <4>2 DEF LapMs
      <4>. QED BY <4>1, <4>2
    <3>. HIDE DEF v
    <3>3. stat.sum + v <= (i + 1) * MaxMs /\ stat.sum + v <= MAX_LAPS * MaxMs
      <4>1. stat.sum \in Nat /\ cnt \in Nat /\ cnt <= MAX_LAPS
        BY <1>0, <2>0
      <4>. QED BY <2>0, <2>1, <3>2, <4>1, OneMore
    <3>4. stat.sum + v \in Nat /\ stat.sum + v \in 0..MAX_LAPS*MaxMs
      BY <1>0, <2>0, <3>2, <3>3
    <3>5. /\ stat' \in [min: 0..MaxMs, max: 0..MaxMs, sum: Nat]
          /\ stat'.sum \in 0..MAX_LAPS*MaxMs /\ stat'.sum <= i' * MaxMs
      BY <2>0, <3>1, <3>2, <3>3, <3>4
    <3>6. i' \in 0..MAX_LAPS /\ i' <= cnt'
      BY <1>0, <2>0, <2>1, <3>1
    <3>. QED BY <1>9, <3>1, <3>5, <3>6 DEF LapsStat, UiRange, UiTypeOK, shared
  <2>2. CASE ~(i < cnt)
    BY <1>9, <2>2 DEF LapsStat, UiRange, UiTypeOK, shared
  <2>. QED BY <2>1, <2>2
<1>10. CASE LapsUpdate
  <2>1. screen'.page = "laps"
    BY <1>10 DEF LapsUpdate
  <2>. QED BY <1>10, <2>1 DEF LapsUpdate, UiRange, UiTypeOK, shared, frame
<1>. QED BY <1>1, <1>2, <1>3, <1>4, <1>5, <1>6, <1>7, <1>8, <1>9, <1>10 DEF UiStep

\* Every command.
LEMMA RangeShell == UiRange /\ UiShellStep => UiRange'
<1>. SUFFICES ASSUME UiRange, UiShellStep PROVE UiRange'
  OBVIOUS
<1>0. /\ PageRows \in Nat \ {0} /\ MAX_LAPS \in Nat \ {0} /\ MaxCmds \in Nat
  BY UiConstants
<1>a. laps \in Tables /\ laps \in Seq(LapValues) /\ Len(laps) \in 0..MAX_LAPS
  BY TableOf DEF UiRange, UiTypeOK
<1>b. s_laps_offset \in 0..MAX_LAPS-1 /\ OnPage(s_laps_offset) /\ cmds \in 0..MaxCmds
  BY DEF UiRange, UiTypeOK, OnPage
<1>p. \A k \in 0..MAX_LAPS-1 : OnPage(k) => k \in {o \in 0..MAX_LAPS-1 : o % PageRows = 0}
  BY DEF OnPage
<1>q. OnPage(0) /\ OnPage(s_laps_offset + PageRows) /\ OnPage(s_laps_offset - PageRows)
  <2>1. s_laps_offset \in Nat
    BY <1>0, <1>b
  <2>. QED BY <1>b, <2>1, PageSteps
<1>c. ASSUME Command,
             laps' \in Tables, s_page' \in {"main", "laps"}, s_page_drawn' \in BOOLEAN,
             s_laps_offset' \in {k \in 0..MAX_LAPS-1 : k % PageRows = 0}
      PROVE  UiRange'
  <2>1. cmds' \in 0..MaxCmds /\ touched' \in BOOLEAN
    BY <1>0, <1>b, <1>c DEF Command
  <2>. QED BY <1>c, <2>1 DEF Command, UiRange, UiTypeOK, frame
<1>1. ASSUME NEW page \in {"main", "laps"}, ui_oled_set_page(page) PROVE UiRange'
  BY <1>c, <1>1 DEF ui_oled_set_page, UiRange, UiTypeOK
<1>2. CASE ui_oled_laps_prev
  <2>1. s_laps_offset' \in {k \in 0..MAX_LAPS-1 : k % PageRows = 0}
    <3>1. CASE s_laps_offset >= PageRows
      <4>1. s_laps_offset' = s_laps_offset - PageRows /\ s_laps_offset' \in 0..MAX_LAPS-1
        BY <1>0, <1>2, <1>b, <3>1 DEF ui_oled_laps_prev
      <4>. QED BY <1>p, <1>q, <4>1
    <3>2. CASE ~(s_laps_offset >= PageRows)
      <4>1. s_laps_offset' = 0 /\ 0 \in 0..MAX_LAPS-1
        BY <1>0, <1>2, <3>2 DEF ui_oled_laps_prev
      <4>. QED BY <1>p, <1>q, <4>1
    <3>. QED BY <3>1, <3>2
  <2>. QED BY <1>c, <1>2, <2>1 DEF ui_oled_laps_prev, UiRange, UiTypeOK
<1>3. CASE ui_oled_laps_next
  <2>1. s_laps_offset' \in {k \in 0..MAX_LAPS-1 : k % PageRows = 0}
    <3>1. CASE s_laps_offset + PageRows < Len(laps)
      <4>1. s_laps_offset' = s_laps_offset + PageRows /\ s_laps_offset' \in 0..MAX_LAPS-1
        BY <1>0, <1>a, <1>3, <1>b, <3>1 DEF ui_oled_laps_next
      <4>. QED BY <1>p, <1>q, <4>1
    <3>2. CASE ~(s_laps_offset + PageRows < Len(laps))
      <4>1. s_laps_offset' = s_laps_offset
        BY <1>3, <3>2 DEF ui_oled_laps_next
      <4>. QED BY <1>b, <1>p, <4>1
    <3>. QED BY <3>1, <3>2
  <2>. QED BY <1>c, <1>3, <2>1 DEF ui_oled_laps_next, UiRange, UiTypeOK
<1>4. ASSUME NEW v \in LapValues, Lap(v) PROVE UiRange'
  <2>1. PICK t : t = IF Len(laps) < MAX_LAPS THEN laps ELSE Tail(laps)
    OBVIOUS
  <2>2. t \in Seq(LapValues) /\ Len(t) + 1 <= MAX_LAPS
    <3>1. CASE Len(laps) < MAX_LAPS
      BY <1>0, <1>a, <2>1, <3>1
    <3>2. CASE ~(Len(laps) < MAX_LAPS)
      <4>1. Len(laps) = MAX_LAPS /\ laps # <<>>
        BY <1>0, <1>a, <3>2
      <4>. QED BY <1>0, <1>a, <2>1, <3>2, <4>1
    <3>. QED BY <3>1, <3>2
  <2>3. laps' = Append(t, v)
    BY <1>4, <2>1 DEF Lap
  <2>4. laps' \in Seq(LapValues) /\ Len(laps') <= MAX_LAPS
    BY <2>2, <2>3
  <2>5. laps' \in Tables
    BY <2>4, IsTable
  <2>. QED BY <1>c, <1>4, <2>5 DEF Lap, UiRange, UiTypeOK
<1>5. CASE ClearLaps
  <2>1. laps' \in Tables
    <3>1. laps' \in Seq(LapValues) /\ Len(laps') = 0
      BY <1>5 DEF ClearLaps
    <3>2. Len(laps') <= MAX_LAPS
      BY <1>0, <3>1
    <3>. QED BY <3>1, <3>2, IsTable
  <2>. QED BY <1>c, <1>5, <2>1 DEF ClearLaps, UiRange, UiTypeOK
<1>. QED BY <1>1, <1>2, <1>3, <1>4, <1>5 DEF UiShellStep

\* There is one largest element.
LEMMA GreatestIs ==
    ASSUME NEW T, T \subseteq Int, NEW x \in T, \A y \in T : y <= x
    PROVE  Max(T) = x
<1>1. \E z \in T : \A y \in T : z >= y
  <2>1. \A y \in T : x >= y
    OBVIOUS
  <2>. QED BY <2>1
<1>2. Max(T) \in T /\ \A y \in T : Max(T) >= y
  BY <1>1, Zenon DEF Max
<1>3. Max(T) \in Int /\ x \in Int /\ Max(T) >= x /\ Max(T) <= x
  BY <1>2
<1>. QED BY <1>3

\* The sums of the laps are well defined.
LEMMA SumsSteps ==
    ASSUME NEW tab, Len(tab) \in Nat
    PROVE  /\ Sums(tab)[0] = 0
           /\ \A k \in 1..Len(tab) : Sums(tab)[k] = Sums(tab)[k - 1] + tab[k]
<1>. DEFINE B(n, f) == [k \in 0..n |-> IF k = 0 THEN 0 ELSE f[k - 1] + tab[k]]
            Upto(n) == \E f : f = B(n, f)
            G == {n \in Nat : Upto(n)}
<1>1. Upto(0)
  <2>. DEFINE f == [k \in 0..0 |-> 0]
  <2>1. f = B(0, f)
    OBVIOUS
  <2>. QED BY <2>1
<1>2. ASSUME NEW n \in Nat, Upto(n) PROVE Upto(n + 1)
  <2>1. PICK g : g = B(n, g)
    BY <1>2
  <2>. DEFINE f == [k \in 0..n+1 |-> IF k = n + 1 THEN g[n] + tab[n + 1] ELSE g[k]]
  <2>2. ASSUME NEW k \in 0..n+1
        PROVE  f[k] = IF k = 0 THEN 0 ELSE f[k - 1] + tab[k]
    <3>1. CASE k = n + 1
      <4>1. f[k] = g[n] + tab[k] /\ k # 0
        BY <3>1
      <4>2. f[k - 1] = g[n]
        BY <3>1
      <4>. QED BY <4>1, <4>2
    <3>2. CASE k \in 0..n
      <4>1. f[k] = g[k]
        BY <3>2
      <4>2. g[k] = IF k = 0 THEN 0 ELSE g[k - 1] + tab[k]
        BY <2>1, <3>2
      <4>3. k # 0 => f[k - 1] = g[k - 1]
        BY <3>2
      <4>. QED BY <4>1, <4>2, <4>3
    <3>. QED BY <3>1, <3>2
  <2>3. f = [k \in 0..n+1 |-> f[k]]
    OBVIOUS
  <2>. HIDE DEF f
  <2>4. f = B(n + 1, f)
    BY <2>2, <2>3
  <2>. QED BY <2>4
<1>3. Upto(Len(tab))
  <2>. HIDE DEF Upto
  <2>1. 0 \in G /\ \A n \in 1..Len(tab) : n - 1 \in G => n \in G
    BY <1>1, <1>2
  <2>. HIDE DEF G
  <2>2. \A n \in 0..Len(tab) : n \in G
    BY <2>1, Along
  <2>3. Len(tab) \in G
    BY <2>2
  <2>. QED BY <2>3 DEF G
<1>4. Sums(tab) = B(Len(tab), Sums(tab))
  BY <1>3, Zenon DEF Sums
<1>5. PICK A : A = Sums(tab)
  OBVIOUS
<1>6. A = B(Len(tab), A)
  BY <1>4, <1>5, Zenon
<1>7. A[0] = 0
  BY <1>6
<1>8. ASSUME NEW k \in 1..Len(tab) PROVE A[k] = A[k - 1] + tab[k]
  BY <1>6
<1>. QED BY <1>5, <1>7, <1>8

\* st holds the statistics of the first n laps of a table.
Counted(tab, st, n) ==
    /\ n <= Len(tab)
    /\ \A k \in 1..n : st.min <= tab[k] /\ tab[k] <= st.max
    /\ st.min = MaxMs \/ \E k \in 1..n : tab[k] = st.min
    /\ st.max = 0 \/ \E k \in 1..n : tab[k] = st.max
    /\ st.sum = Sums(tab)[n]

\* The rows drawn so far are the beginning of the page.
RowsDrawn ==
    \A k \in 1..Len(rows) : /\ s_laps_offset + k <= cnt
                             /\ rows[k] = <<s_laps_offset + k - 1, laps[s_laps_offset + k]>>

\* As long as no command falls into the frame, what has been drawn agrees with
\* the table as it still is.
ListInv ==
    ~touched =>
      /\ ui_pc \in {"clamp", "rows", "stat", "update"} => cnt = Len(laps)
      /\ ui_pc = "rows" => RowsDrawn
      /\ ui_pc \in {"stat", "update"} => rows = PageOf(laps, s_laps_offset)
      /\ ui_pc = "stat" => Counted(laps, stat, i)
      /\ ui_pc = "update" /\ cnt > 0 => Counted(laps, stat, cnt)

\* At power-up no list is being drawn.
LEMMA ListInit == UiInit => ListInv
  BY DEF UiInit, ListInv

\* A page that has been drawn to its end.
LEMMA PageDrawn ==
    ASSUME UiRange, ListInv, ~touched, ui_pc = "rows", ~(i < PageRows /\ s_laps_offset + i < cnt)
    PROVE  rows = PageOf(laps, s_laps_offset)
<1>. DEFINE o == s_laps_offset
            L == Len(laps)
            D == {k \in 1..PageRows : o + k <= L}
<1>1. /\ i = Len(rows) /\ rows \in Seq(Nat \X Nat) /\ Len(rows) <= PageRows /\ o \in Nat
      /\ PageRows \in Nat /\ L \in Nat
  <2>1. /\ i = Len(rows) /\ rows \in Seq(Nat \X Nat) /\ Len(rows) <= PageRows
        /\ o \in 0..MAX_LAPS-1 /\ laps \in Tables
    BY DEF UiRange, UiTypeOK
  <2>2. Len(laps) \in 0..MAX_LAPS /\ PageRows \in Nat /\ MAX_LAPS \in Nat
    BY <2>1, TableOf, UiConstants
  <2>. QED BY <2>1, <2>2
<1>2. cnt = L /\ \A k \in 1..i : o + k <= L /\ rows[k] = <<o + k - 1, laps[o + k]>>
  BY <1>1 DEF ListInv, RowsDrawn
<1>. HIDE DEF o, L
<1>3. D = 1..i
  <2>1. ASSUME NEW k \in 1..i PROVE k \in D
    BY <1>1, <1>2
  <2>2. ASSUME NEW k \in D PROVE k \in 1..i
    <3>1. ~(i < PageRows) \/ ~(o + i < L)
      BY <1>2 DEF o
    <3>. QED BY <1>1, <3>1
  <2>. QED BY <2>1, <2>2
<1>4. rows = [k \in 1..i |-> rows[k]]
  BY <1>1
<1>5. PageOf(laps, o) = [k \in D |-> <<o + k - 1, laps[o + k]>>]
  BY DEF PageOf, L
<1>6. rows = PageOf(laps, o)
  BY <1>2, <1>3, <1>4, <1>5
<1>. QED BY <1>6 DEF o

\* One more lap in the statistics.
LEMMA CountOne ==
    ASSUME NEW tab \in Tables, NEW n \in Nat, n < Len(tab),
           NEW st \in [min: 0..MaxMs, max: 0..MaxMs, sum: Nat], Counted(tab, st, n),
           NEW v, v = tab[n + 1]
    PROVE  Counted(tab, [min |-> IF v < st.min THEN v ELSE st.min,
                         max |-> IF v > st.max THEN v ELSE st.max,
                         sum |-> st.sum + v], n + 1)
<1>. DEFINE lo == IF v < st.min THEN v ELSE st.min
            hi == IF v > st.max THEN v ELSE st.max
            r == [min |-> lo, max |-> hi, sum |-> st.sum + v]
<1>1. /\ Len(tab) \in Nat /\ MaxMs \in Nat /\ v \in 0..MaxMs /\ n + 1 \in 1..Len(tab) /\ (n + 1) - 1 = n
      /\ \A k \in 1..Len(tab) : tab[k] \in 0..MaxMs
  BY TableOf, UiConstants
<1>2. st.min \in 0..MaxMs /\ st.max \in 0..MaxMs /\ st.sum \in Nat
  OBVIOUS
<1>3. /\ \A k \in 1..n : st.min <= tab[k] /\ tab[k] <= st.max
      /\ st.min = MaxMs \/ \E k \in 1..n : tab[k] = st.min
      /\ st.max = 0 \/ \E k \in 1..n : tab[k] = st.max
      /\ st.sum = Sums(tab)[n]
  BY DEF Counted
<1>4. st.sum + v = Sums(tab)[n + 1]
  BY <1>1, <1>3, SumsSteps
<1>5. lo \in Int /\ hi \in Int /\ lo <= st.min /\ lo <= v /\ st.max <= hi /\ v <= hi
  BY <1>1, <1>2
<1>6. ASSUME NEW k \in 1..n+1 PROVE lo <= tab[k] /\ tab[k] <= hi
  <2>. HIDE DEF lo, hi
  <2>1. CASE k \in 1..n
    <3>1. st.min <= tab[k] /\ tab[k] <= st.max /\ tab[k] \in Int
      BY <1>1, <1>3, <2>1
    <3>. QED BY <1>2, <1>5, <3>1
  <2>2. CASE k = n + 1
    BY <1>5, <2>2
  <2>. QED BY <2>1, <2>2
<1>7. lo = MaxMs \/ \E k \in 1..n+1 : tab[k] = lo
  <2>1. CASE v < st.min
    <3>1. n + 1 \in 1..n+1 /\ tab[n + 1] = lo
      BY <2>1
    <3>. QED BY <3>1
  <2>2. CASE ~(v < st.min)
    <3>1. lo = st.min
      BY <2>2
    <3>. HIDE DEF lo
    <3>2. \A k \in 1..n : k \in 1..n+1
      OBVIOUS
    <3>. QED BY <1>3, <3>1, <3>2
  <2>. QED BY <2>1, <2>2
<1>8. hi = 0 \/ \E k \in 1..n+1 : tab[k] = hi
  <2>1. CASE v > st.max
    <3>1. n + 1 \in 1..n+1 /\ tab[n + 1] = hi
      BY <2>1
    <3>. QED BY <3>1
  <2>2. CASE ~(v > st.max)
    <3>1. hi = st.max
      BY <2>2
    <3>. HIDE DEF hi
    <3>2. \A k \in 1..n : k \in 1..n+1
      OBVIOUS
    <3>. QED BY <1>3, <3>1, <3>2
  <2>. QED BY <2>1, <2>2
<1>. HIDE DEF lo, hi
<1>9. r.min = lo /\ r.max = hi /\ r.sum = st.sum + v
  OBVIOUS
<1>. HIDE DEF r
<1>10. n + 1 <= Len(tab)
  BY <1>1
<1>11. Counted(tab, r, n + 1)
  BY <1>4, <1>6, <1>7, <1>8, <1>9, <1>10 DEF Counted
<1>. QED BY <1>11 DEF r, lo, hi

\* Every step of the OLED thread, and every command, keeps ListInv.
LEMMA ListUi == UiRange /\ ListInv /\ UiStep => ListInv'
<1>. SUFFICES ASSUME UiRange, ListInv, UiStep PROVE ListInv'
  OBVIOUS
<1>0. s_page \in {"main", "laps"} /\ laps \in Tables /\ Len(laps) \in Nat
  <2>1. s_page \in {"main", "laps"} /\ laps \in Tables
    BY DEF UiRange, UiTypeOK
  <2>. QED BY <2>1, TableOf, UiConstants
<1>1. CASE FrameBegin
  <2>1. ui_pc' \in {"main", "laps"}
    BY <1>0, <1>1 DEF FrameBegin
  <2>. QED BY <2>1 DEF ListInv
<1>2. CASE MainLabels \/ MainDrawn \/ MainTime \/ MainLap \/ LapsUpdate
  <2>1. ui_pc' \in {"drawn", "time", "lap", "delay"}
    BY <1>2 DEF MainLabels, MainDrawn, MainTime, MainLap, LapsUpdate
  <2>. QED BY <2>1 DEF ListInv
<1>3. CASE LapsCount
  <2>1. ui_pc' \in {"clamp", "rows"} /\ cnt' = Len(laps') /\ Len(rows') = 0
    BY <1>3 DEF LapsCount, shared
  <2>. QED BY <2>1 DEF ListInv, RowsDrawn
<1>4. CASE LapsClamp
  <2>1. ui_pc = "clamp" /\ ui_pc' = "rows" /\ cnt' = cnt /\ laps' = laps /\ touched' = touched /\ rows' = rows
    BY <1>4 DEF LapsClamp, frame
  <2>2. Len(rows') = 0
    BY <2>1 DEF UiRange
  <2>. QED BY <2>1, <2>2 DEF ListInv, RowsDrawn
<1>5. CASE LapsRow
  <2>. SUFFICES ASSUME ~touched' PROVE ListInv'
    BY DEF ListInv
  <2>0. /\ ui_pc = "rows" /\ ~touched /\ laps' = laps /\ s_laps_offset' = s_laps_offset /\ cnt' = cnt /\ stat' = stat
    BY <1>5 DEF LapsRow, shared
  <2>1. cnt = Len(laps) /\ RowsDrawn
    BY <2>0 DEF ListInv
  <2>2. /\ i = Len(rows) /\ rows \in Seq(Nat \X Nat) /\ i \in Nat /\ s_laps_offset \in Nat
    BY <2>0, UiConstants DEF UiRange, UiTypeOK
  <2>. DEFINE idx == s_laps_offset + i
  <2>3. CASE i < PageRows /\ idx < cnt
    <3>1. rows' = Append(rows, <<idx, LapMs(idx)>>) /\ ui_pc' = "rows"
      BY <1>5, <2>0, <2>3 DEF LapsRow
    <3>2. LapMs(idx) = laps[idx + 1]
      BY <2>1, <2>3 DEF LapMs
    <3>3. idx \in Nat /\ idx = s_laps_offset + i
      BY <2>2
    <3>. HIDE DEF idx
    <3>4. PICK w : w = <<idx, LapMs(idx)>>
      OBVIOUS
    <3>5. rows' = Append(rows, w) /\ w = <<idx, laps[idx + 1]>>
      BY <3>1, <3>2, <3>4
    <3>6. Len(rows') = i + 1 /\ rows'[i + 1] = w /\ \A k \in 1..i : rows'[k] = rows[k]
      BY <2>2, <3>5
    <3>7. ASSUME NEW k \in 1..i+1
          PROVE  s_laps_offset + k <= cnt /\ rows'[k] = <<s_laps_offset + k - 1, laps[s_laps_offset + k]>>
      <4>1. CASE k \in 1..i
        BY <2>1, <2>2, <3>6, <4>1 DEF RowsDrawn
      <4>2. CASE k = i + 1
        <5>1. s_laps_offset + k = idx + 1 /\ s_laps_offset + k - 1 = idx /\ cnt \in Nat
          BY <1>0, <2>1, <2>2, <3>3, <4>2
        <5>2. s_laps_offset + k <= cnt
          BY <2>3, <3>3, <5>1
        <5>. QED BY <3>5, <3>6, <4>2, <5>1, <5>2
      <4>. QED BY <2>2, <4>1, <4>2
    <3>8. RowsDrawn'
      BY <2>0, <3>6, <3>7 DEF RowsDrawn
    <3>. QED BY <2>0, <2>1, <3>1, <3>8 DEF ListInv
  <2>4. CASE ~(i < PageRows /\ idx < cnt)
    <3>1. rows' = rows /\ i' = 0 /\ ui_pc' = IF cnt > 0 THEN "stat" ELSE "update"
      BY <1>5, <2>4 DEF LapsRow
    <3>2. rows = PageOf(laps, s_laps_offset)
      BY <2>0, <2>4, PageDrawn
    <3>3. Counted(laps, stat, 0)
      <4>1. stat.min = MaxMs /\ stat.max = 0 /\ stat.sum = 0
        BY <2>0 DEF UiRange, NoStat
      <4>2. Sums(laps)[0] = 0
        BY <1>0, SumsSteps
      <4>. QED BY <1>0, <4>1, <4>2 DEF Counted
    <3>. QED BY <2>0, <2>1, <3>1, <3>2, <3>3 DEF ListInv
  <2>. QED BY <2>3, <2>4
<1>6. CASE LapsStat
  <2>. SUFFICES ASSUME ~touched' PROVE ListInv'
    BY DEF ListInv
  <2>0. /\ ui_pc = "stat" /\ ~touched /\ laps' = laps /\ s_laps_offset' = s_laps_offset /\ cnt' = cnt /\ rows' = rows
    BY <1>6 DEF LapsStat, shared
  <2>1. cnt = Len(laps) /\ rows = PageOf(laps, s_laps_offset) /\ Counted(laps, stat, i)
    BY <2>0 DEF ListInv
  <2>2. i <= cnt /\ i \in Nat /\ stat \in [min: 0..MaxMs, max: 0..MaxMs, sum: Nat]
    BY <2>0 DEF UiRange, UiTypeOK
  <2>3. CASE i < cnt
    <3>. DEFINE v == LapMs(i)
    <3>1. /\ stat' = [min |-> IF v < stat.min THEN v ELSE stat.min,
                      max |-> IF v > stat.max THEN v ELSE stat.max,
                      sum |-> stat.sum + v]
          /\ i' = i + 1 /\ ui_pc' = "stat"
      BY <1>6, <2>0, <2>3 DEF LapsStat
    <3>2. v = laps[i + 1]
      BY <2>1, <2>3 DEF LapMs
    <3>. HIDE DEF v
    <3>3. i < Len(laps)
      BY <2>1, <2>3
    <3>4. Counted(laps, stat', i + 1)
      BY <1>0, <2>1, <2>2, <3>1, <3>2, <3>3, CountOne
    <3>. QED BY <2>0, <2>1, <3>1, <3>4 DEF ListInv
  <2>4. CASE ~(i < cnt)
    <3>1. ui_pc' = "update" /\ stat' = stat /\ i' = i
      BY <1>6, <2>4 DEF LapsStat
    <3>2. i = cnt
      BY <1>0, <2>1, <2>2, <2>4
    <3>. QED BY <2>0, <2>1, <3>1, <3>2 DEF ListInv
  <2>. QED BY <2>3, <2>4
<1>. QED BY <1>1, <1>2, <1>3, <1>4, <1>5, <1>6 DEF UiStep

\* The statistics of a whole table.
LEMMA StatOfTable ==
    ASSUME NEW tab \in Tables, NEW st \in [min: 0..MaxMs, max: 0..MaxMs, sum: Nat],
           Len(tab) > 0, Counted(tab, st, Len(tab))
    PROVE  StatOf(tab) = <<st.min, st.max, st.sum \div Len(tab)>>
<1>. DEFINE L == Len(tab)
            R == Range(tab)
<1>1. /\ L \in Nat /\ MaxMs \in Nat /\ DOMAIN tab = 1..L /\ tab \in Seq(LapValues)
      /\ \A k \in 1..L : tab[k] \in 0..MaxMs
  BY TableOf, UiConstants
<1>2. st.min \in 0..MaxMs /\ st.max \in 0..MaxMs
  OBVIOUS
<1>3. /\ \A k \in 1..L : st.min <= tab[k] /\ tab[k] <= st.max
      /\ st.min = MaxMs \/ \E k \in 1..L : tab[k] = st.min
      /\ st.max = 0 \/ \E k \in 1..L : tab[k] = st.max
      /\ st.sum = Sums(tab)[L]
  BY DEF Counted
<1>4. R = {tab[k] : k \in 1..L}
  BY <1>1 DEF Range
<1>5. 1 \in 1..L /\ tab[1] \in 0..MaxMs
  BY <1>1
<1>. HIDE DEF R, L
<1>6. st.min \in R
  <2>1. CASE st.min = MaxMs
    <3>1. tab[1] = st.min
      BY <1>1, <1>2, <1>3, <1>5, <2>1
    <3>. QED BY <1>4, <1>5, <3>1
  <2>2. CASE st.min # MaxMs
    BY <1>3, <1>4, <2>2
  <2>. QED BY <2>1, <2>2
<1>7. st.max \in R
  <2>1. CASE st.max = 0
    <3>1. tab[1] = st.max
      BY <1>1, <1>2, <1>3, <1>5, <2>1
    <3>. QED BY <1>4, <1>5, <3>1
  <2>2. CASE st.max # 0
    BY <1>3, <1>4, <2>2
  <2>. QED BY <2>1, <2>2
<1>8. R \subseteq Nat /\ \A y \in R : st.min <= y /\ y <= st.max
  BY <1>1, <1>3, <1>4
<1>9. Min(R) = st.min
  BY <1>6, <1>8, LeastIs
<1>10. Max(R) = st.max
  <2>1. R \subseteq Int
    BY <1>8
  <2>. QED BY <1>7, <1>8, <2>1, GreatestIs
<1>11. tab # <<>>
  BY <1>1, <1>5 DEF L
<1>. QED BY <1>3, <1>9, <1>10, <1>11 DEF StatOf, R, L

\* The frame that is transferred.
LEMMA UpdateExact ==
    ASSUME UiRange, ListInv, LapsUpdate, ~touched
    PROVE  screen'.rows = PageOf(laps, s_laps_offset) /\ screen'.stat = StatOf(laps)
<1>0. /\ ui_pc = "update" /\ screen'.rows = rows
      /\ screen'.stat = IF cnt > 0 THEN <<stat.min, stat.max, stat.sum \div cnt>> ELSE <<>>
  BY DEF LapsUpdate
<1>1. /\ laps \in Tables /\ stat \in [min: 0..MaxMs, max: 0..MaxMs, sum: Nat]
      /\ cnt = Len(laps) /\ rows = PageOf(laps, s_laps_offset)
      /\ cnt > 0 => Counted(laps, stat, cnt)
  BY <1>0 DEF UiRange, UiTypeOK, ListInv
<1>2. laps \in Seq(LapValues) /\ Len(laps) \in Nat
  BY <1>1, TableOf, UiConstants
<1>3. CASE cnt > 0
  <2>1. StatOf(laps) = <<stat.min, stat.max, stat.sum \div Len(laps)>>
    BY <1>1, <1>3, StatOfTable
  <2>. QED BY <1>0, <1>1, <1>3, <2>1
<1>4. CASE ~(cnt > 0)
  <2>1. laps = <<>>
    BY <1>1, <1>2, <1>4
  <2>. QED BY <1>0, <1>1, <1>4, <2>1 DEF StatOf
<1>. QED BY <1>3, <1>4

UiInv == LabelInv /\ UiRange /\ ListInv

\* Every step keeps all three.
LEMMA UiSteps == UiInv /\ [UiNext]_uivars => UiInv'
<1>. SUFFICES ASSUME UiInv, [UiNext]_uivars PROVE UiInv'
  OBVIOUS
<1>0. LabelInv /\ UiRange /\ ListInv
  BY DEF UiInv
<1>1. CASE UiStep
  BY <1>0, <1>1, LabelUi, RangeUi, ListUi DEF UiInv
<1>2. CASE UiShellStep
  <2>1. touched'
    BY <1>2 DEF UiShellStep, ui_oled_set_page, ui_oled_laps_prev, ui_oled_laps_next, Lap, ClearLaps, Command
  <2>2. ListInv'
    BY <2>1 DEF ListInv
  <2>. QED BY <1>0, <1>2, <2>2, LabelShell, RangeShell DEF UiInv
<1>3. CASE UNCHANGED uivars
  <2>1. LabelInv'
    BY <1>0, <1>3 DEF LabelInv, Framed, MainClean, InMain, InList, uivars, shared, frame
  <2>2. UiRange'
    BY <1>0, <1>3 DEF UiRange, UiTypeOK, uivars, shared, frame
  <2>3. ListInv'
    BY <1>0, <1>3 DEF ListInv, RowsDrawn, uivars, shared, frame
  <2>. QED BY <2>1, <2>2, <2>3 DEF UiInv
<1>. QED BY <1>1, <1>2, <1>3 DEF UiNext

\* The invariant holds throughout.
LEMMA UiAlways == UiSpec => []UiInv
<1>1. UiInit => UiInv
  BY LabelInit, RangeInit, ListInit DEF UiInv
<1>. QED BY <1>1, UiSteps, PTL DEF UiSpec

\* ListExact of draw_laps_page: a list drawn without a command falling into it is
\* the page and the statistics of the table, for every number of rows and laps.
THEOREM ListCorrect == UiSpec => ListExact
<1>. DEFINE A == ui_pc = "update" /\ ui_pc' = "delay" /\ ~touched
                 => screen'.rows = PageOf(laps, s_laps_offset) /\ screen'.stat = StatOf(laps)
<1>1. UiInv /\ [UiNext]_uivars => [A]_uivars
  <2>. SUFFICES ASSUME UiInv, UiNext, ui_pc = "update", ui_pc' = "delay", ~touched
                PROVE  screen'.rows = PageOf(laps, s_laps_offset) /\ screen'.stat = StatOf(laps)
    OBVIOUS
  <2>1. LapsUpdate
    BY DEF UiNext, UiStep, FrameBegin, MainLabels, MainDrawn, MainTime, MainLap, LapsCount, LapsClamp,
           LapsRow, LapsStat, UiShellStep, ui_oled_set_page, ui_oled_laps_prev, ui_oled_laps_next,
           Lap, ClearLaps, Command
  <2>. QED BY <2>1, UpdateExact DEF UiInv
<1>. QED BY <1>1, UiAlways, PTL DEF UiSpec, ListExact

-----------------------------------------------------------------------------
(* The indicator LEDs.                                                     *)

InLoop == at \in {"run", "pause", "err"}
Asleep == at \in {"delay", "read"}

\* The pins that have been written in this turn of the loop agree with the state
\* that was read; those still to be written with the one before.
PinsWritten ==
    /\ "ERR" \notin lamp
    /\ at # "run" => ("RUN" \in lamp <=> s = "RUNNING" /\ blink)
    /\ at \notin {"run", "pause"} => ("PAUSE" \in lamp <=> s = "PAUSED")

\* How long the thread can have been showing, or be about to show, an old state.
StaleBounded ==
    /\ at # "delay" => left = 0
    /\ InLoop /\ s # state => age <= late
    /\ Asleep /\ s # state => age + left <= MaxLate + 10 + late
    /\ InLoop /\ s = state => Shows(state) \/ age <= MaxLate + 10 + late

LedInv == LedTypeOK /\ PinsWritten /\ StaleBounded

\* The LED thread starts with every lamp off and nothing to show.
LEMMA LedStart == LedInit => LedInv
<1>. SUFFICES ASSUME LedInit PROVE LedInv
  OBVIOUS
<1>1. LedTypeOK
  <2>1. blink \in BOOLEAN /\ lamp \subseteq Pins
    BY Zenon DEF LedInit
  <2>2. /\ 0 \in 0..MaxLate /\ 0 \in 0..MaxAge /\ 0 \in 0..10
    BY IndicatorAssumption
  <2>. QED BY <2>1, <2>2 DEF LedInit, LedTypeOK, States
<1>2. PinsWritten
  BY Zenon DEF LedInit, PinsWritten
<1>3. StaleBounded
  BY DEF LedInit, StaleBounded, InLoop, Asleep
<1>. QED BY <1>1, <1>2, <1>3 DEF LedInv

\* Pins written from the same state as before leave what they show.
LEMMA ShowsByPins ==
    ASSUME LedTypeOK, PinsWritten, at \notin {"run", "pause"}
    PROVE  Shows(s)
BY DEF LedTypeOK, PinsWritten, Shows, States, Pins

\* Every turn of the loop keeps the bounds.
LEMMA LedThread == LedInv /\ indicator_led_entry => LedInv'
<1>. SUFFICES ASSUME LedInv, indicator_led_entry PROVE LedInv'
  OBVIOUS
<1>. USE IndicatorAssumption DEF InLoop, Asleep
<1>1. CASE Read
  <2>. USE <1>1 DEF Read, LedInv
  <2>1. LedTypeOK'
    BY DEF LedTypeOK
  <2>2. PinsWritten'
    BY DEF PinsWritten
  <2>3. Shows(s)
    BY ShowsByPins
  <2>4. StaleBounded'
    <3>1. s = state => Shows(state)'
      BY <2>3 DEF Shows
    <3>2. s # state => age' <= MaxLate + 10 + late'
      BY DEF StaleBounded, LedTypeOK
    <3>. QED BY <3>1, <3>2 DEF StaleBounded
  <2>. QED BY <2>1, <2>2, <2>4
<1>2. CASE SetRun
  <2>. USE <1>2 DEF SetRun, LedInv
  <2>1. LedTypeOK'
    BY DEF LedTypeOK, led_set, Pins
  <2>2. PinsWritten'
    BY DEF PinsWritten, led_set
  <2>3. StaleBounded'
    BY DEF StaleBounded, Shows, LedTypeOK, led_set, States
  <2>. QED BY <2>1, <2>2, <2>3
<1>3. CASE SetPause
  <2>. USE <1>3 DEF SetPause, LedInv
  <2>1. LedTypeOK'
    BY DEF LedTypeOK, led_set, Pins
  <2>2. PinsWritten'
    BY DEF PinsWritten, led_set
  <2>3. StaleBounded'
    BY DEF StaleBounded, Shows, LedTypeOK, led_set, States
  <2>. QED BY <2>1, <2>2, <2>3
<1>4. CASE SetErr
  <2>. USE <1>4 DEF SetErr, LedInv
  <2>1. LedTypeOK'
    BY DEF LedTypeOK, led_set, Pins, Delay
  <2>2. PinsWritten'
    BY DEF PinsWritten, led_set
  <2>3. StaleBounded'
    BY DEF StaleBounded, LedTypeOK, Delay
  <2>. QED BY <2>1, <2>2, <2>3
<1>5. CASE Wake
  BY <1>5 DEF Wake, LedInv, LedTypeOK, PinsWritten, StaleBounded
<1>. QED BY <1>1, <1>2, <1>3, <1>4, <1>5 DEF indicator_led_entry

\* So do the commands, which start the age anew, ...
LEMMA LedCommand ==
    ASSUME LedInv, NEW command \in {"start", "stop", "reset"}, StateCommand(command)
    PROVE  LedInv'
<1>. USE IndicatorAssumption DEF StateCommand, thread, LedInv
<1>1. LedTypeOK'
  BY DEF LedTypeOK, StateAfter, States
<1>2. PinsWritten'
  BY DEF PinsWritten
<1>3. StaleBounded'
  BY DEF StaleBounded, LedTypeOK, InLoop, Asleep
<1>. QED BY <1>1, <1>2, <1>3

\* ... and the passing of time, which the thread's delay or its lateness pays for.
LEMMA LedElapse == LedInv /\ Elapse => LedInv'
<1>. SUFFICES ASSUME LedInv, Elapse PROVE LedInv'
  OBVIOUS
<1>. USE IndicatorAssumption DEF Elapse, LedInv
<1>1. age' \in Nat /\ age' <= age + 1 /\ age' <= MaxAge
  BY DEF LedTypeOK
<1>2. IF at = "delay" /\ left > 0 THEN left' = left - 1 /\ late' = late
      ELSE left' = 0 /\ left = 0 /\ late' = late + 1 /\ late' <= MaxLate
  BY DEF Pass, LedTypeOK, StaleBounded
<1>3. LedTypeOK'
  BY <1>1, <1>2 DEF LedTypeOK
<1>4. PinsWritten'
  BY DEF PinsWritten
<1>5. StaleBounded'
  <2>1. Shows(state)' <=> Shows(state)
    BY DEF Shows
  <2>. QED BY <1>1, <1>2, <2>1 DEF StaleBounded, LedTypeOK, InLoop, Asleep
<1>. QED BY <1>3, <1>4, <1>5

\* Every step of the LED thread, of the shell and of time keeps it.
LEMMA LedSteps == LedInv /\ [LedNext]_ledvars => LedInv'
<1>1. ASSUME LedInv, UNCHANGED ledvars PROVE LedInv'
  <2>. USE <1>1 DEF LedInv, ledvars, thread
  <2>1. LedTypeOK' /\ PinsWritten'
    BY DEF LedTypeOK, PinsWritten
  <2>2. Shows(state)' <=> Shows(state)
    BY DEF Shows
  <2>3. StaleBounded'
    BY <2>2 DEF StaleBounded, InLoop, Asleep
  <2>. QED BY <2>1, <2>3
<1>. QED BY <1>1, LedThread, LedCommand, LedElapse DEF LedNext

\* The lamps never keep a mixture of two states and show a state that lasts within
\* one delay and the time the thread was kept from running, for every such time and
\* however far ages are counted.
THEOREM LedsCorrect == LedSpec => []LedsRight
<1>1. ASSUME LedInv PROVE LedsRight
  <2>. USE <1>1, IndicatorAssumption DEF LedInv
  <2>1. at \in {"read", "run", "pause", "err", "delay"}
    BY DEF LedTypeOK
  <2>2. NoMixture
    BY ShowsByPins DEF NoMixture
  <2>3. ShownInTime
    BY <2>1, ShowsByPins DEF ShownInTime, StaleBounded, LedTypeOK, InLoop, Asleep
  <2>. QED BY <2>2, <2>3 DEF LedsRight
<1>. QED BY <1>1, LedStart, LedSteps, PTL DEF LedSpec

-----------------------------------------------------------------------------
(* Serial input.                                                           *)

\* What the invariants need together: the handler never ends on an empty ring.
SerialInv == RxTypeOK /\ FullNotEmpty /\ IndicatesSomething /\ NoLostWakeUp

\* Storing a byte, overflow included, keeps the ring well formed and non-empty.
LEMMA PutByteInv ==
    ASSUME RxTypeOK, FullNotEmpty, NEW b \in Byte, PutByte(b)
    PROVE  /\ buffer' \in [Index -> Byte]
           /\ put_index' \in Index /\ get_index' \in Index
           /\ is_full' \in BOOLEAN
           /\ is_full' => get_index' = Following(put_index')
           /\ put_index' # get_index'
<1>1. put_index' = Following(put_index) /\ put_index' \in Index
  BY SerialAssumption DEF RxTypeOK, PutByte, Following, Index
<1>2. buffer' \in [Index -> Byte]
  BY DEF RxTypeOK, PutByte
<1>3. CASE put_index' = get_index
  <2>1. get_index' = Following(get_index) /\ is_full' = TRUE
    BY <1>3 DEF PutByte
  <2> QED
    BY <1>1, <1>2, <1>3, <2>1, SerialAssumption DEF RxTypeOK, Following, Index
<1>4. CASE put_index' # get_index
  <2>1. get_index' = get_index /\ is_full' = is_full
    BY <1>4 DEF PutByte
  <2>2. ~is_full
    BY <1>1, <1>4 DEF FullNotEmpty
  <2> QED
    BY <1>1, <1>2, <1>4, <2>1, <2>2 DEF RxTypeOK
<1> QED
  BY <1>3, <1>4

LEMMA SerialInit == RxInit => SerialInv
<1> SUFFICES ASSUME RxInit PROVE SerialInv
  OBVIOUS
<1>1. RxTypeOK
  <2>1. is_full \in BOOLEAN /\ isr \in BOOLEAN
    BY Zenon DEF RxInit
  <2>2. buffer \in [Index -> Byte] /\ ch \in Byte
    BY SerialAssumption DEF RxInit
  <2>3. put_index \in Index /\ get_index \in Index /\ value \in 0 .. RT_SEM_VALUE_MAX
    BY SerialAssumption DEF RxInit, Index
  <2> QED
    BY <2>1, <2>2, <2>3 DEF RxInit, RxTypeOK
<1>2. FullNotEmpty
  BY DEF RxInit, FullNotEmpty
<1>3. IndicatesSomething
  BY DEF RxInit, IndicatesSomething
<1>4. NoLostWakeUp
  BY DEF RxInit, NoLostWakeUp
<1> QED
  BY <1>1, <1>2, <1>3, <1>4 DEF SerialInv

\* Every step of the handler and of the shell keeps the invariant.
LEMMA SerialStep == SerialInv /\ [RxNext]_rxvars => SerialInv'
<1> SUFFICES ASSUME SerialInv, [RxNext]_rxvars PROVE SerialInv'
  OBVIOUS
<1>1. ASSUME NEW b \in Byte, uart_isr(b) \/ IsrAgain(b) PROVE SerialInv'
  <2>1. PutByte(b) /\ isr' = TRUE /\ UNCHANGED <<value, shell, ch>>
    BY <1>1 DEF uart_isr, IsrAgain
  <2> QED
    BY <2>1, PutByteInv DEF SerialInv, RxTypeOK, FullNotEmpty, IndicatesSomething, NoLostWakeUp, Index, Following
<1>2. CASE IsrIndicate
  <2>1. rx_length # 0
    BY <1>2, SerialAssumption DEF IsrIndicate, SerialInv, RxTypeOK, IndicatesSomething, rx_length, Index
  <2>2. rt_sem_release
    BY <1>2, <2>1 DEF IsrIndicate
  <2>3. isr' = FALSE /\ UNCHANGED <<buffer, put_index, get_index, is_full, ch>>
    BY <1>2 DEF IsrIndicate
  <2>4. value' \in 0 .. RT_SEM_VALUE_MAX /\ (shell' = "take" => value' > 0)
    BY <2>2, SerialAssumption DEF rt_sem_release, SerialInv, RxTypeOK
  <2>5. shell' \in {"read", "take", "busy"}
    BY <2>2 DEF rt_sem_release, SerialInv, RxTypeOK
  <2>6. RxTypeOK'
    BY <2>3, <2>4, <2>5 DEF SerialInv, RxTypeOK, Index
  <2>7. FullNotEmpty'
    BY <2>3 DEF SerialInv, FullNotEmpty, Following
  <2>8. NoLostWakeUp'
    BY <2>4, <2>5 DEF NoLostWakeUp
  <2> QED
    BY <2>3, <2>6, <2>7, <2>8 DEF SerialInv, IndicatesSomething
<1>3. CASE _serial_int_rx
  <2>1. ~isr /\ ~isr' /\ UNCHANGED <<buffer, put_index, isr, value>>
    BY <1>3 DEF _serial_int_rx, SerialInv, RxTypeOK
  <2>2. CASE Empty
    <3>1. shell' = "take" /\ UNCHANGED <<get_index, is_full, ch>>
      BY <1>3, <2>2 DEF _serial_int_rx
    <3>2. RxTypeOK'
      BY <2>1, <3>1 DEF SerialInv, RxTypeOK, Index
    <3>3. FullNotEmpty'
      BY <2>1, <3>1 DEF SerialInv, FullNotEmpty, Following
    <3>4. IndicatesSomething'
      BY <2>1 DEF IndicatesSomething
    <3>5. Empty'
      BY <2>1, <2>2, <3>1 DEF Empty
    <3>6. NoLostWakeUp'
      BY <3>1, <3>5 DEF NoLostWakeUp
    <3> QED
      BY <3>2, <3>3, <3>4, <3>6 DEF SerialInv
  <2>3. CASE ~Empty
    <3>1. /\ shell' = "busy" /\ is_full' = FALSE
          /\ ch' = buffer[get_index] /\ get_index' = Following(get_index)
      BY <1>3, <2>3 DEF _serial_int_rx
    <3>2. RxTypeOK'
      <4>1. is_full' \in BOOLEAN
        BY <3>1, Zenon
      <4>2. get_index' \in Index /\ ch' \in Byte
        BY <3>1, SerialAssumption DEF SerialInv, RxTypeOK, Index, Following
      <4> QED
        BY <2>1, <3>1, <4>1, <4>2 DEF SerialInv, RxTypeOK, Index
    <3>3. FullNotEmpty' /\ IndicatesSomething' /\ NoLostWakeUp'
      BY <2>1, <3>1 DEF FullNotEmpty, IndicatesSomething, NoLostWakeUp
    <3> QED
      BY <3>2, <3>3 DEF SerialInv
  <2> QED
    BY <2>2, <2>3
<1>4. CASE rt_sem_take
  BY <1>4, SerialAssumption DEF rt_sem_take, SerialInv, RxTypeOK, FullNotEmpty,
     IndicatesSomething, NoLostWakeUp, Index, Following, Empty
<1>5. CASE finsh_getchar
  BY <1>5 DEF finsh_getchar, SerialInv, RxTypeOK, FullNotEmpty,
     IndicatesSomething, NoLostWakeUp, Index, Following, Empty
<1>6. CASE UNCHANGED rxvars
  BY <1>6 DEF rxvars, SerialInv, RxTypeOK, FullNotEmpty,
     IndicatesSomething, NoLostWakeUp, Index, Following, Empty
<1> QED
  BY <1>1, <1>2, <1>3, <1>4, <1>5, <1>6 DEF RxNext, Shell

LEMMA SerialAlways == RxSpec => []SerialInv
  BY SerialInit, SerialStep, PTL DEF RxSpec

\* The ring and the semaphore stay within their types for every ring size.
THEOREM SerialTypeOK == RxSpec => []RxTypeOK
  BY SerialAlways, PTL DEF SerialInv

\* A full ring always keeps its free place, so equal indices mean an empty ring.
THEOREM SerialFull == RxSpec => []FullNotEmpty
  BY SerialAlways, PTL DEF SerialInv

\* The shell never waits for a semaphore while a byte is waiting for it.
THEOREM SerialWakeUp == RxSpec => []NoLostWakeUp
  BY SerialAlways, PTL DEF SerialInv

-----------------------------------------------------------------------------
\* The ring read from get_index is a sequence of rx_length bytes.
LEMMA ContentsSeq ==
    RxTypeOK => /\ rx_length \in 0 .. RT_SERIAL_RB_BUFSZ - 1
              /\ Contents \in Seq(Byte) /\ Len(Contents) = rx_length
              /\ (rx_length = 0 <=> put_index = get_index)
<1> SUFFICES ASSUME RxTypeOK
             PROVE  /\ rx_length \in 0 .. RT_SERIAL_RB_BUFSZ - 1
                    /\ Contents \in Seq(Byte) /\ Len(Contents) = rx_length
                    /\ (rx_length = 0 <=> put_index = get_index)
  OBVIOUS
<1>1. rx_length \in 0 .. RT_SERIAL_RB_BUFSZ - 1 /\ (rx_length = 0 <=> put_index = get_index)
  BY SerialAssumption DEF RxTypeOK, rx_length, Index
<1>2. \A k \in 1 .. rx_length : Contents[k] \in Byte
  BY <1>1, SerialAssumption DEF RxTypeOK, Contents, Index
<1>3. Contents \in Seq(Byte) /\ Len(Contents) = rx_length
  BY <1>1, <1>2 DEF Contents
<1> QED
  BY <1>1, <1>3

\* A stored byte is the abstract queue's Receive.
LEMMA PutByteReceives ==
    ASSUME RxTypeOK, RxTypeOK', NEW b \in Byte, PutByte(b), UNCHANGED ch
    PROVE  Input!Receive(b)
<1>1. /\ Contents \in Seq(Byte) /\ Len(Contents) = rx_length
      /\ rx_length \in 0 .. RT_SERIAL_RB_BUFSZ - 1
  BY ContentsSeq
<1>2. (Contents \in Seq(Byte) /\ Len(Contents) = rx_length)'
  BY ContentsSeq, PTL
<1>3. put_index' = Following(put_index) /\ buffer' = [buffer EXCEPT ![put_index] = b]
  BY DEF PutByte
<1>4. CASE put_index' # get_index
  <2>1. get_index' = get_index
    BY <1>4 DEF PutByte
  <2>2. rx_length < RT_SERIAL_RB_BUFSZ - 1 /\ rx_length' = rx_length + 1
    BY <1>3, <1>4, <2>1, SerialAssumption DEF RxTypeOK, rx_length, Following, Index
  <2>3. \A k \in 1 .. rx_length : Contents'[k] = Contents[k]
    BY <1>3, <1>4, <2>1, <2>2, <1>1, SerialAssumption DEF RxTypeOK, rx_length, Following, Index, Contents
  <2>4. Contents'[rx_length + 1] = b
    BY <1>3, <1>4, <2>1, <2>2, <1>1, SerialAssumption DEF RxTypeOK, rx_length, Following, Index, Contents
  <2>5. Contents' = Append(Contents, b)
    BY <1>1, <1>2, <2>2, <2>3, <2>4
  <2> QED
    BY <1>1, <2>2, <2>5 DEF Input!Receive
<1>5. CASE put_index' = get_index
  <2>1. get_index' = Following(get_index)
    BY <1>5 DEF PutByte
  <2>2. rx_length = RT_SERIAL_RB_BUFSZ - 1 /\ rx_length' = RT_SERIAL_RB_BUFSZ - 1
    BY <1>3, <1>5, <2>1, SerialAssumption DEF RxTypeOK, rx_length, Following, Index
  <2>3. \A k \in 1 .. rx_length - 1 : Contents'[k] = Contents[k + 1]
    BY <1>3, <1>5, <2>1, <2>2, SerialAssumption DEF RxTypeOK, Following, Index, Contents
  <2>4. Contents'[rx_length] = b
    BY <1>3, <1>5, <2>1, <2>2, SerialAssumption DEF RxTypeOK, Following, Index, Contents
  <2>5. /\ Tail(Contents) \in Seq(Byte) /\ Len(Tail(Contents)) = rx_length - 1
        /\ \A k \in 1 .. rx_length - 1 : Tail(Contents)[k] = Contents[k + 1]
    BY <1>1, <2>2, SerialAssumption
  <2>6. Contents' = Append(Tail(Contents), b)
    <3> DEFINE T == Tail(Contents)
    <3>1. /\ T \in Seq(Byte) /\ Len(T) = rx_length - 1
          /\ \A k \in 1 .. rx_length - 1 : Contents'[k] = T[k]
      BY <2>3, <2>5
    <3> HIDE DEF T
    <3>2. Contents' = Append(T, b)
      BY <1>1, <1>2, <2>2, <2>4, <3>1
    <3> QED
      BY <3>2 DEF T
  <2> QED
    BY <1>1, <2>2, <2>6 DEF Input!Receive
<1> QED
  BY <1>4, <1>5

\* A successful read is the abstract queue's Deliver.
LEMMA ReadDelivers ==
    ASSUME RxTypeOK, RxTypeOK', FullNotEmpty, _serial_int_rx, ~Empty
    PROVE  Input!Deliver
<1>1. /\ Contents \in Seq(Byte) /\ Len(Contents) = rx_length
      /\ rx_length \in 0 .. RT_SERIAL_RB_BUFSZ - 1
      /\ (rx_length = 0 <=> put_index = get_index)
  BY ContentsSeq
<1>2. (Contents \in Seq(Byte) /\ Len(Contents) = rx_length)'
  BY ContentsSeq, PTL
<1>3. /\ ch' = buffer[get_index] /\ get_index' = Following(get_index)
      /\ buffer' = buffer /\ put_index' = put_index
  BY DEF _serial_int_rx
<1>4. put_index # get_index
  BY SerialAssumption DEF FullNotEmpty, Empty, Following, RxTypeOK, Index
<1>5. rx_length > 0 /\ rx_length' = rx_length - 1
  BY <1>1, <1>3, <1>4, SerialAssumption DEF RxTypeOK, rx_length, Following, Index
<1>6. ch' = Contents[1]
  BY <1>1, <1>3, <1>5, SerialAssumption DEF RxTypeOK, Index, Contents
<1>7. \A k \in 1 .. rx_length - 1 : Contents'[k] = Contents[k + 1]
  BY <1>1, <1>3, <1>5, SerialAssumption DEF RxTypeOK, Following, Index, Contents
<1>8. Contents' = Tail(Contents)
  BY <1>1, <1>2, <1>5, <1>7
<1> QED
  BY <1>1, <1>5, <1>6, <1>8 DEF Input!Deliver

\* Serial input implements the abstract queue for every ring size: uart1's
\* handler and the shell's reads neither reorder, duplicate nor invent a byte,
\* and drop only the oldest one of a full ring.
THEOREM SerialImplements == RxSpec => ImplementsQueue
<1>1. RxInit => Input!Init
  <2> SUFFICES ASSUME RxInit PROVE Input!Init
    OBVIOUS
  <2>1. rx_length = 0
    BY DEF RxInit, rx_length
  <2>2. Contents = << >>
    BY <2>1 DEF Contents
  <2> QED
    BY <2>2, SerialAssumption DEF RxInit, Input!Init
<1>2. SerialInv /\ SerialInv' /\ [RxNext]_rxvars => [Input!Next]_<<Contents, ch>>
  <2> SUFFICES ASSUME SerialInv, SerialInv', [RxNext]_rxvars
               PROVE  [Input!Next]_<<Contents, ch>>
    OBVIOUS
  <2> USE DEF SerialInv
  <2>1. ASSUME NEW b \in Byte, uart_isr(b) \/ IsrAgain(b) PROVE Input!Next
    <3>1. PutByte(b) /\ UNCHANGED ch
      BY <2>1 DEF uart_isr, IsrAgain
    <3> QED
      BY <3>1, PutByteReceives DEF Input!Next
  <2>2. CASE _serial_int_rx /\ ~Empty
    BY <2>2, ReadDelivers DEF Input!Next
  <2>3. ASSUME UNCHANGED <<buffer, put_index, get_index, ch>>
        PROVE  UNCHANGED <<Contents, ch>>
    BY <2>3 DEF Contents, rx_length
  <2>4. CASE \/ IsrIndicate \/ (_serial_int_rx /\ Empty)
             \/ rt_sem_take \/ finsh_getchar \/ UNCHANGED rxvars
    <3>1. UNCHANGED <<buffer, put_index, get_index, ch>>
      BY <2>4 DEF IsrIndicate, _serial_int_rx, rt_sem_take, finsh_getchar, rxvars
    <3> QED
      BY <2>3, <3>1
  <2> QED
    BY <2>1, <2>2, <2>4 DEF RxNext, Shell
<1> QED
  BY <1>1, <1>2, SerialAlways, PTL DEF RxSpec, ImplementsQueue, Input!Spec

-----------------------------------------------------------------------------
(* The light link.                                                         *)

USE LightConstants DEF Debounce, MinRate, DarkRate, LightRate, DarkCount, LightCount, Switches

\* What the inits leave behind is in range.
LEMMA TypeInit == LightInit => LightTypeOK
<1>. SUFFICES ASSUME LightInit PROVE LightTypeOK
  OBVIOUS
<1>1. /\ do_pin \in BOOLEAN /\ s_enabled \in BOOLEAN /\ s_dark \in BOOLEAN /\ s_invert \in BOOLEAN
      /\ s_beep_enabled \in BOOLEAN /\ buzzer \in BOOLEAN /\ sample \in BOOLEAN /\ muted \in BOOLEAN
  BY Zenon DEF LightInit, read_do
<1>2. s_refresh_ms \in MinRate..RateMod-1
  BY DEF LightInit, RateFor
<1>. QED BY <1>1, <1>2 DEF LightInit, LightTypeOK

\* sw_oled_rate leaves a period in range whatever its argument.
LEMMA RateRange ==
    ASSUME NEW ms \in Int
    PROVE  AtLeast(AtLeast(ms) % RateMod) \in MinRate..RateMod-1
<1>1. AtLeast(ms) \in Int
  BY DEF AtLeast
<1>2. AtLeast(ms) % RateMod \in 0..RateMod-1
  BY <1>1
<1>. HIDE DEF MinRate
<1>3. MinRate \in 0..RateMod-1
  BY DEF MinRate
<1>. QED BY <1>2, <1>3 DEF AtLeast

\* Every step but a sample.
Other ==
    \/ LightWake \/ LightStore \/ LightMute \/ LightRateStep \/ ShellStep \/ Environment
    \/ UNCHANGED lightvars

\* Steps other than a sample touch neither the counters nor the samples.
LEMMA OtherKeeps ==
    Other => UNCHANGED <<s_dark, dark_cnt, light_cnt, sample, run>>
BY DEF Other, LightWake, LightStore, LightMute, LightRateStep, ShellStep, BeepBegin, BeepEnd,
   cmd_sw_beep, cmd_sw_light, cmd_sw_light_invert, cmd_sw_oled_rate, Environment, lightvars, linkvars,
   outvars

\* Every step is a sample or one of the others.
LEMMA Split == [LightNext]_lightvars => LightSample \/ Other
BY DEF LightNext, LightStep, Other

\* One more sample keeps the counters within their width and the record
\* within its bound.
LEMMA SampleTypes ==
    ASSUME LightTypeOK, LightSample
    PROVE  /\ s_dark' \in BOOLEAN /\ sample' \in BOOLEAN
           /\ dark_cnt' \in 0..CntMod-1 /\ light_cnt' \in 0..CntMod-1
           /\ run' \in 0..MaxRun
<1>1. s_dark' \in BOOLEAN /\ sample' \in BOOLEAN
  BY Zenon DEF LightTypeOK, LightSample, read_do
<1>2. (dark_cnt + 1) % CntMod \in 0..CntMod-1 /\ (light_cnt + 1) % CntMod \in 0..CntMod-1
  BY DEF LightTypeOK
<1>3. dark_cnt' \in 0..CntMod-1 /\ light_cnt' \in 0..CntMod-1
  BY <1>2 DEF LightSample
<1>4. run' = 1 \/ (run < MaxRun /\ run' = run + 1) \/ run' = run
  BY Zenon DEF LightSample
<1>5. run' \in 0..MaxRun
  BY <1>4 DEF LightTypeOK
<1>. QED BY <1>1, <1>3, <1>5

\* Every step keeps every variable in its type.
LEMMA TypeNext == LightTypeOK /\ [LightNext]_lightvars => LightTypeOK'
<1>. SUFFICES ASSUME LightTypeOK, [LightNext]_lightvars PROVE LightTypeOK'
  OBVIOUS
<1>1. /\ s_dark' \in BOOLEAN /\ sample' \in BOOLEAN
      /\ dark_cnt' \in 0..CntMod-1 /\ light_cnt' \in 0..CntMod-1
      /\ run' \in 0..MaxRun
  BY Split, OtherKeeps, SampleTypes DEF LightTypeOK
<1>2. do_pin' \in BOOLEAN /\ s_enabled' \in BOOLEAN /\ s_invert' \in BOOLEAN
  BY Zenon DEF LightTypeOK, LightNext, LightStep, LightWake, LightSample, LightStore, LightMute, LightRateStep,
     ShellStep, BeepBegin, BeepEnd, cmd_sw_beep, cmd_sw_light, cmd_sw_light_invert,
     cmd_sw_oled_rate, Environment, lightvars, linkvars, outvars
<1>3. s_beep_enabled' \in BOOLEAN /\ buzzer' \in BOOLEAN /\ muted' \in BOOLEAN
  BY Zenon DEF LightTypeOK, LightNext, LightStep, LightWake, LightSample, LightStore, LightMute, LightRateStep,
     ShellStep, BeepBegin, BeepEnd, cmd_sw_beep, cmd_sw_light, cmd_sw_light_invert,
     cmd_sw_oled_rate, Environment, lightvars, linkvars, outvars
<1>4. s_refresh_ms' \in MinRate..RateMod-1
  <2>1. \/ s_refresh_ms' = s_refresh_ms
        \/ s_refresh_ms' = RateFor(s_dark)
        \/ \E ms \in Rates : s_refresh_ms' = AtLeast(AtLeast(ms) % RateMod)
    BY Zenon DEF LightNext, LightStep, LightWake, LightSample, LightStore, LightMute, LightRateStep,
       ShellStep, BeepBegin, BeepEnd, cmd_sw_beep, cmd_sw_light, cmd_sw_light_invert,
       cmd_sw_oled_rate, Environment, lightvars, linkvars, outvars
  <2>2. RateFor(s_dark) \in MinRate..RateMod-1
    BY DEF RateFor
  <2>. QED BY <2>1, <2>2, RateRange DEF LightTypeOK
<1>5. /\ light_pc' \in {"delay", "sample", "store", "mute", "rate"}
      /\ shell_pc' \in {"prompt", "beep"}
  BY DEF LightTypeOK, LightNext, LightStep, LightWake, LightSample, LightStore, LightMute, LightRateStep,
     ShellStep, BeepBegin, BeepEnd, cmd_sw_beep, cmd_sw_light, cmd_sw_light_invert,
     cmd_sw_oled_rate, Environment, lightvars, linkvars, outvars
<1>. QED BY <1>1, <1>2, <1>3, <1>4, <1>5 DEF LightTypeOK

\* Counters, periods and flags stay in range whatever the shell is asked to do:
\* sw_oled_rate's two clamps around the narrowing to 16 bits included.
THEOREM TypeCorrect == LightSpec => []LightTypeOK
BY TypeInit, TypeNext, PTL DEF LightSpec

-----------------------------------------------------------------------------
(* The hysteresis.                                                         *)

\* Nothing has been sampled yet.
LEMMA CountingInit == LightInit => Counting
BY DEF LightInit, Counting

\* One more dark sample: either it agrees with s_dark, or it contradicts it for
\* the run'-th time and dark_cnt has counted that exactly: the switch comes
\* before the counter can wrap.
LEMMA SampleDark ==
    ASSUME LightTypeOK, Counting, LightSample, read_do
    PROVE  /\ sample' /\ light_cnt' = 0 /\ run' # 0
           /\ s_dark => s_dark'
           /\ ~s_dark => dark_cnt' = run' /\ run' \in 1..Debounce
           /\ ~s_dark /\ s_dark' => run' >= Debounce
           /\ ~s_dark /\ ~s_dark' => run' < Debounce
<1>. DEFINE c == (dark_cnt + 1) % CntMod
<1>1. /\ dark_cnt \in 0..CntMod-1 /\ run \in 0..MaxRun
      /\ s_dark \in BOOLEAN /\ sample \in BOOLEAN /\ read_do \in BOOLEAN
  BY DEF LightTypeOK, read_do
<1>2. dark_cnt < Debounce => c = dark_cnt + 1
  BY <1>1
<1>3. ~(0 >= Debounce)
  OBVIOUS
<1>. HIDE DEF c
<1>4. sample' /\ dark_cnt' = c /\ light_cnt' = 0
  BY Zenon DEF LightSample, c
<1>5. /\ s_dark => s_dark'
      /\ ~s_dark /\ c >= Debounce => s_dark'
      /\ ~s_dark /\ ~(c >= Debounce) => ~s_dark'
  BY <1>3, Zenon DEF LightSample, c
<1>6. /\ run' = 1 \/ run' = run + 1 \/ run' = run
      /\ ~sample => run' = 1
      /\ run = 0 => run' = 1
      /\ sample /\ run # 0 /\ run < MaxRun => run' = run + 1
  BY <1>1, Zenon DEF LightSample
<1>7. run' # 0
  BY <1>6, <1>1
<1>8. ASSUME ~s_dark PROVE c = run' /\ run' \in 1..Debounce
  <2>1. ~sample => dark_cnt = 0
    BY DEF Counting
  <2>2. sample => run # 0 /\ run < Debounce /\ dark_cnt = run
    BY <1>8, Zenon DEF Counting
  <2>. QED BY <2>1, <2>2, <1>6, <1>1, <1>2
<1>9. /\ ~s_dark /\ s_dark' => c >= Debounce
      /\ ~s_dark /\ ~s_dark' => ~(c >= Debounce)
  BY <1>5, Zenon
<1>. QED BY <1>4, <1>5, <1>7, <1>8, <1>9

\* The same for a light sample.
LEMMA SampleLight ==
    ASSUME LightTypeOK, Counting, LightSample, ~read_do
    PROVE  /\ ~sample' /\ dark_cnt' = 0 /\ run' # 0
           /\ ~s_dark => ~s_dark'
           /\ s_dark => light_cnt' = run' /\ run' \in 1..Debounce
           /\ s_dark /\ ~s_dark' => run' >= Debounce
           /\ s_dark /\ s_dark' => run' < Debounce
<1>. DEFINE c == (light_cnt + 1) % CntMod
<1>1. /\ light_cnt \in 0..CntMod-1 /\ run \in 0..MaxRun
      /\ s_dark \in BOOLEAN /\ sample \in BOOLEAN /\ read_do \in BOOLEAN
  BY DEF LightTypeOK, read_do
<1>2. light_cnt < Debounce => c = light_cnt + 1
  BY <1>1
<1>3. ~(0 >= Debounce)
  OBVIOUS
<1>. HIDE DEF c
<1>4. ~sample' /\ light_cnt' = c /\ dark_cnt' = 0
  BY Zenon DEF LightSample, c
<1>5. /\ ~s_dark => ~s_dark'
      /\ s_dark /\ c >= Debounce => ~s_dark'
      /\ s_dark /\ ~(c >= Debounce) => s_dark'
  BY <1>3, Zenon DEF LightSample, c
<1>6. /\ run' = 1 \/ run' = run + 1 \/ run' = run
      /\ sample => run' = 1
      /\ run = 0 => run' = 1
      /\ ~sample /\ run # 0 /\ run < MaxRun => run' = run + 1
  BY <1>1, Zenon DEF LightSample
<1>7. run' # 0
  BY <1>6, <1>1
<1>8. ASSUME s_dark PROVE c = run' /\ run' \in 1..Debounce
  <2>1. sample => light_cnt = 0
    BY DEF Counting
  <2>2. ~sample => run # 0 /\ run < Debounce /\ light_cnt = run
    BY <1>8, Zenon DEF Counting
  <2>. QED BY <2>1, <2>2, <1>6, <1>1, <1>2
<1>9. /\ s_dark /\ ~s_dark' => c >= Debounce
      /\ s_dark /\ s_dark' => ~(c >= Debounce)
  BY <1>5, Zenon
<1>. QED BY <1>4, <1>5, <1>7, <1>8, <1>9

\* So a sample keeps the counting.
LEMMA CountingSample == LightTypeOK /\ Counting /\ LightSample => Counting'
<1>. SUFFICES ASSUME LightTypeOK, Counting, LightSample PROVE Counting'
  OBVIOUS
<1>1. CASE read_do
  BY <1>1, SampleDark, Zenon DEF Counting
<1>2. CASE ~read_do
  BY <1>2, SampleLight, Zenon DEF Counting
<1>. QED BY <1>1, <1>2

\* No other step disturbs the counting.
LEMMA CountingNext == LightTypeOK /\ Counting /\ [LightNext]_lightvars => Counting'
<1>. SUFFICES ASSUME LightTypeOK, Counting, [LightNext]_lightvars PROVE Counting'
  OBVIOUS
<1>1. CASE LightSample
  BY <1>1, CountingSample
<1>2. CASE Other
  BY <1>2, OtherKeeps DEF Counting
<1>. QED BY <1>1, <1>2, Split

\* The hysteresis neither misses nor anticipates a change of light, however
\* often the 8-bit counters have wrapped.
THEOREM HysteresisCorrect == LightSpec => []HysteresisExact
<1>1. LightTypeOK /\ Counting => HysteresisExact
  <2>. SUFFICES ASSUME LightTypeOK, Counting, run >= Debounce PROVE s_dark = sample
    BY DEF HysteresisExact
  <2>1. ~(run < Debounce)
    BY DEF LightTypeOK
  <2>2. s_dark \in BOOLEAN /\ sample \in BOOLEAN
    BY DEF LightTypeOK
  <2>3. CASE s_dark
    BY <2>1, <2>2, <2>3, Zenon DEF Counting
  <2>4. CASE ~s_dark
    BY <2>1, <2>2, <2>4, Zenon DEF Counting
  <2>. QED BY <2>3, <2>4
<1>. QED BY <1>1, TypeInit, TypeNext, CountingInit, CountingNext, PTL DEF LightSpec

\* s_dark only changes when Debounce samples in a row contradicted it.
THEOREM SwitchCorrect == LightSpec => SwitchJustified
<1>1. LightTypeOK /\ Counting /\ [LightNext]_lightvars
        => [s_dark' # s_dark => run' >= Debounce /\ s_dark' = sample']_lightvars
  <2>. SUFFICES ASSUME LightTypeOK, Counting, [LightNext]_lightvars, s_dark' # s_dark
                PROVE  run' >= Debounce /\ s_dark' = sample'
    OBVIOUS
  <2>1. LightSample
    BY Split, OtherKeeps
  <2>2. s_dark \in BOOLEAN /\ s_dark' \in BOOLEAN /\ sample' \in BOOLEAN
    BY TypeNext DEF LightTypeOK
  <2>3. CASE read_do
    BY <2>1, <2>2, <2>3, SampleDark, Zenon
  <2>4. CASE ~read_do
    BY <2>1, <2>2, <2>4, SampleLight, Zenon
  <2>. QED BY <2>3, <2>4
<1>. QED BY <1>1, TypeInit, TypeNext, CountingInit, CountingNext, PTL DEF LightSpec, SwitchJustified

-----------------------------------------------------------------------------
(* The buzzer.                                                             *)

\* MutedSilent strengthened: what is left to be silenced at "mute" is what the
\* light thread itself has just muted.
Silencing ==
    /\ MutedSilent
    /\ light_pc = "mute" /\ buzzer /\ ~s_beep_enabled => s_dark

\* Every step keeps the buzzer silent while muted.
LEMMA SilencingNext == Silencing /\ [LightNext]_lightvars => Silencing'
<1>. SUFFICES ASSUME Silencing, [LightNext]_lightvars PROVE Silencing'
  OBVIOUS
<1>. USE DEF Silencing, MutedSilent, linkvars, outvars
<1>1. CASE LightWake \/ LightRateStep \/ UNCHANGED lightvars
  BY <1>1 DEF LightWake, LightRateStep, lightvars
<1>2. CASE LightSample
  BY <1>2 DEF LightSample
<1>3. CASE LightStore
  BY <1>3, Zenon DEF LightStore
<1>4. CASE LightMute
  <2>1. light_pc' = "rate" /\ light_pc = "mute" /\ s_dark' = s_dark /\ s_beep_enabled' = s_beep_enabled
    BY <1>4 DEF LightMute
  <2>2. buzzer' => buzzer /\ (s_beep_enabled \/ ~s_dark)
    <3>1. PICK flag \in {~s_dark, s_beep_enabled} : buzzer' = IF flag THEN buzzer ELSE FALSE
      BY <1>4, Zenon DEF LightMute
    <3>2. buzzer' => buzzer /\ flag
      BY <3>1, Zenon
    <3>3. flag => s_beep_enabled \/ ~s_dark
      BY <3>1, Zenon
    <3>. QED BY <3>2, <3>3, Zenon
  <2>3. ~(buzzer' /\ ~s_beep_enabled)
    BY <2>1, <2>2, Zenon
  <2>. QED BY <2>1, <2>3
<1>5. CASE BeepBegin \/ BeepEnd
  BY <1>5 DEF BeepBegin, BeepEnd
<1>6. ASSUME NEW on \in BOOLEAN, cmd_sw_beep(on) PROVE Silencing'
  BY <1>6 DEF cmd_sw_beep
<1>7. ASSUME NEW on \in BOOLEAN, cmd_sw_light(on) \/ cmd_sw_light_invert(on) PROVE Silencing'
  BY <1>7 DEF cmd_sw_light, cmd_sw_light_invert
<1>8. ASSUME NEW ms \in Rates, cmd_sw_oled_rate(ms) PROVE Silencing'
  BY <1>8 DEF cmd_sw_oled_rate
<1>9. CASE Environment
  BY <1>9 DEF Environment
<1>. QED BY <1>1, <1>2, <1>3, <1>4, <1>5, <1>6, <1>7, <1>8, <1>9 DEF LightNext, LightStep, ShellStep

\* A muted buzzer is silent but for the instant between the light thread's two
\* writes, even though the shell and the light thread share flag and pin
\* without a lock.
THEOREM MuteCorrect == LightSpec => []MutedSilent
<1>1. LightInit => Silencing
  BY DEF LightInit, Silencing, MutedSilent
<1>2. Silencing => MutedSilent
  BY DEF Silencing
<1>. QED BY <1>1, <1>2, SilencingNext, PTL DEF LightSpec

\* The buzzer never sounds outside the delay of notifier_beep_once: whoever
\* mutes or unmutes it, a beep cannot stick.
THEOREM BeepCorrect == LightSpec => []SoundsInBeep
<1>1. LightInit => SoundsInBeep
  BY DEF LightInit, SoundsInBeep
<1>2. SoundsInBeep /\ [LightNext]_lightvars => SoundsInBeep'
  BY DEF SoundsInBeep, LightNext, LightStep, LightWake, LightSample, LightStore, LightMute,
     LightRateStep, ShellStep, BeepBegin, BeepEnd, cmd_sw_beep, cmd_sw_light, cmd_sw_light_invert,
     cmd_sw_oled_rate, Environment, lightvars, linkvars, outvars
<1>. QED BY <1>1, <1>2, PTL DEF LightSpec

\* BuzzerObeys for every instance: both users of the buzzer's flag and pin get
\* what they asked for.
THEOREM BuzzerCorrect == LightSpec => []BuzzerObeys
<1>1. MutedSilent /\ SoundsInBeep => BuzzerObeys
  BY DEF BuzzerObeys
<1>. QED BY <1>1, MuteCorrect, BeepCorrect, PTL

-----------------------------------------------------------------------------
(* The command line.                                                       *)

\* A line is a sequence of characters, none of them MshNul.
LEMMA LineOf ==
    ASSUME NEW ln \in Lines
    PROVE  /\ Len(ln) \in 1 .. MaxLength /\ Len(ln) \in Nat /\ DOMAIN ln = 1 .. Len(ln)
           /\ ln \in Seq(Char)
           /\ \A k \in 1 .. Len(ln) : ln[k] \in Char /\ ln[k] # MshNul
<1>1. PICK n \in 1 .. MaxLength : ln \in [1 .. n -> Char]
  BY DEF Lines
<1>2. n \in Nat /\ Len(ln) = n /\ DOMAIN ln = 1 .. n /\ ln \in Seq(Char)
  BY <1>1, SplitAssumption
<1>3. \A k \in 1 .. n : ln[k] \in Char /\ ln[k] # MshNul
  BY <1>1 DEF Char, MshNul
<1>. QED BY <1>1, <1>2, <1>3

\* Where the next argument begins.
LEMMA NextBeginIs ==
    ASSUME NEW ln \in Lines, NEW p \in Nat \ {0}
    PROVE  /\ NextBegin(ln, p) \in 1 .. Len(ln) + 1
           /\ NextBegin(ln, p) <= Len(ln) => p <= NextBegin(ln, p) /\ ln[NextBegin(ln, p)] # "sp"
           /\ \A j \in p .. Len(ln) : ln[j] # "sp" => NextBegin(ln, p) <= j
<1>. DEFINE T == {k \in p .. Len(ln) : ln[k] # "sp"} \cup {Len(ln) + 1}
<1>1. T \subseteq Nat /\ T # {} /\ Len(ln) \in Nat
  BY LineOf
<1>2. Min(T) \in T /\ \A y \in T : Min(T) <= y
  <2>. HIDE DEF T
  <2>. QED BY <1>1, LeastOf
<1>3. NextBegin(ln, p) = Min(T)
  BY DEF NextBegin
<1>. DEFINE m == Min(T)
<1>. HIDE DEF m
<1>4. m \in T /\ (\A y \in T : m <= y) /\ NextBegin(ln, p) = m
  BY <1>2, <1>3 DEF m
<1>. QED BY <1>1, <1>4

\* A place with only blanks before it is the next beginning.
LEMMA NextBeginAt ==
    ASSUME NEW ln \in Lines, NEW p \in Nat \ {0}, NEW r \in 1 .. Len(ln) + 1,
           p <= r, \A j \in p .. r - 1 : ln[j] = "sp", r <= Len(ln) => ln[r] # "sp"
    PROVE  NextBegin(ln, p) = r
<1>. DEFINE m == NextBegin(ln, p)
<1>1. /\ m \in 1 .. Len(ln) + 1
      /\ m <= Len(ln) => p <= m /\ ln[m] # "sp"
      /\ \A j \in p .. Len(ln) : ln[j] # "sp" => m <= j
  BY NextBeginIs
<1>2. Len(ln) \in Nat
  BY LineOf
<1>. HIDE DEF m
<1>3. m <= r
  <2>1. CASE r = Len(ln) + 1
    BY <1>1, <1>2, <2>1
  <2>2. CASE r <= Len(ln)
    BY <1>1, <1>2, <2>2
  <2>. QED BY <1>2, <2>1, <2>2
<1>4. ~(m < r)
  <2>. SUFFICES ASSUME m < r PROVE FALSE
    OBVIOUS
  <2>1. m <= Len(ln) /\ m \in p .. r - 1
    BY <1>1, <1>2
  <2>. QED BY <1>1, <2>1
<1>5. m = r
  BY <1>1, <1>2, <1>3, <1>4
<1>. QED BY <1>5 DEF m

\* Where an argument ends.
LEMMA ToIs ==
    ASSUME NEW ln \in Lines, NEW b \in 1 .. Len(ln) + 1
    PROVE  /\ From(ln, b) \in b .. Len(ln) + 1 /\ To(ln, b) \in From(ln, b) .. Len(ln) + 1
           /\ To(ln, b) <= Len(ln) => Closes(ln, b, To(ln, b))
           /\ \A j \in From(ln, b) .. To(ln, b) - 1 : ~Closes(ln, b, j)
           /\ After(ln, b) \in Nat \ {0}
<1>. DEFINE f == From(ln, b)
            T == {k \in f .. Len(ln) : Closes(ln, b, k)} \cup {Len(ln) + 1}
            t == To(ln, b)
<1>1. Len(ln) \in Nat /\ f \in b .. Len(ln) + 1
  BY LineOf DEF From, Quoted
<1>. HIDE DEF f
<1>2. T \subseteq Nat /\ T # {}
  BY <1>1
<1>3. Min(T) \in T /\ \A y \in T : Min(T) <= y
  <2>. HIDE DEF T
  <2>. QED BY <1>2, LeastOf
<1>4. t = Min(T)
  BY DEF To, f
<1>. HIDE DEF t
<1>5. t \in T /\ \A y \in T : t <= y
  BY <1>3, <1>4
<1>6. t \in f .. Len(ln) + 1 /\ (t <= Len(ln) => Closes(ln, b, t))
  BY <1>1, <1>5
<1>7. ASSUME NEW j \in f .. t - 1 PROVE ~Closes(ln, b, j)
  BY <1>1, <1>5, <1>6, <1>7
<1>8. After(ln, b) \in Nat \ {0}
  BY <1>1, <1>6 DEF After, t
<1>. QED BY <1>1, <1>6, <1>7, <1>8 DEF f, t

\* The first place that closes an argument is its end.
LEMMA ToAt ==
    ASSUME NEW ln \in Lines, NEW b \in 1 .. Len(ln) + 1, NEW r \in From(ln, b) .. Len(ln) + 1,
           \A j \in From(ln, b) .. r - 1 : ~Closes(ln, b, j), r <= Len(ln) => Closes(ln, b, r)
    PROVE  To(ln, b) = r
<1>. DEFINE f == From(ln, b)
            t == To(ln, b)
<1>1. /\ Len(ln) \in Nat /\ f \in b .. Len(ln) + 1 /\ t \in f .. Len(ln) + 1
      /\ t <= Len(ln) => Closes(ln, b, t)
      /\ \A j \in f .. t - 1 : ~Closes(ln, b, j)
  BY ToIs, LineOf
<1>. HIDE DEF f, t
<1>2. r \in f .. Len(ln) + 1 /\ \A j \in f .. r - 1 : ~Closes(ln, b, j)
  BY DEF f
<1>3. ~(t < r)
  <2>. SUFFICES ASSUME t < r PROVE FALSE
    OBVIOUS
  <2>1. t <= Len(ln) /\ t \in f .. r - 1
    BY <1>1, <1>2
  <2>. QED BY <1>1, <1>2, <2>1
<1>4. ~(r < t)
  <2>. SUFFICES ASSUME r < t PROVE FALSE
    OBVIOUS
  <2>1. r <= Len(ln) /\ r \in f .. t - 1
    BY <1>1, <1>2
  <2>. QED BY <1>1, <1>2, <2>1
<1>5. t = r
  BY <1>1, <1>2, <1>3, <1>4
<1>. QED BY <1>5 DEF t

\* The places where arguments begin are well defined.
LEMMA BeginsSteps ==
    ASSUME NEW ln
    PROVE  /\ Begins(ln)[0] = NextBegin(ln, 1)
           /\ \A k \in 1 .. FINSH_ARG_MAX : Begins(ln)[k] = NextBegin(ln, After(ln, Begins(ln)[k - 1]))
<1>. DEFINE B(n, f) == [k \in 0 .. n |-> NextBegin(ln, IF k = 0 THEN 1 ELSE After(ln, f[k - 1]))]
            Upto(n) == \E f : f = B(n, f)
            G == {n \in Nat : Upto(n)}
<1>0. FINSH_ARG_MAX \in Nat
  BY SplitAssumption
<1>1. Upto(0)
  <2>. DEFINE f == [k \in 0 .. 0 |-> NextBegin(ln, 1)]
  <2>1. f = B(0, f)
    OBVIOUS
  <2>. QED BY <2>1
<1>2. ASSUME NEW n \in Nat, Upto(n) PROVE Upto(n + 1)
  <2>1. PICK g : g = B(n, g)
    BY <1>2
  <2>. DEFINE f == [k \in 0 .. n + 1 |-> IF k = n + 1 THEN NextBegin(ln, After(ln, g[n])) ELSE g[k]]
  <2>2. ASSUME NEW k \in 0 .. n + 1
        PROVE  f[k] = NextBegin(ln, IF k = 0 THEN 1 ELSE After(ln, f[k - 1]))
    <3>1. CASE k = n + 1
      <4>1. f[k] = NextBegin(ln, After(ln, g[n])) /\ k # 0
        BY <3>1
      <4>2. f[k - 1] = g[n]
        BY <3>1
      <4>. QED BY <4>1, <4>2
    <3>2. CASE k \in 0 .. n
      <4>1. f[k] = g[k]
        BY <3>2
      <4>2. g[k] = NextBegin(ln, IF k = 0 THEN 1 ELSE After(ln, g[k - 1]))
        BY <2>1, <3>2
      <4>3. k # 0 => f[k - 1] = g[k - 1]
        BY <3>2
      <4>. QED BY <4>1, <4>2, <4>3
    <3>. QED BY <3>1, <3>2
  <2>3. f = [k \in 0 .. n + 1 |-> f[k]]
    OBVIOUS
  <2>. HIDE DEF f
  <2>4. f = B(n + 1, f)
    BY <2>2, <2>3
  <2>. QED BY <2>4
<1>3. Upto(FINSH_ARG_MAX)
  <2>. HIDE DEF Upto
  <2>1. 0 \in G /\ \A n \in 1 .. FINSH_ARG_MAX : n - 1 \in G => n \in G
    BY <1>0, <1>1, <1>2
  <2>. HIDE DEF G
  <2>2. \A n \in 0 .. FINSH_ARG_MAX : n \in G
    BY <1>0, <2>1, Along
  <2>3. FINSH_ARG_MAX \in G
    BY <1>0, <2>2
  <2>. QED BY <2>3 DEF G
<1>4. Begins(ln) = B(FINSH_ARG_MAX, Begins(ln))
  BY <1>3, Zenon DEF Begins
<1>. DEFINE A == Begins(ln)
<1>. HIDE DEF A
<1>5. A = B(FINSH_ARG_MAX, A)
  BY <1>4 DEF A
<1>6. A[0] = NextBegin(ln, 1)
  BY <1>0, <1>5
<1>7. ASSUME NEW k \in 1 .. FINSH_ARG_MAX PROVE A[k] = NextBegin(ln, After(ln, A[k - 1]))
  BY <1>0, <1>5
<1>. QED BY <1>6, <1>7 DEF A

\* They are places of the line or the one behind it, and stay there.
LEMMA BeginsRange ==
    ASSUME NEW ln \in Lines
    PROVE  /\ \A k \in 0 .. FINSH_ARG_MAX : Begins(ln)[k] \in 1 .. Len(ln) + 1
           /\ \A n \in 0 .. FINSH_ARG_MAX : Begins(ln)[n] > Len(ln) =>
                \A k \in n .. FINSH_ARG_MAX : Begins(ln)[k] > Len(ln)
<1>. DEFINE B == Begins(ln)
            G == {k \in 0 .. FINSH_ARG_MAX : B[k] \in 1 .. Len(ln) + 1}
<1>0. FINSH_ARG_MAX \in Nat /\ Len(ln) \in Nat
  BY SplitAssumption, LineOf
<1>1. B[0] = NextBegin(ln, 1) /\ \A k \in 1 .. FINSH_ARG_MAX : B[k] = NextBegin(ln, After(ln, B[k - 1]))
  BY BeginsSteps
<1>. HIDE DEF B
<1>2. 0 \in G
  BY <1>0, <1>1, NextBeginIs
<1>3. ASSUME NEW k \in 1 .. FINSH_ARG_MAX, k - 1 \in G PROVE k \in G
  <2>1. After(ln, B[k - 1]) \in Nat \ {0}
    BY <1>3, ToIs
  <2>. QED BY <1>0, <1>1, <2>1, NextBeginIs
<1>. HIDE DEF G
<1>4. \A k \in 0 .. FINSH_ARG_MAX : k \in G
  BY <1>0, <1>2, <1>3, Along
<1>5. \A k \in 0 .. FINSH_ARG_MAX : B[k] \in 1 .. Len(ln) + 1
  BY <1>4 DEF G
<1>6. ASSUME NEW k \in 1 .. FINSH_ARG_MAX, B[k - 1] > Len(ln) PROVE B[k] > Len(ln)
  <2>1. k - 1 \in 0 .. FINSH_ARG_MAX /\ k \in 0 .. FINSH_ARG_MAX
    BY <1>0
  <2>2. B[k - 1] = Len(ln) + 1
    BY <1>0, <1>5, <1>6, <2>1
  <2>3. ~Quoted(ln, B[k - 1]) /\ From(ln, B[k - 1]) = Len(ln) + 1
    BY <1>0, <2>2 DEF Quoted, From
  <2>4. After(ln, B[k - 1]) = Len(ln) + 1
    BY <1>0, <1>5, <2>1, <2>3, ToIs DEF After
  <2>5. NextBegin(ln, Len(ln) + 1) = Len(ln) + 1
    BY <1>0, NextBeginIs
  <2>. QED BY <1>0, <1>1, <2>4, <2>5
<1>7. ASSUME NEW n \in 0 .. FINSH_ARG_MAX, B[n] > Len(ln), NEW k \in n .. FINSH_ARG_MAX
      PROVE  B[k] > Len(ln)
  <2>. DEFINE H == {j \in 0 .. FINSH_ARG_MAX : j >= n => B[j] > Len(ln)}
  <2>1. 0 \in H
    BY <1>0, <1>7
  <2>2. ASSUME NEW j \in 1 .. FINSH_ARG_MAX, j - 1 \in H PROVE j \in H
    <3>1. CASE j > n
      <4>1. B[j - 1] > Len(ln)
        BY <2>2, <3>1
      <4>2. B[j] > Len(ln)
        BY <1>6, <4>1
      <4>. QED BY <4>2
    <3>2. CASE j <= n
      BY <1>7, <3>2
    <3>. QED BY <3>1, <3>2
  <2>. HIDE DEF H
  <2>3. \A j \in 0 .. FINSH_ARG_MAX : j \in H
    BY <1>0, <2>1, <2>2, Along
  <2>4. k \in H /\ k >= n
    BY <1>0, <2>3
  <2>. QED BY <2>4 DEF H
<1>. QED BY <1>5, <1>7 DEF B

\* Argument b of line s is in memory c, and starts at place a.
Stored(ln, c, a, b) ==
    /\ b \in 1 .. Len(ln) /\ a = From(ln, b)
    /\ \A j \in From(ln, b) .. To(ln, b) - 1 : c[j] = ln[j]

\* The blank that ends the argument just read is still to be overwritten.
Pending(b) == pc = "strip" /\ To(typed, b) = ptr /\ ptr <= Len(typed) /\ typed[ptr] = "sp"

Reading == pc \in {"exec", "lookup", "strip", "string", "word"}
Splitting == pc \in {"strip", "string", "word", "run"}

\* The line in memory, and the places in it.
LineInv ==
    /\ typed \in Lines
    /\ cmd \in [1 .. MaxLength + 2 -> Char \cup {MshNul}]
    /\ \A j \in Len(typed) + 1 .. MaxLength + 2 : cmd[j] = MshNul
    /\ start \in 1 .. Len(typed) + 1 /\ length \in 0 .. MaxLength
    /\ start + length = Len(typed) + 1
    /\ ptr \in 1 .. Len(typed) + 1
    /\ argv \in Seq(Nat) /\ Len(argv) <= FINSH_ARG_MAX
    /\ pc \in {"exec", "lookup", "strip", "string", "word", "run", "nothing", "unknown"}
    /\ Reading => \A j \in ptr .. Len(typed) : cmd[j] = typed[j]

\* The first word is known before anything is overwritten.
NameInv ==
    /\ pc = "exec" => start = 1 /\ ptr = 1 /\ argv = << >>
    /\ pc = "lookup" => /\ start = NextBegin(typed, 1) /\ start <= Len(typed)
                        /\ ptr = start /\ argv = << >>
    /\ pc = "nothing" => \A j \in 1 .. Len(typed) : typed[j] = "sp"
    /\ Splitting => LET b == Begins(typed)[0]
                    IN  /\ b <= Len(typed) /\ ~Quoted(typed, b)
                        /\ SubSeq(typed, b, To(typed, b) - 1) \in Known

\* The arguments read so far are stored and closed, but for the blank behind the
\* last one, and reading goes on where the next one begins.
ReadInv ==
    Splitting =>
      /\ \A k \in 1 .. Len(argv) :
           LET b == Begins(typed)[k - 1]
           IN  /\ Stored(typed, cmd, argv[k], b)
               /\ To(typed, b) <= ptr
               /\ cmd[To(typed, b)] = MshNul \/ Pending(b)
      /\ pc = "strip" => NextBegin(typed, ptr) = Begins(typed)[Len(argv)]
      /\ pc \in {"string", "word"} =>
           /\ ptr = Begins(typed)[Len(argv)] /\ ptr <= Len(typed)
           /\ Len(argv) < FINSH_ARG_MAX
           /\ (pc = "string") <=> Quoted(typed, ptr)
      /\ pc = "run" => Len(argv) = FINSH_ARG_MAX \/ Begins(typed)[Len(argv)] > Len(typed)

MshInv == LineInv /\ NameInv /\ ReadInv

\* position >= length in the code is the end of the line as typed.
LEMMA EndOfLine ==
    ASSUME LineInv, NEW p \in Int
    PROVE  AtEnd(p) <=> p >= Len(typed) + 1
<1>1. start \in Int /\ length \in Int /\ Len(typed) \in Int /\ start + length = Len(typed) + 1
  <2>1. typed \in Lines /\ MaxLength \in Nat
    BY SplitAssumption DEF LineInv
  <2>2. Len(typed) \in Nat
    BY <2>1, LineOf
  <2>3. start \in 1 .. Len(typed) + 1 /\ length \in 0 .. MaxLength /\ start + length = Len(typed) + 1
    BY Zenon DEF LineInv
  <2>. QED BY <2>1, <2>2, <2>3
<1>. QED BY <1>1 DEF AtEnd

\* The memory has room for the line and a MshNul.
LEMMA MemoryOf ==
    ASSUME LineInv
    PROVE  /\ typed \in Lines /\ Len(typed) \in 1 .. MaxLength /\ Len(typed) \in Nat /\ MaxLength \in Nat
           /\ Len(cmd) = MaxLength + 2 /\ DOMAIN cmd = 1 .. MaxLength + 2
           /\ cmd[Len(typed) + 1] = MshNul
<1>1. /\ typed \in Lines /\ cmd \in [1 .. MaxLength + 2 -> Char \cup {MshNul}]
      /\ \A j \in Len(typed) + 1 .. MaxLength + 2 : cmd[j] = MshNul
      /\ MaxLength \in Nat
  BY SplitAssumption DEF LineInv
<1>2. Len(typed) \in 1 .. MaxLength /\ Len(typed) \in Nat
  BY <1>1, LineOf
<1>3. Len(cmd) = MaxLength + 2 /\ DOMAIN cmd = 1 .. MaxLength + 2
  BY <1>1
<1>4. Len(typed) + 1 \in Len(typed) + 1 .. MaxLength + 2
  BY <1>1, <1>2
<1>. QED BY <1>1, <1>2, <1>3, <1>4

\* A loop that runs to the next character that is not a blank.
LEMMA SkipBlanks ==
    ASSUME LineInv, Reading, NEW T,
           T = {k \in ptr .. Len(cmd) : cmd[k] # "sp" \/ AtEnd(k)}
    PROVE  /\ Min(T) = NextBegin(typed, ptr) /\ ptr <= Min(T) /\ Min(T) <= Len(typed) + 1
           /\ \A j \in ptr .. Min(T) - 1 : typed[j] = "sp"
<1>. DEFINE N == Len(typed)
            m == Min(T)
<1>1. /\ typed \in Lines /\ N \in Nat /\ Len(cmd) = MaxLength + 2 /\ N + 1 <= Len(cmd)
      /\ cmd[N + 1] = MshNul /\ ptr \in 1 .. N + 1
      /\ \A j \in ptr .. N : cmd[j] = typed[j]
      /\ Len(cmd) \in Nat
  <2>1. \A j \in ptr .. N : cmd[j] = typed[j]
    BY DEF LineInv
  <2>2. ptr \in 1 .. N + 1
    BY DEF LineInv
  <2>. QED BY <2>1, <2>2, MemoryOf
<1>2. \A k \in Int : AtEnd(k) <=> k >= N + 1
  BY EndOfLine
<1>. HIDE DEF N
<1>3. T \subseteq Nat /\ N + 1 \in T
  BY <1>1, <1>2
<1>4. m \in T /\ \A y \in T : m <= y
  BY <1>3, LeastOf
<1>. HIDE DEF m
<1>5. m \in 1 .. N + 1 /\ ptr <= m
  BY <1>1, <1>3, <1>4
<1>6. m <= N => typed[m] # "sp"
  BY <1>1, <1>2, <1>4, <1>5
<1>7. ASSUME NEW j \in ptr .. m - 1 PROVE typed[j] = "sp"
  <2>1. j \in ptr .. N /\ j \in ptr .. Len(cmd) /\ ~(m <= j)
    BY <1>1, <1>5
  <2>2. j \notin T
    BY <1>4, <2>1
  <2>. QED BY <1>1, <2>1, <2>2
<1>8. NextBegin(typed, ptr) = m
  BY <1>1, <1>5, <1>6, <1>7, NextBeginAt DEF N
<1>. QED BY <1>5, <1>7, <1>8 DEF m, N

\* A loop that runs to the end of the argument that begins at ptr.
LEMMA SkipArgument ==
    ASSUME LineInv, Reading, ptr <= Len(typed), typed[ptr] # "sp", NEW T,
           T = {k \in From(typed, ptr) .. Len(cmd) :
                  \/ AtEnd(k)
                  \/ IF Quoted(typed, ptr) THEN cmd[k] = "q" /\ cmd[k - 1] # "esc" ELSE cmd[k] = "sp"}
    PROVE  Min(T) = To(typed, ptr)
<1>. DEFINE N == Len(typed)
            m == Min(T)
            f == From(typed, ptr)
<1>1. /\ typed \in Lines /\ N \in Nat /\ Len(cmd) = MaxLength + 2 /\ N + 1 <= Len(cmd)
      /\ ptr \in 1 .. N + 1 /\ ptr <= N
      /\ \A j \in ptr .. N : cmd[j] = typed[j]
      /\ Len(cmd) \in Nat
  <2>1. \A j \in ptr .. N : cmd[j] = typed[j]
    BY DEF LineInv
  <2>2. ptr \in 1 .. N + 1
    BY DEF LineInv
  <2>. QED BY <2>1, <2>2, MemoryOf
<1>2. \A k \in Int : AtEnd(k) <=> k >= N + 1
  BY EndOfLine
<1>3. f \in ptr .. N + 1 /\ (Quoted(typed, ptr) => f = ptr + 1)
  BY <1>1 DEF From, Quoted
<1>. HIDE DEF f
<1>4. ASSUME NEW j \in f .. N
      PROVE  j \in T <=> Closes(typed, ptr, j)
  <2>1. j \in ptr .. N /\ j \in f .. Len(cmd) /\ ~AtEnd(j) /\ cmd[j] = typed[j]
    BY <1>1, <1>2, <1>3
  <2>2. CASE Quoted(typed, ptr)
    <3>1. j - 1 \in ptr .. N
      BY <1>1, <1>3, <2>2
    <3>2. cmd[j - 1] = typed[j - 1]
      BY <1>1, <3>1
    <3>. QED BY <2>1, <2>2, <3>2 DEF Closes, f
  <2>3. CASE ~Quoted(typed, ptr)
    BY <2>1, <2>3 DEF Closes, f
  <2>. QED BY <2>2, <2>3
<1>5. T \subseteq f .. Len(cmd) /\ N + 1 \in T
  BY <1>1, <1>2, <1>3 DEF f
<1>6. T \subseteq Nat /\ T # {}
  BY <1>1, <1>3, <1>5
<1>7. m \in T /\ \A y \in T : m <= y
  <2>. HIDE DEF N
  <2>. QED BY <1>6, LeastOf
<1>. HIDE DEF m, N
<1>8. m \in f .. N + 1
  BY <1>1, <1>3, <1>5, <1>7
<1>9. m <= N => Closes(typed, ptr, m)
  BY <1>1, <1>3, <1>4, <1>7, <1>8
<1>10. ASSUME NEW j \in f .. m - 1 PROVE ~Closes(typed, ptr, j)
  <2>1. j \in f .. N /\ ~(m <= j)
    BY <1>1, <1>3, <1>8
  <2>2. j \notin T
    BY <1>7, <2>1
  <2>. QED BY <1>4, <2>1, <2>2
<1>11. To(typed, ptr) = m
  BY <1>1, <1>8, <1>9, <1>10, ToAt DEF N, f
<1>. QED BY <1>11 DEF m

\* The shell hands over a line that has not been touched.
LEMMA MshStarts == MshInit => MshInv
<1>. SUFFICES ASSUME MshInit PROVE MshInv
  OBVIOUS
<1>0. typed \in Lines /\ Len(typed) \in 1 .. MaxLength /\ Len(typed) \in Nat
      /\ MaxLength \in Nat /\ FINSH_ARG_MAX \in Nat
      /\ \A k \in 1 .. Len(typed) : typed[k] \in Char
  BY LineOf, SplitAssumption DEF MshInit
<1>1. cmd \in [1 .. MaxLength + 2 -> Char \cup {MshNul}]
  BY <1>0 DEF MshInit
<1>2. \A j \in Len(typed) + 1 .. MaxLength + 2 : cmd[j] = MshNul
  BY <1>0 DEF MshInit
<1>3. \A j \in 1 .. Len(typed) : cmd[j] = typed[j]
  BY <1>0 DEF MshInit
<1>4. pc = "exec" /\ ptr = 1 /\ start = 1 /\ argv = << >> /\ length = Len(typed)
  BY DEF MshInit
<1>5. argv \in Seq(Nat) /\ Len(argv) = 0
  BY <1>4
<1>6. LineInv
  BY <1>0, <1>1, <1>2, <1>3, <1>4, <1>5 DEF LineInv
<1>7. NameInv /\ ReadInv
  BY <1>4 DEF NameInv, ReadInv, Splitting
<1>. QED BY <1>6, <1>7 DEF MshInv

\* A step that leaves the line and what follows ptr alone keeps LineInv.
LEMMA LineKept ==
    ASSUME LineInv, typed' = typed, cmd' = cmd, start' = start, length' = length,
           ptr' \in ptr .. Len(typed) + 1, argv' \in Seq(Nat), Len(argv') <= FINSH_ARG_MAX,
           pc' \in {"lookup", "strip", "string", "word", "run", "unknown"},
           Reading
    PROVE  LineInv'
<1>1. Len(typed) \in Nat /\ ptr \in Nat \ {0} /\ ptr' \in 1 .. Len(typed) + 1
  <2>1. Len(typed) \in Nat
    BY MemoryOf
  <2>2. ptr \in 1 .. Len(typed) + 1
    BY Zenon DEF LineInv
  <2>. QED BY <2>1, <2>2
<1>2. \A j \in ptr' .. Len(typed) : cmd'[j] = typed[j]
  <2>1. ASSUME NEW j \in ptr' .. Len(typed) PROVE j \in ptr .. Len(typed)
    BY <1>1
  <2>2. \A j \in ptr .. Len(typed) : cmd[j] = typed[j]
    BY Zenon DEF LineInv
  <2>. QED BY <2>1, <2>2
<1>. QED BY <1>1, <1>2 DEF LineInv

\* msh_exec finds the first word, or a blank line.
LEMMA ExecStep == MshInv /\ msh_exec => MshInv'
<1>. SUFFICES ASSUME MshInv, msh_exec PROVE MshInv'
  OBVIOUS
<1>. DEFINE N == Len(typed)
            T == {k \in 1 .. Len(cmd) : cmd[k] # "sp"}
<1>0. /\ LineInv /\ pc = "exec" /\ start = 1 /\ ptr = 1 /\ argv = << >> /\ length = N
      /\ typed \in Lines /\ N \in Nat /\ N >= 1 /\ N <= MaxLength /\ MaxLength \in Nat
  <2>1. LineInv /\ pc = "exec" /\ start = 1 /\ ptr = 1 /\ argv = << >> /\ start + length = N + 1
        /\ length \in 0 .. MaxLength
    BY DEF MshInv, LineInv, NameInv, msh_exec
  <2>2. typed \in Lines /\ N \in Nat /\ N >= 1 /\ N <= MaxLength /\ MaxLength \in Nat
    BY <2>1, MemoryOf
  <2>. QED BY <2>1, <2>2
<1>1. /\ start' = Min(T) /\ ptr' = start' /\ length' = length - (start' - 1)
      /\ pc' = IF length' = 0 THEN "nothing" ELSE "lookup"
      /\ typed' = typed /\ cmd' = cmd /\ argv' = argv
  BY DEF msh_exec, Skip
<1>2. T = {k \in ptr .. Len(cmd) : cmd[k] # "sp" \/ AtEnd(k)}
  <2>1. ASSUME NEW k \in 1 .. Len(cmd), AtEnd(k) PROVE cmd[k] # "sp"
    <3>1. k >= N + 1 /\ k \in N + 1 .. MaxLength + 2
      BY <1>0, <2>1, EndOfLine, MemoryOf
    <3>2. cmd[k] = MshNul
      BY <1>0, <3>1 DEF LineInv
    <3>. QED BY <3>2 DEF MshNul
  <2>. QED BY <1>0, <2>1
<1>3. /\ start' = NextBegin(typed, 1) /\ 1 <= start' /\ start' <= N + 1
      /\ \A j \in 1 .. start' - 1 : typed[j] = "sp"
  <2>. HIDE DEF T
  <2>1. Reading
    BY <1>0 DEF Reading
  <2>2. /\ Min(T) = NextBegin(typed, ptr) /\ ptr <= Min(T) /\ Min(T) <= Len(typed) + 1
        /\ \A j \in ptr .. Min(T) - 1 : typed[j] = "sp"
    BY <1>0, <1>2, <2>1, SkipBlanks
  <2>. QED BY <1>0, <1>1, <2>2
<1>. HIDE DEF T
<1>4. start' \in 1 .. N + 1 /\ length' = N + 1 - start' /\ length' \in 0 .. MaxLength
  <2>1. start' \in Nat
    BY <1>0, <1>3, NextBeginIs
  <2>. QED BY <1>0, <1>1, <1>3, <2>1
<1>5. LineInv'
  <2>1. \A j \in ptr' .. Len(typed) : cmd[j] = typed[j]
    BY <1>0, <1>1, <1>4 DEF LineInv, Reading
  <2>. QED BY <1>0, <1>1, <1>4, <2>1 DEF LineInv
<1>6. NameInv'
  <2>1. CASE length' = 0
    <3>1. pc' = "nothing"
      BY <1>1, <2>1
    <3>2. start' = N + 1
      BY <1>0, <1>4, <2>1
    <3>3. \A j \in 1 .. N : typed[j] = "sp"
      BY <1>0, <1>3, <3>2
    <3>. QED BY <1>1, <3>1, <3>2, <3>3 DEF NameInv, Splitting
  <2>2. CASE length' # 0
    <3>1. pc' = "lookup"
      BY <1>1, <2>2
    <3>2. start' <= N
      BY <1>0, <1>4, <2>2
    <3>. QED BY <1>0, <1>1, <1>3, <3>1, <3>2 DEF NameInv, Splitting
  <2>. QED BY <2>1, <2>2
<1>7. ReadInv'
  BY <1>1 DEF ReadInv, Splitting
<1>. QED BY <1>5, <1>6, <1>7 DEF MshInv

\* _msh_exec_cmd looks up the first argument as the user means it.
LEMMA LookupStep == MshInv /\ _msh_exec_cmd => MshInv'
<1>. SUFFICES ASSUME MshInv, _msh_exec_cmd PROVE MshInv'
  OBVIOUS
<1>. DEFINE N == Len(typed)
            b == Begins(typed)[0]
            T == {k \in start .. Len(cmd) : cmd[k] = "sp" \/ AtEnd(k)}
            e == Min(T)
            U == {k \in From(typed, ptr) .. Len(cmd) :
                    \/ AtEnd(k)
                    \/ IF Quoted(typed, ptr) THEN cmd[k] = "q" /\ cmd[k - 1] # "esc" ELSE cmd[k] = "sp"}
<1>0. /\ LineInv /\ pc = "lookup" /\ start = NextBegin(typed, 1) /\ start <= N
      /\ ptr = start /\ argv = << >> /\ Reading
  BY DEF MshInv, NameInv, _msh_exec_cmd, Reading
<1>1. /\ pc' = IF SubSeq(cmd, start, e - 1) \in Known THEN "strip" ELSE "unknown"
      /\ typed' = typed /\ cmd' = cmd /\ length' = length /\ ptr' = ptr /\ start' = start /\ argv' = argv
  BY DEF _msh_exec_cmd, Skip
<1>2. /\ typed \in Lines /\ N \in Nat /\ start \in 1 .. N /\ typed[start] # "sp"
      /\ Len(cmd) = MaxLength + 2 /\ N + 1 <= MaxLength + 2 /\ MaxLength \in Nat
      /\ \A j \in start .. N : cmd[j] = typed[j]
      /\ cmd \in Seq(Char \cup {MshNul}) /\ typed \in Seq(Char)
  <2>1. /\ typed \in Lines /\ N \in Nat /\ Len(cmd) = MaxLength + 2 /\ N + 1 <= MaxLength + 2
        /\ MaxLength \in Nat
    BY <1>0, MemoryOf
  <2>2. start \in 1 .. N /\ typed[start] # "sp"
    BY <1>0, <2>1, NextBeginIs
  <2>3. (\A j \in start .. N : cmd[j] = typed[j]) /\ cmd \in [1 .. MaxLength + 2 -> Char \cup {MshNul}]
    BY <1>0 DEF LineInv
  <2>4. cmd \in Seq(Char \cup {MshNul}) /\ typed \in Seq(Char)
    BY <2>1, <2>3, LineOf
  <2>. QED BY <2>1, <2>2, <2>3, <2>4
<1>3. b = start
  BY <1>0, BeginsSteps
<1>. HIDE DEF b
<1>4. LineInv'
  <2>1. ptr' \in ptr .. Len(typed) + 1 /\ argv' \in Seq(Nat) /\ Len(argv') <= FINSH_ARG_MAX
    <3>1. argv' \in Seq(Nat) /\ Len(argv') = 0
      BY <1>0, <1>1
    <3>2. FINSH_ARG_MAX \in Nat
      BY SplitAssumption
    <3>. QED BY <1>0, <1>1, <1>2, <3>1, <3>2
  <2>2. pc' \in {"lookup", "strip", "string", "word", "run", "unknown"}
    BY <1>1
  <2>. QED BY <1>0, <1>1, <2>1, <2>2, LineKept
<1>5. CASE pc' = "unknown"
  BY <1>4, <1>5 DEF MshInv, NameInv, ReadInv, Splitting
<1>6. CASE pc' = "strip"
  <2>1. e \in start + 1 .. N + 1
    <3>1. \A k \in Int : AtEnd(k) <=> k >= N + 1
      BY <1>0, EndOfLine
    <3>2. T \subseteq Nat /\ N + 1 \in T /\ start \notin T
      BY <1>2, <3>1
    <3>3. \A k \in T : k >= start
      BY <1>2
    <3>. HIDE DEF T
    <3>4. e \in T /\ e <= N + 1
      BY <3>2, LeastOf
    <3>. HIDE DEF e
    <3>5. e \in Nat /\ e >= start /\ e # start
      BY <3>2, <3>3, <3>4
    <3>. QED BY <1>2, <3>4, <3>5
  <2>. DEFINE w == SubSeq(cmd, start, e - 1)
  <2>2. w \in Known
    BY <1>1, <1>6
  <2>. HIDE DEF e
  <2>3. w = SubSeq(typed, start, e - 1)
    <3>1. \A j \in start .. e - 1 : cmd[j] = typed[j]
      BY <1>2, <2>1
    <3>. QED BY <1>2, <2>1, <3>1
  <2>4. w # << >> /\ w[1] = typed[start]
    BY <1>2, <2>1, <2>3
  <2>5. typed[start] = "x"
    <3>1. w \in Seq({"x"})
      BY <2>2, SplitAssumption
    <3>2. Len(w) >= 1
      BY <1>2, <2>1
    <3>. HIDE DEF w
    <3>3. w[1] = "x"
      BY <3>1, <3>2
    <3>. QED BY <2>4, <3>3
  <2>6. ~Quoted(typed, start) /\ From(typed, start) = start
    BY <2>5 DEF Quoted, From
  <2>7. T = U
    BY <1>0, <2>6
  <2>. HIDE DEF T, U
  <2>8. Min(U) = To(typed, ptr)
    <3>1. /\ LineInv /\ Reading /\ ptr <= Len(typed) /\ typed[ptr] # "sp"
      BY <1>0, <1>2
    <3>. QED BY <3>1, SkipArgument DEF U
  <2>9. e = To(typed, b)
    BY <1>0, <1>3, <2>7, <2>8 DEF e
  <2>10. NameInv'
    <3>1. b <= N /\ ~Quoted(typed, b) /\ SubSeq(typed, b, To(typed, b) - 1) \in Known
      BY <1>0, <1>3, <2>2, <2>3, <2>6, <2>9
    <3>. QED BY <1>1, <1>6, <3>1 DEF NameInv, Splitting, b
  <2>11. ReadInv'
    <3>1. NextBegin(typed, start) = start
      BY <1>2, NextBeginAt
    <3>2. Len(argv) = 0
      BY <1>0
    <3>. QED BY <1>0, <1>1, <1>3, <1>6, <3>1, <3>2 DEF ReadInv, b
  <2>. QED BY <1>4, <2>10, <2>11 DEF MshInv
<1>. QED BY <1>1, <1>5, <1>6

\* What the invariant says while a line is being split.
LEMMA SplitParts ==
    ASSUME MshInv, pc \in {"strip", "string", "word"}
    PROVE  /\ LineInv /\ Reading /\ Splitting
           /\ typed \in Lines /\ Len(typed) \in Nat /\ MaxLength \in Nat /\ Len(typed) + 1 <= MaxLength + 2
           /\ Len(cmd) = MaxLength + 2 /\ DOMAIN cmd = 1 .. MaxLength + 2
           /\ cmd[Len(typed) + 1] = MshNul
           /\ cmd \in [1 .. MaxLength + 2 -> Char \cup {MshNul}]
           /\ \A j \in ptr .. Len(typed) : cmd[j] = typed[j]
           /\ ptr \in 1 .. Len(typed) + 1
           /\ argv \in Seq(Nat) /\ Len(argv) \in Nat /\ Len(argv) <= FINSH_ARG_MAX
           /\ FINSH_ARG_MAX \in Nat
           /\ \A k \in Int : AtEnd(k) <=> k >= Len(typed) + 1
<1>1. LineInv /\ Reading /\ Splitting
  BY DEF MshInv, Reading, Splitting
<1>2. /\ typed \in Lines /\ Len(typed) \in Nat /\ MaxLength \in Nat /\ Len(typed) + 1 <= MaxLength + 2
      /\ Len(cmd) = MaxLength + 2 /\ DOMAIN cmd = 1 .. MaxLength + 2
      /\ cmd[Len(typed) + 1] = MshNul
  BY <1>1, MemoryOf
<1>3. /\ cmd \in [1 .. MaxLength + 2 -> Char \cup {MshNul}]
      /\ \A j \in ptr .. Len(typed) : cmd[j] = typed[j]
      /\ ptr \in 1 .. Len(typed) + 1
      /\ argv \in Seq(Nat) /\ Len(argv) <= FINSH_ARG_MAX
  BY <1>1 DEF LineInv
<1>4. Len(argv) \in Nat /\ FINSH_ARG_MAX \in Nat
  BY <1>3, SplitAssumption
<1>5. \A k \in Int : AtEnd(k) <=> k >= Len(typed) + 1
  BY <1>1, EndOfLine
<1>. QED BY <1>1, <1>2, <1>3, <1>4, <1>5

\* The name stays known: the line as typed does not change.
LEMMA NameKept ==
    ASSUME MshInv, Splitting, typed' = typed, pc' \in {"strip", "string", "word", "run"}
    PROVE  NameInv'
<1>. DEFINE b == Begins(typed)[0]
<1>1. b <= Len(typed) /\ ~Quoted(typed, b) /\ SubSeq(typed, b, To(typed, b) - 1) \in Known
  BY DEF MshInv, NameInv
<1>. QED BY <1>1 DEF NameInv

\* What ReadInv says of one argument.
LEMMA ReadOf ==
    ASSUME MshInv, Splitting, NEW k \in 1 .. Len(argv), NEW b, b = Begins(typed)[k - 1]
    PROVE  /\ Stored(typed, cmd, argv[k], b) /\ b \in 1 .. Len(typed)
           /\ From(typed, b) \in Nat \ {0} /\ To(typed, b) \in From(typed, b) .. ptr
           /\ cmd[To(typed, b)] = MshNul \/ Pending(b)
<1>1. /\ Stored(typed, cmd, argv[k], b) /\ b \in 1 .. Len(typed) /\ To(typed, b) <= ptr
      /\ cmd[To(typed, b)] = MshNul \/ Pending(b)
  BY DEF MshInv, ReadInv, Stored
<1>2. LineInv
  BY DEF MshInv
<1>3. typed \in Lines /\ Len(typed) \in Nat
  BY <1>2, MemoryOf
<1>4. ptr \in 1 .. Len(typed) + 1
  BY <1>2 DEF LineInv
<1>5. From(typed, b) \in b .. Len(typed) + 1 /\ To(typed, b) \in From(typed, b) .. Len(typed) + 1
  BY <1>1, <1>3, ToIs
<1>. QED BY <1>1, <1>3, <1>4, <1>5

\* The top of the loop moves on to the next argument and closes the last one.
LEMMA StripStep == MshInv /\ StripBlanks => MshInv'
<1>. SUFFICES ASSUME MshInv, StripBlanks PROVE MshInv'
  OBVIOUS
<1>. DEFINE N == Len(typed)
            n == Len(argv)
            B == Begins(typed)
            T == {k \in ptr .. Len(cmd) : cmd[k] # "sp" \/ AtEnd(k)}
<1>0. pc = "strip" /\ Splitting /\ LineInv /\ NextBegin(typed, ptr) = B[n]
  BY DEF StripBlanks, Splitting, MshInv, ReadInv
<1>1. /\ LineInv /\ Reading /\ typed \in Lines /\ N \in Nat /\ MaxLength \in Nat /\ N + 1 <= MaxLength + 2
      /\ DOMAIN cmd = 1 .. MaxLength + 2 /\ cmd[N + 1] = MshNul
      /\ cmd \in [1 .. MaxLength + 2 -> Char \cup {MshNul}]
      /\ \A j \in ptr .. N : cmd[j] = typed[j]
      /\ ptr \in 1 .. N + 1 /\ argv \in Seq(Nat) /\ n \in Nat /\ n <= FINSH_ARG_MAX /\ FINSH_ARG_MAX \in Nat
      /\ \A k \in Int : AtEnd(k) <=> k >= N + 1
  BY <1>0, SplitParts
<1>2. /\ ptr' = Min(T)
      /\ cmd' = [j \in DOMAIN cmd |-> IF ptr <= j /\ j < ptr' THEN MshNul ELSE cmd[j]]
      /\ pc' = IF n >= FINSH_ARG_MAX \/ AtEnd(ptr') THEN "run"
               ELSE IF cmd[ptr'] = "q" THEN "string" ELSE "word"
      /\ typed' = typed /\ length' = length /\ start' = start /\ argv' = argv
  BY DEF StripBlanks, Skip
<1>3. /\ ptr' = NextBegin(typed, ptr) /\ ptr <= ptr' /\ ptr' <= N + 1
      /\ \A j \in ptr .. ptr' - 1 : typed[j] = "sp"
  <2>1. /\ Min(T) = NextBegin(typed, ptr) /\ ptr <= Min(T) /\ Min(T) <= Len(typed) + 1
        /\ \A j \in ptr .. Min(T) - 1 : typed[j] = "sp"
    BY <1>1, SkipBlanks
  <2>. HIDE DEF T
  <2>. QED BY <1>2, <2>1
<1>4. ptr' = B[n] /\ ptr' \in 1 .. N + 1
  BY <1>0, <1>1, <1>3, NextBeginIs
<1>5. pc' \in {"string", "word", "run"}
  BY <1>2
<1>. HIDE DEF T, B
<1>6. /\ \A j \in 1 .. MaxLength + 2 : cmd'[j] = IF ptr <= j /\ j < ptr' THEN MshNul ELSE cmd[j]
      /\ cmd' \in [1 .. MaxLength + 2 -> Char \cup {MshNul}]
  <2>1. \A j \in 1 .. MaxLength + 2 : cmd'[j] = IF ptr <= j /\ j < ptr' THEN MshNul ELSE cmd[j]
    BY <1>1, <1>2
  <2>. QED BY <1>1, <1>2, <2>1
<1>7. LineInv'
  <2>1. \A j \in N + 1 .. MaxLength + 2 : cmd'[j] = MshNul
    <3>1. \A j \in N + 1 .. MaxLength + 2 : cmd[j] = MshNul /\ j \in 1 .. MaxLength + 2
      BY <1>1 DEF LineInv
    <3>. QED BY <1>6, <3>1
  <2>2. \A j \in ptr' .. N : cmd'[j] = typed[j]
    <3>1. ASSUME NEW j \in ptr' .. N
          PROVE  j \in 1 .. MaxLength + 2 /\ j \in ptr .. N /\ ~(j < ptr')
      BY <1>1, <1>3, <1>4
    <3>. QED BY <1>1, <1>6, <3>1
  <2>3. start \in 1 .. N + 1 /\ length \in 0 .. MaxLength /\ start + length = N + 1
    BY <1>1 DEF LineInv
  <2>. QED BY <1>1, <1>2, <1>4, <1>5, <1>6, <2>1, <2>2, <2>3 DEF LineInv
<1>8. NameInv'
  BY <1>0, <1>2, <1>5, NameKept
<1>9. ASSUME NEW k \in 1 .. n, NEW b, b = B[k - 1]
      PROVE  /\ Stored(typed, cmd', argv[k], b) /\ To(typed, b) <= ptr' /\ cmd'[To(typed, b)] = MshNul
  <2>1. /\ Stored(typed, cmd, argv[k], b) /\ b \in 1 .. N
        /\ From(typed, b) \in Nat \ {0} /\ To(typed, b) \in From(typed, b) .. ptr
        /\ cmd[To(typed, b)] = MshNul \/ Pending(b)
    BY <1>0, <1>9, ReadOf DEF B
  <2>. DEFINE f == From(typed, b)
              t == To(typed, b)
  <2>2. Stored(typed, cmd', argv[k], b)
    <3>1. /\ argv[k] = f /\ f \in Nat \ {0} /\ t \in f .. ptr
          /\ \A j \in f .. t - 1 : cmd[j] = typed[j]
      BY <2>1 DEF Stored
    <3>. HIDE DEF f, t
    <3>2. ASSUME NEW j \in f .. t - 1 PROVE cmd'[j] = typed[j]
      <4>1. j \in 1 .. MaxLength + 2 /\ ~(ptr <= j)
        BY <1>1, <3>1
      <4>. QED BY <1>6, <3>1, <4>1
    <3>. QED BY <2>1, <3>1, <3>2 DEF Stored, f, t
  <2>3. t \in 1 .. MaxLength + 2 /\ t <= ptr'
    <3>. HIDE DEF t, f
    <3>1. f \in Nat \ {0} /\ t \in f .. ptr
      BY <2>1 DEF f, t
    <3>. QED BY <1>1, <1>3, <1>4, <3>1
  <2>4. cmd'[t] = MshNul
    <3>1. CASE cmd[t] = MshNul
      BY <1>6, <2>3, <3>1
    <3>2. CASE Pending(b)
      <4>1. t = ptr /\ ptr <= N /\ typed[ptr] = "sp"
        BY <3>2 DEF Pending
      <4>2. ptr < ptr'
        <5>1. ptr' <= N => typed[ptr'] # "sp"
          <6>1. ptr \in Nat \ {0}
            BY <1>1
          <6>. QED BY <1>1, <1>3, <6>1, NextBeginIs
        <5>. QED BY <1>1, <1>3, <1>4, <4>1, <5>1
      <4>. QED BY <1>1, <1>6, <2>3, <4>1, <4>2
    <3>. QED BY <2>1, <3>1, <3>2
  <2>. QED BY <2>2, <2>3, <2>4
<1>10. pc' \in {"string", "word"} =>
         /\ ptr' <= N /\ n < FINSH_ARG_MAX
         /\ ((pc' = "string") <=> Quoted(typed, ptr'))
  <2>. SUFFICES ASSUME pc' \in {"string", "word"}
                PROVE  /\ ptr' <= N /\ n < FINSH_ARG_MAX
                       /\ ((pc' = "string") <=> Quoted(typed, ptr'))
    OBVIOUS
  <2>1. ~(n >= FINSH_ARG_MAX) /\ ~AtEnd(ptr') /\ pc' = IF cmd[ptr'] = "q" THEN "string" ELSE "word"
    BY <1>2
  <2>2. ptr' <= N /\ n < FINSH_ARG_MAX /\ ptr' \in ptr .. N
    BY <1>1, <1>3, <1>4, <2>1
  <2>3. cmd[ptr'] = typed[ptr']
    BY <1>1, <2>2
  <2>. QED BY <2>1, <2>2, <2>3 DEF Quoted
<1>11. pc' = "run" => n = FINSH_ARG_MAX \/ B[n] > N
  BY <1>1, <1>2, <1>4
<1>12. ReadInv'
  <2>1. /\ typed' = typed /\ argv' = argv /\ pc' # "strip"
    BY <1>2, <1>5
  <2>2. \A k \in 1 .. n : LET b == B[k - 1]
          IN  Stored(typed, cmd', argv[k], b) /\ To(typed, b) <= ptr' /\ cmd'[To(typed, b)] = MshNul
    BY <1>9
  <2>. QED BY <1>4, <1>10, <1>11, <2>1, <2>2 DEF ReadInv, B
<1>. QED BY <1>7, <1>8, <1>12 DEF MshInv

\* One more argument, from ptr on: it is stored, and closed or about to be.
LEMMA ArgumentRead ==
    ASSUME MshInv, pc \in {"string", "word"}, NEW t, t = To(typed, ptr),
           typed' = typed, length' = length, start' = start,
           argv' = Append(argv, From(typed, ptr)),
           cmd' \in [1 .. MaxLength + 2 -> Char \cup {MshNul}],
           \A j \in 1 .. MaxLength + 2 : j # t => cmd'[j] = cmd[j],
           \/ cmd'[t] = MshNul /\ (t > Len(typed) \/ t < ptr')
           \/ pc' = "strip" /\ ptr' = t /\ t <= Len(typed) /\ typed[t] = "sp" /\ cmd'[t] = typed[t],
           ptr' \in t .. Len(typed) + 1,
           pc' \in {"strip", "run"},
           pc' = "strip" => ptr' = After(typed, ptr),
           pc' = "run" => After(typed, ptr) > Len(typed)
    PROVE  MshInv'
<1>. DEFINE N == Len(typed)
            n == Len(argv)
            B == Begins(typed)
            f == From(typed, ptr)
<1>0. Splitting /\ ptr = B[n] /\ ptr <= N /\ n < FINSH_ARG_MAX
  BY DEF Splitting, MshInv, ReadInv
<1>1. /\ LineInv /\ typed \in Lines /\ N \in Nat /\ MaxLength \in Nat /\ N + 1 <= MaxLength + 2
      /\ \A j \in ptr .. N : cmd[j] = typed[j]
      /\ ptr \in 1 .. N + 1 /\ argv \in Seq(Nat) /\ n \in Nat /\ FINSH_ARG_MAX \in Nat
  BY SplitParts
<1>2. f \in ptr .. N + 1 /\ t \in f .. N + 1 /\ After(typed, ptr) \in Nat \ {0}
  BY <1>1, ToIs
<1>3. B[n + 1] = NextBegin(typed, After(typed, ptr))
  <2>1. n + 1 \in 1 .. FINSH_ARG_MAX /\ (n + 1) - 1 = n
    BY <1>0, <1>1
  <2>. QED BY <1>0, <2>1, BeginsSteps
<1>. HIDE DEF B, f
<1>4. /\ argv' \in Seq(Nat) /\ Len(argv') = n + 1 /\ argv'[n + 1] = f
      /\ \A k \in 1 .. n : argv'[k] = argv[k]
  <2>1. f \in Nat /\ argv' = Append(argv, f)
    BY <1>1, <1>2 DEF f
  <2>. QED BY <1>1, <2>1
<1>5. LineInv'
  <2>1. \A j \in N + 1 .. MaxLength + 2 : cmd'[j] = MshNul
    <3>1. ASSUME NEW j \in N + 1 .. MaxLength + 2 PROVE cmd'[j] = MshNul
      <4>1. cmd[j] = MshNul /\ j \in 1 .. MaxLength + 2
        BY <1>1 DEF LineInv
      <4>2. CASE j # t
        BY <4>1, <4>2
      <4>3. CASE j = t
        BY <1>1, <4>3
      <4>. QED BY <4>2, <4>3
    <3>. QED BY <3>1
  <2>2. ASSUME NEW j \in ptr' .. N PROVE cmd'[j] = typed[j]
    <3>1. j \in 1 .. MaxLength + 2 /\ j \in ptr .. N /\ j >= t
      BY <1>1, <1>2
    <3>2. CASE j # t
      BY <1>1, <3>1, <3>2
    <3>3. CASE j = t
      BY <1>1, <1>2, <3>1, <3>3
    <3>. QED BY <3>2, <3>3
  <2>3. start \in 1 .. N + 1 /\ length \in 0 .. MaxLength /\ start + length = N + 1
    BY <1>1 DEF LineInv
  <2>4. ptr' \in 1 .. N + 1
    BY <1>1, <1>2
  <2>5. Len(argv') <= FINSH_ARG_MAX
    BY <1>0, <1>1, <1>4
  <2>. QED BY <1>1, <1>4, <2>1, <2>2, <2>3, <2>4, <2>5 DEF LineInv
<1>6. NameInv'
  BY <1>0, NameKept
<1>7. ASSUME NEW k \in 1 .. n, NEW b, b = B[k - 1]
      PROVE  Stored(typed, cmd', argv'[k], b) /\ To(typed, b) <= ptr' /\ cmd'[To(typed, b)] = MshNul
  <2>. DEFINE g == From(typed, b)
              e == To(typed, b)
  <2>1. /\ Stored(typed, cmd, argv[k], b) /\ b \in 1 .. N /\ g \in Nat \ {0} /\ e \in g .. ptr
        /\ cmd[e] = MshNul \/ Pending(b)
    BY <1>0, <1>7, ReadOf DEF B
  <2>2. cmd[e] = MshNul
    BY <2>1 DEF Pending
  <2>3. argv[k] = g /\ \A j \in g .. e - 1 : cmd[j] = typed[j]
    BY <2>1 DEF Stored
  <2>. HIDE DEF g, e
  <2>4. e # t /\ e <= ptr' /\ e \in 1 .. MaxLength + 2
    <3>1. e <= ptr /\ ptr <= f /\ f <= t /\ t <= ptr'
      BY <1>1, <1>2, <2>1
    <3>2. e # ptr
      <4>1. cmd[ptr] = typed[ptr] /\ typed[ptr] # MshNul
        <5>1. ptr \in ptr .. N /\ ptr \in 1 .. N
          BY <1>0, <1>1
        <5>. QED BY <1>1, <5>1, LineOf
      <4>. QED BY <2>2, <4>1
    <3>. QED BY <1>1, <1>2, <2>1, <3>1, <3>2
  <2>5. ASSUME NEW j \in g .. e - 1 PROVE cmd'[j] = typed[j]
    <3>1. j \in 1 .. MaxLength + 2 /\ j # t
      BY <1>1, <1>2, <2>1, <2>4
    <3>. QED BY <2>3, <3>1
  <2>6. Stored(typed, cmd', argv'[k], b)
    BY <1>4, <2>1, <2>3, <2>5 DEF Stored, g, e
  <2>. QED BY <2>2, <2>4, <2>6 DEF e
<1>8. /\ Stored(typed, cmd', argv'[n + 1], ptr) /\ t <= ptr'
      /\ \/ cmd'[t] = MshNul
         \/ pc' = "strip" /\ t = ptr' /\ ptr' <= N /\ typed[ptr'] = "sp"
  <2>1. ASSUME NEW j \in f .. t - 1 PROVE cmd'[j] = typed[j]
    <3>1. j \in 1 .. MaxLength + 2 /\ j # t /\ j \in ptr .. N
      BY <1>1, <1>2
    <3>. QED BY <1>1, <3>1
  <2>2. Stored(typed, cmd', argv'[n + 1], ptr)
    BY <1>0, <1>1, <1>4, <2>1 DEF Stored, f
  <2>3. t <= ptr'
    BY <1>1, <1>2
  <2>. QED BY <2>2, <2>3
<1>9. pc' = "strip" => NextBegin(typed, ptr') = B[n + 1]
  BY <1>3
<1>10. pc' = "run" => B[n + 1] > N
  <2>. SUFFICES ASSUME pc' = "run" PROVE B[n + 1] > N
    OBVIOUS
  <2>1. After(typed, ptr) > N
    OBVIOUS
  <2>. DEFINE r == NextBegin(typed, After(typed, ptr))
  <2>2. r \in 1 .. N + 1 /\ (r <= N => After(typed, ptr) <= r)
    BY <1>1, <1>2, NextBeginIs
  <2>. HIDE DEF r
  <2>3. r > N
    BY <1>1, <1>2, <2>1, <2>2
  <2>. QED BY <1>3, <2>3 DEF r
<1>11. ReadInv'
  <2>1. ASSUME NEW k \in 1 .. n + 1, NEW b, b = B[k - 1]
        PROVE  /\ Stored(typed, cmd', argv'[k], b) /\ To(typed, b) <= ptr'
               /\ \/ cmd'[To(typed, b)] = MshNul
                  \/ pc' = "strip" /\ To(typed, b) = ptr' /\ ptr' <= N /\ typed[ptr'] = "sp"
    <3>1. CASE k \in 1 .. n
      BY <1>7, <2>1, <3>1
    <3>2. CASE k = n + 1
      <4>1. b = ptr
        BY <1>0, <1>1, <2>1, <3>2
      <4>. QED BY <1>8, <3>2, <4>1
    <3>. QED BY <1>1, <3>1, <3>2
  <2>2. \A k \in 1 .. Len(argv') : LET b == B[k - 1]
          IN  /\ Stored(typed, cmd', argv'[k], b) /\ To(typed, b) <= ptr'
              /\ \/ cmd'[To(typed, b)] = MshNul
                 \/ pc' = "strip" /\ To(typed, b) = ptr' /\ ptr' <= N /\ typed[ptr'] = "sp"
    BY <1>4, <2>1
  <2>3. /\ pc' = "strip" => NextBegin(typed, ptr') = B[Len(argv')]
        /\ pc' = "run" => B[Len(argv')] > N
    BY <1>4, <1>9, <1>10
  <2>4. typed' = typed /\ pc' \notin {"string", "word"}
    OBVIOUS
  <2>. QED BY <2>2, <2>3, <2>4 DEF ReadInv, Pending, B
<1>. QED BY <1>5, <1>6, <1>11 DEF MshInv

\* A quoted argument is closed at once.
LEMMA StringStep == MshInv /\ HandleString => MshInv'
<1>. SUFFICES ASSUME MshInv, HandleString PROVE MshInv'
  OBVIOUS
<1>. DEFINE N == Len(typed)
            T == {k \in ptr + 1 .. Len(cmd) : AtEnd(k) \/ (cmd[k] = "q" /\ cmd[k - 1] # "esc")}
            t == To(typed, ptr)
            close == Min(T)
<1>0. pc = "string" /\ Quoted(typed, ptr) /\ ptr <= N /\ typed[ptr] # "sp" /\ From(typed, ptr) = ptr + 1
  <2>1. pc = "string"
    BY DEF HandleString
  <2>2. ptr <= N /\ Quoted(typed, ptr)
    BY <2>1 DEF MshInv, ReadInv, Splitting
  <2>. QED BY <2>1, <2>2 DEF Quoted, From
<1>1. /\ LineInv /\ Reading /\ typed \in Lines /\ N \in Nat /\ MaxLength \in Nat /\ N + 1 <= MaxLength + 2
      /\ DOMAIN cmd = 1 .. MaxLength + 2 /\ cmd[N + 1] = MshNul
      /\ cmd \in [1 .. MaxLength + 2 -> Char \cup {MshNul}]
      /\ ptr \in 1 .. N + 1
      /\ \A k \in Int : AtEnd(k) <=> k >= N + 1
  BY <1>0, SplitParts
<1>2. close = t
  <2>1. T = {k \in From(typed, ptr) .. Len(cmd) :
               \/ AtEnd(k)
               \/ IF Quoted(typed, ptr) THEN cmd[k] = "q" /\ cmd[k - 1] # "esc" ELSE cmd[k] = "sp"}
    BY <1>0
  <2>. QED BY <1>0, <1>1, <2>1, SkipArgument
<1>3. /\ argv' = Append(argv, ptr + 1)
      /\ IF AtEnd(close) THEN pc' = "run" /\ ptr' = close /\ cmd' = cmd
         ELSE /\ cmd' = [cmd EXCEPT ![close] = MshNul] /\ ptr' = close + 1
              /\ pc' = IF AtEnd(close + 1) THEN "run" ELSE "strip"
      /\ typed' = typed /\ length' = length /\ start' = start
  BY DEF HandleString, Skip
<1>. HIDE DEF close, T
<1>4. t \in 1 .. N + 1 /\ After(typed, ptr) = t + 1
  BY <1>0, <1>1, ToIs DEF After
<1>. HIDE DEF t
<1>5. /\ argv' = Append(argv, From(typed, ptr))
      /\ typed' = typed /\ length' = length /\ start' = start
  BY <1>0, <1>3
<1>6. /\ cmd' \in [1 .. MaxLength + 2 -> Char \cup {MshNul}]
      /\ \A j \in 1 .. MaxLength + 2 : j # t => cmd'[j] = cmd[j]
      /\ cmd'[t] = MshNul /\ (t > N \/ t < ptr')
      /\ ptr' \in t .. N + 1 /\ pc' \in {"strip", "run"}
      /\ pc' = "strip" => ptr' = After(typed, ptr)
      /\ pc' = "run" => After(typed, ptr) > N
  <2>1. CASE AtEnd(t)
    <3>1. pc' = "run" /\ ptr' = t /\ cmd' = cmd /\ t = N + 1
      BY <1>1, <1>2, <1>3, <1>4, <2>1
    <3>. QED BY <1>1, <1>4, <3>1
  <2>2. CASE ~AtEnd(t)
    <3>1. /\ cmd' = [cmd EXCEPT ![t] = MshNul] /\ ptr' = t + 1 /\ t <= N
          /\ pc' = IF t + 1 >= N + 1 THEN "run" ELSE "strip"
      BY <1>1, <1>2, <1>3, <1>4, <2>2
    <3>2. /\ cmd' \in [1 .. MaxLength + 2 -> Char \cup {MshNul}]
          /\ \A j \in 1 .. MaxLength + 2 : j # t => cmd'[j] = cmd[j]
          /\ cmd'[t] = MshNul
      BY <1>1, <1>4, <3>1
    <3>. QED BY <1>1, <1>4, <3>1, <3>2
  <2>. QED BY <2>1, <2>2
<1>. QED BY <1>0, <1>5, <1>6, ArgumentRead DEF t

\* A word is closed by the next strip, if it does not reach to the end.
LEMMA WordStep == MshInv /\ HandleWord => MshInv'
<1>. SUFFICES ASSUME MshInv, HandleWord PROVE MshInv'
  OBVIOUS
<1>. DEFINE N == Len(typed)
            T == {k \in ptr .. Len(cmd) : cmd[k] = "sp" \/ AtEnd(k)}
            t == To(typed, ptr)
<1>0. pc = "word" /\ ~Quoted(typed, ptr) /\ ptr <= N /\ From(typed, ptr) = ptr /\ ptr = Begins(typed)[Len(argv)]
  <2>1. pc = "word"
    BY DEF HandleWord
  <2>2. ptr <= N /\ ~Quoted(typed, ptr) /\ ptr = Begins(typed)[Len(argv)]
    BY <2>1 DEF MshInv, ReadInv, Splitting
  <2>. QED BY <2>1, <2>2 DEF Quoted, From
<1>1. /\ LineInv /\ Reading /\ typed \in Lines /\ N \in Nat /\ MaxLength \in Nat /\ N + 1 <= MaxLength + 2
      /\ DOMAIN cmd = 1 .. MaxLength + 2 /\ cmd[N + 1] = MshNul
      /\ cmd \in [1 .. MaxLength + 2 -> Char \cup {MshNul}]
      /\ \A j \in ptr .. N : cmd[j] = typed[j]
      /\ ptr \in 1 .. N + 1 /\ Len(argv) \in Nat /\ Len(argv) <= FINSH_ARG_MAX /\ FINSH_ARG_MAX \in Nat
      /\ \A k \in Int : AtEnd(k) <=> k >= N + 1
  BY <1>0, SplitParts
<1>a. typed[ptr] # "sp"
  <2>1. CASE Len(argv) = 0
    BY <1>0, <1>1, <2>1, BeginsSteps, NextBeginIs
  <2>2. CASE Len(argv) # 0
    <3>1. Len(argv) \in 1 .. FINSH_ARG_MAX /\ Len(argv) - 1 \in 0 .. FINSH_ARG_MAX
      BY <1>1, <2>2
    <3>. DEFINE c == Begins(typed)[Len(argv) - 1]
    <3>2. c \in 1 .. N + 1 /\ ptr = NextBegin(typed, After(typed, c))
      BY <1>0, <1>1, <3>1, BeginsSteps, BeginsRange
    <3>. HIDE DEF c
    <3>3. After(typed, c) \in Nat \ {0}
      BY <1>1, <3>2, ToIs
    <3>. QED BY <1>0, <1>1, <3>2, <3>3, NextBeginIs
  <2>. QED BY <2>1, <2>2
<1>2. Min(T) = t
  <2>1. T = {k \in From(typed, ptr) .. Len(cmd) :
               \/ AtEnd(k)
               \/ IF Quoted(typed, ptr) THEN cmd[k] = "q" /\ cmd[k - 1] # "esc" ELSE cmd[k] = "sp"}
    BY <1>0
  <2>. QED BY <1>0, <1>a, <1>1, <2>1, SkipArgument
<1>3. /\ argv' = Append(argv, ptr) /\ ptr' = Min(T) /\ pc' = IF AtEnd(ptr') THEN "run" ELSE "strip"
      /\ typed' = typed /\ length' = length /\ start' = start /\ cmd' = cmd
  BY DEF HandleWord, Skip
<1>. HIDE DEF T
<1>4. /\ t \in ptr .. N + 1 /\ After(typed, ptr) = t
      /\ t <= N => typed[t] = "sp"
  BY <1>0, <1>1, ToIs DEF After, Closes
<1>. HIDE DEF t
<1>5. /\ argv' = Append(argv, From(typed, ptr))
      /\ typed' = typed /\ length' = length /\ start' = start
      /\ cmd' \in [1 .. MaxLength + 2 -> Char \cup {MshNul}]
      /\ \A j \in 1 .. MaxLength + 2 : j # t => cmd'[j] = cmd[j]
  BY <1>0, <1>1, <1>3
<1>6. /\ \/ cmd'[t] = MshNul /\ (t > N \/ t < ptr')
         \/ pc' = "strip" /\ ptr' = t /\ t <= N /\ typed[t] = "sp" /\ cmd'[t] = typed[t]
      /\ ptr' \in t .. N + 1 /\ pc' \in {"strip", "run"}
      /\ pc' = "strip" => ptr' = After(typed, ptr)
      /\ pc' = "run" => After(typed, ptr) > N
  <2>0. ptr' = t /\ cmd' = cmd
    BY <1>2, <1>3
  <2>1. CASE AtEnd(t)
    <3>1. pc' = "run" /\ t = N + 1
      BY <1>1, <1>3, <1>4, <2>0, <2>1
    <3>. QED BY <1>1, <1>4, <2>0, <3>1
  <2>2. CASE ~AtEnd(t)
    <3>1. pc' = "strip" /\ t \in ptr .. N
      BY <1>1, <1>3, <1>4, <2>0, <2>2
    <3>. QED BY <1>1, <1>4, <2>0, <3>1
  <2>. QED BY <2>1, <2>2
<1>. QED BY <1>0, <1>5, <1>6, ArgumentRead DEF t

\* Every step keeps the invariant.
LEMMA MshSteps == MshInv /\ [MshNext]_mshvars => MshInv'
<1>. SUFFICES ASSUME MshInv, [MshNext]_mshvars PROVE MshInv'
  OBVIOUS
<1>1. CASE UNCHANGED mshvars
  <2>1. /\ typed' = typed /\ cmd' = cmd /\ length' = length /\ ptr' = ptr /\ start' = start
        /\ argv' = argv /\ pc' = pc
    BY <1>1 DEF mshvars
  <2>2. LineInv /\ NameInv /\ ReadInv
    BY DEF MshInv
  <2>3. LineInv'
    BY <2>1, <2>2 DEF LineInv, Reading
  <2>4. NameInv'
    BY <2>1, <2>2 DEF NameInv, Splitting
  <2>5. ReadInv'
    BY <2>1, <2>2 DEF ReadInv, Splitting, Pending
  <2>. QED BY <2>3, <2>4, <2>5 DEF MshInv
<1>2. CASE MshNext
  BY <1>2, ExecStep, LookupStep, StripStep, StringStep, WordStep DEF MshNext
<1>. QED BY <1>1, <1>2

\* The command sees what is stored.
LEMMA StringSeen ==
    ASSUME MshInv, pc = "run", NEW k \in 1 .. Len(argv), NEW b, b = Begins(typed)[k - 1]
    PROVE  b <= Len(typed) /\ StringAt(argv[k]) = SubSeq(typed, From(typed, b), To(typed, b) - 1)
<1>. DEFINE f == From(typed, b)
            t == To(typed, b)
            T == {j \in f .. Len(cmd) : cmd[j] = MshNul}
<1>0. /\ LineInv /\ typed \in Lines /\ Len(typed) \in Nat /\ MaxLength \in Nat /\ Len(typed) <= MaxLength
      /\ Len(cmd) = MaxLength + 2
  <2>1. LineInv
    BY DEF MshInv
  <2>. QED BY <2>1, MemoryOf
<1>1. Splitting /\ ~Pending(b)
  BY DEF Splitting, Pending
<1>2. /\ Stored(typed, cmd, argv[k], b) /\ b \in 1 .. Len(typed)
      /\ f \in Nat \ {0} /\ t \in f .. ptr /\ cmd[t] = MshNul
  BY <1>1, ReadOf
<1>3. argv[k] = f /\ \A j \in f .. t - 1 : cmd[j] = typed[j]
  BY <1>2 DEF Stored
<1>4. ptr \in 1 .. Len(typed) + 1 /\ cmd \in [1 .. MaxLength + 2 -> Char \cup {MshNul}]
  BY <1>0 DEF LineInv
<1>. HIDE DEF f, t
<1>5. t \in f .. Len(typed) + 1 /\ t \in Nat
  BY <1>0, <1>2, <1>4
<1>6. ASSUME NEW j \in f .. t - 1 PROVE cmd[j] = typed[j] /\ cmd[j] # MshNul
  <2>1. j \in 1 .. Len(typed)
    BY <1>0, <1>2, <1>5
  <2>. QED BY <1>0, <1>3, <2>1, LineOf
<1>7. T \subseteq Nat /\ t \in T
  BY <1>0, <1>2, <1>5
<1>8. \A y \in T : t <= y
  <2>1. ASSUME NEW y \in T, ~(t <= y) PROVE FALSE
    <3>1. y \in f .. t - 1 /\ cmd[y] = MshNul
      BY <1>0, <1>2, <1>5, <2>1
    <3>. QED BY <1>6, <3>1
  <2>. QED BY <2>1
<1>9. Min(T) = t
  <2>. HIDE DEF T
  <2>. QED BY <1>7, <1>8, LeastIs
<1>10. StringAt(argv[k]) = SubSeq(cmd, f, t - 1)
  <2>1. StringAt(argv[k]) = SubSeq(cmd, f, Min(T) - 1)
    BY <1>3 DEF StringAt, Skip
  <2>. QED BY <1>9, <2>1
<1>11. SubSeq(cmd, f, t - 1) = SubSeq(typed, f, t - 1)
  <2>1. cmd \in Seq(Char \cup {MshNul}) /\ typed \in Seq(Char)
    BY <1>0, <1>4, LineOf
  <2>. QED BY <1>0, <1>2, <1>5, <1>6, <2>1
<1>. QED BY <1>2, <1>10, <1>11 DEF f, t

\* What the invariant gives for a line that has been dispatched.
LEMMA MshExact == MshInv => DispatchExact
<1>. SUFFICES ASSUME MshInv PROVE DispatchExact
  OBVIOUS
<1>. DEFINE N == Len(typed)
            n == Len(argv)
            B == Begins(typed)
<1>0. LineInv /\ NameInv /\ ReadInv
  BY DEF MshInv
<1>1. /\ typed \in Lines /\ N \in Nat /\ MaxLength \in Nat /\ N <= MaxLength /\ N >= 1
      /\ FINSH_ARG_MAX \in Nat \ {0} /\ DOMAIN typed = 1 .. N
  BY <1>0, MemoryOf, SplitAssumption, LineOf
<1>2. argv \in Seq(Nat) /\ n <= FINSH_ARG_MAX /\ n \in Nat /\ DOMAIN argv = 1 .. n
  BY <1>0 DEF LineInv
<1>3. MshTypeOK
  <2>1. ptr \in 1 .. MaxLength + 1 /\ start \in 1 .. MaxLength + 1
    BY <1>0, <1>1 DEF LineInv
  <2>. QED BY <1>0, <2>1 DEF MshTypeOK, LineInv
<1>4. ASSUME pc = "run"
      PROVE  /\ n >= 1
             /\ \A k \in 1 .. n : B[k - 1] <= N
             /\ \A k \in 1 .. FINSH_ARG_MAX : k > n => ~(B[k - 1] <= N)
             /\ B[0] <= N /\ ~Quoted(typed, B[0])
             /\ SubSeq(typed, B[0], To(typed, B[0]) - 1) \in Known
  <2>1. /\ B[0] <= N /\ ~Quoted(typed, B[0])
        /\ SubSeq(typed, B[0], To(typed, B[0]) - 1) \in Known
    BY <1>0, <1>4 DEF NameInv, Splitting
  <2>2. n = FINSH_ARG_MAX \/ B[n] > N
    BY <1>0, <1>4 DEF ReadInv, Splitting
  <2>3. \A k \in 1 .. n : B[k - 1] <= N
    BY <1>4, StringSeen
  <2>4. \A k \in 0 .. FINSH_ARG_MAX : B[k] \in 1 .. N + 1
    BY <1>1, BeginsRange
  <2>5. B[n] > N => \A k \in n .. FINSH_ARG_MAX : B[k] > N
    BY <1>1, <1>2, BeginsRange
  <2>. HIDE DEF B, N, n
  <2>6. n >= 1
    BY <1>1, <1>2, <2>1, <2>2, <2>4
  <2>7. ASSUME NEW k \in 1 .. FINSH_ARG_MAX, k > n PROVE ~(B[k - 1] <= N)
    <3>1. B[n] > N /\ k - 1 \in n .. FINSH_ARG_MAX /\ k - 1 \in 0 .. FINSH_ARG_MAX
      BY <1>1, <1>2, <2>2, <2>7
    <3>. QED BY <1>1, <2>4, <2>5, <3>1
  <2>. QED BY <2>1, <2>3, <2>6, <2>7
<1>5. ArgumentsExact
  <2>. SUFFICES ASSUME pc = "run"
                PROVE  [k \in DOMAIN argv |-> StringAt(argv[k])] = Arguments(typed)
    BY DEF ArgumentsExact
  <2>. DEFINE D == {k \in 1 .. FINSH_ARG_MAX : B[k - 1] <= N}
              A(k) == SubSeq(typed, From(typed, B[k - 1]), To(typed, B[k - 1]) - 1)
  <2>1. Arguments(typed) = [k \in D |-> A(k)]
    BY DEF Arguments
  <2>2. D = 1 .. n
    <3>1. /\ \A k \in 1 .. n : B[k - 1] <= N
          /\ \A k \in 1 .. FINSH_ARG_MAX : k > n => ~(B[k - 1] <= N)
      BY <1>4
    <3>. HIDE DEF B, N, n
    <3>. QED BY <1>1, <1>2, <3>1
  <2>3. \A k \in 1 .. n : StringAt(argv[k]) = A(k)
    BY StringSeen
  <2>. HIDE DEF A, D
  <2>. QED BY <1>2, <2>1, <2>2, <2>3
<1>6. Dispatched
  <2>1. ASSUME pc = "run" PROVE argv # << >> /\ StringAt(argv[1]) \in Known
    <3>1. n >= 1 /\ ~Quoted(typed, B[0]) /\ SubSeq(typed, B[0], To(typed, B[0]) - 1) \in Known
      BY <1>4, <2>1
    <3>2. 1 \in 1 .. Len(argv) /\ 1 - 1 = 0
      BY <1>2, <3>1
    <3>3. StringAt(argv[1]) = SubSeq(typed, From(typed, B[0]), To(typed, B[0]) - 1)
      BY <2>1, <3>2, StringSeen
    <3>4. From(typed, B[0]) = B[0]
      BY <3>1 DEF From
    <3>5. argv # << >>
      BY <1>2, <3>2
    <3>. QED BY <3>1, <3>3, <3>4, <3>5
  <2>2. pc = "nothing" => \A j \in DOMAIN typed : typed[j] = "sp"
    BY <1>0, <1>1 DEF NameInv
  <2>. QED BY <2>1, <2>2 DEF Dispatched
<1>. QED BY <1>3, <1>5, <1>6 DEF DispatchExact

\* DispatchExact of msh_exec holds for every line, every limit of arguments and
\* every table of command names.
THEOREM DispatchCorrect == MshSpec => []DispatchExact
<1>1. MshSpec => []MshInv
  BY MshStarts, MshSteps, PTL DEF MshSpec
<1>. QED BY <1>1, MshExact, PTL

-----------------------------------------------------------------------------
(* The tasks together.                                                     *)

\* A step of the whole is a step of one task and leaves the others alone.
LEMMA TaskSteps ==
    [Next]_vars => /\ [LightNext]_lightvars /\ [LedNext]_ledvars /\ [UiNext]_uivars
                   /\ [RxNext]_rxvars /\ [MshNext]_mshvars
<1>. SUFFICES ASSUME [Next]_vars
              PROVE  /\ [LightNext]_lightvars /\ [LedNext]_ledvars /\ [UiNext]_uivars
                     /\ [RxNext]_rxvars /\ [MshNext]_mshvars
  OBVIOUS
<1>1. CASE UNCHANGED vars
  BY <1>1 DEF vars
<1>2. CASE LightMoves
  BY <1>2 DEF LightMoves
<1>3. CASE LedMoves
  BY <1>3 DEF LedMoves
<1>4. CASE UiMoves
  BY <1>4 DEF UiMoves
<1>5. CASE RxMoves
  BY <1>5 DEF RxMoves
<1>6. CASE MshMoves
  BY <1>6 DEF MshMoves
<1>. QED BY <1>1, <1>2, <1>3, <1>4, <1>5, <1>6 DEF Next

TasksInv == LightTypeOK /\ LedInv /\ UiInv /\ SerialInv /\ MshInv

\* Whatever task moves, the invariants of all of them hold.
LEMMA TasksAlways == Spec => []TasksInv
<1>1. Init => TasksInv
  <2>. SUFFICES ASSUME Init PROVE TasksInv
    OBVIOUS
  <2>1. LightInit /\ LedInit /\ UiInit /\ RxInit /\ MshInit
    BY DEF Init, LightStart, UiStart, MshStart
  <2>2. UiInv
    BY <2>1, LabelInit, RangeInit, ListInit DEF UiInv
  <2>. QED BY <2>1, <2>2, TypeInit, LedStart, SerialInit, MshStarts DEF TasksInv
<1>2. TasksInv /\ [Next]_vars => TasksInv'
  BY TaskSteps, TypeNext, LedSteps, UiSteps, SerialStep, MshSteps DEF TasksInv
<1>. QED BY <1>1, <1>2, PTL DEF Spec

\* TasksTypeOK: the counters, places, indices and the refresh period of the light,
\* LED, OLED and shell tasks stay in range, for every value of the constants.
THEOREM TasksCorrect == Spec => []TasksTypeOK
<1>1. TasksInv => TasksTypeOK
  BY DEF TasksInv, TasksTypeOK, LedInv, UiInv, UiRange, SerialInv
<1>. QED BY <1>1, TasksAlways, PTL
=============================================================================
