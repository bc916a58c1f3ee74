# Formal model of the RT-Thread stopwatch

This directory models the stopwatch firmware in `applications/` and the parts of
the RT-Thread kernel its correctness rests on, in TLA+. TLC checks the models on
small instances; TLAPS proves the theorems for every value of the constants.

## 1. Inventory of the system

One Cortex-M3 core at 72 MHz runs RT-Thread with a 1 kHz tick. `main` initialises
the parts below and then idles. Smaller numbers are higher priorities.

| Part | Source | State | Operations | Used by |
|---|---|---|---|---|
| Timebase | `timebase.c` | `dwt_ok`, `last_cyc`, `total_cyc`, the hardware counter `CYCCNT` | `timebase_init`, `timebase_get_us` | stopwatch service only |
| Stopwatch service | `stopwatch.c` | `g_sw` (state, base, accumulated ms, laps) under the mutex `swlock` | `start`, `stop`, `reset`, `lap`, `clear_laps`, five queries | all clients |
| Shell commands | `stopwatch_cli.c` | CSV settings | `sw_*`, run by the shell thread (priority 20) | user |
| CSV output | `stopwatch_cli.c`, `timer.c` | `csv_timer`, period, header and format flags | `csv_timer_cb`, run by the soft-timer thread (priority 4) | host tools |
| OLED user interface | `ui_oled.c` | page, drawn flag, laps offset, refresh period | thread `ui_oled` (priority 28), setters called by the shell | user |
| LED indicator | `indicator_led.c` | blink phase, three pins | thread `led_ind` (priority 29) | user |
| Light linkage | `sensor_light.c` | `s_enabled`, `s_dark`, `s_invert`, two 8-bit counters | thread `light` (priority 29), setters called by the shell | buzzer, refresh period |
| Buzzer | `notifier_buzzer.c` | `s_beep_enabled`, the pin | `notifier_beep_enable`, `notifier_beep_once` | shell, light thread |
| Mutex | `rt-thread/src/ipc.c` | owner, hold, waiting list | take, release | stopwatch service |
| Scheduler | `rt-thread/src/scheduler.c`, `thread.c`, `clock.c` | ready queues, bitmap, current thread, lock nesting, time slices | schedule, sleep, suspend, resume, yield, tick, critical sections | everything |
| Soft timers | `rt-thread/src/timer.c` | timer list, status, timer thread | start, stop, control, check | CSV output |
| Console output | `rt-thread/src/kservice.c`, `serial.c` | one static line buffer, the device's `open_flag` | `rt_kprintf` with polled sending | every thread, the receive interrupt |
| Serial input | `serial.c`, `drv_usart.c`, `ipc.c` | receive ring, its indices and full flag, the semaphore `shrx` | `rt_hw_serial_isr`, `_serial_int_rx`, `finsh_getchar` | shell |
| Line editor | `finsh/shell.c` | character array, length, cursor, history table, escape state | one branch of `finsh_thread_entry` per key | shell |
| Command dispatch | `finsh/msh.c` | the line itself, cut in place | `msh_exec`, `msh_split`, completion | shell |
| Heap | `rt-thread/src/mem.c` | block headers in the heap, `lfree`, `heap_sem` | `rt_malloc`, `rt_free`, `rt_realloc` | thread stacks, timer, receive ring |
| OLED driver | `qu_dong/OLED/OLED.c` | frame buffer, the panel's memory | clear, draw, transfer of areas | OLED thread |

Interaction: the four client threads (timer, shell, OLED, LED) call the service;
every call takes `swlock`, works on `g_sw` and releases it. Whatever takes several
calls (a CSV row, `sw_status`, a page) is not covered by the lock as a whole. The
light linkage, the buzzer and the OLED settings share plain static variables
between the shell and a lower-priority thread, without a lock.

What is hard here: a 32-bit counter extended in software by whoever happens to ask
for the time; widths and truncations on the way from cycles to milliseconds;
arbitrary orders of start/stop/reset/lap/clear; preemption between the calls of one
reader; priority inversion on `swlock`; unlocked flags; wrapping 8-bit counters.
In the layers below: interrupts between the change of a thread's state and the
scheduler call, and in the middle of `rt_thread_resume`; a timer started, stopped or changed at any point of the timer
thread's loop or inside its own callback; ticks that wrap; a receive ring that
overflows while its reader looks at it; nested `rt_kprintf` calls on one buffer;
a line whose length, cursor and end mark are kept apart; a heap that splits and joins.
`PROJECT.json` lists each hazard with its line and the properties aimed at it.

What makes each part correct: the total agrees with the real running time; laps
are exactly the time between marks and the latest ones are kept; every service call
is atomic and returns; a thread at a high priority waits for at most one critical
section of a lower one; the light state follows three agreeing samples, neither
earlier nor later; a muted buzzer is silent and a beep always ends; timers fire in
order and no wake-up of their thread is lost; after `sw_csv off` no row follows;
serial input is a queue that drops the oldest byte; the line a command gets is the
line that was typed, cut where the user meant; heap blocks tile the heap and the
free ones are joined; the most urgent ready thread runs; the panel shows what was drawn.

## 2. Modules

| Module | Models | State and actions |
|---|---|---|
| `Timebase` | `timebase.c` | Variables named as in the code plus `clk`, the real time in core cycles. `timebase_get_us` is the value a call returns, `ReadTimebase` what the call does to the statics. Both clock sources, all widths. |
| `Stopwatch` (extends it) | `stopwatch.c` | One action per operation, named as in the code; each is atomic because of `swlock`. `stopwatch_init` may fail for lack of memory and is retried. |
| `StopwatchTrace` (extends it) | what really happened | History variables that no operation reads: real running time, marks, the last total computed. The properties of the service are stated here. |
| `LapTimer` | abstract specification | What the user is promised: totals do not go back except to zero by a reset, stand still unless running; laps are the differences of totals; the last `Window` are kept. |
| `RtMutex` | `ipc.c`, `thread.c`, `scheduler.c` | The mutex with priority inheritance and the rule that a ready thread of highest priority runs. Each kernel call is one step (interrupts are off in it). |
| `StopwatchThreads` (extends it) | the clients | Each service call is: take the lock, read or write in steps, release. The calls of a thread are a sequence (`csv_timer_cb`, `sw_status`, ...). Interrupts wake sleeping threads between any two steps. |
| `LightLink` | `sensor_light.c`, `notifier_buzzer.c`, refresh period, commands | `apply_state` is broken into its writes, between which the shell may run any command. |
| `OledUi` | `ui_oled.c`, `sw_page`, `sw_laps_*` | The OLED thread, one step per read or write of shared state, against the shell. `screen` is what has been transferred to the display. |
| `Scheduler` (an instance of `RtMutex` inside) | `scheduler.c`, `thread.c`, `clock.c`, thread timers of `timer.c` | Ready queues, bitmap, slices, thread timers and lock nesting. A kernel call is split where it enables interrupts before `rt_schedule()`; `at` says which threads still owe that call. `rt_thread_resume` is split too (`thread.c:842`): `resumed` says whom a thread has taken out of its wait and not yet made ready. Implements `RtMutex`. |
| `TimerList` | list and tick arithmetic of `timer.c` | Operators only: insertion, removal, next timeout on wrapping ticks. |
| `SoftTimers` (extends it) | timer thread, `rt_timer_start`, `_stop`, `_control` | One step per section with interrupts off. The timer thread is the most urgent one, a caller steps only while it is suspended. |
| `CsvStream` (extends it) | `sw_csv`, `sw_csv_header`, `sw_timefmt`, `csv_timer_cb` | The shell's commands take the caller's place; the callback may wait for `swlock`. |
| `InputQueue` | abstract specification | A first-in first-out queue of bounded length that drops its oldest byte. |
| `SerialRx` | receive interrupt, ring, semaphore, `finsh_getchar` | The handler loops byte by byte before a thread runs again. Implements `InputQueue`. |
| `LineEditor` | abstract specification | A text with a cursor and a list of past texts. |
| `ShellLine` | `finsh_thread_entry`, `shell_push_history`, `msh_auto_complete` | One step per received byte over the character array. Implements `LineEditor` as long as no line overflows. |
| `MshSplit` | `msh_exec`, `_msh_exec_cmd`, `msh_split` | The line is cut in place, one step per inner loop. |
| `Console` | `rt_kprintf`, `_serial_poll_tx`, `_serial_check_buffer_size` | Four printers nested by urgency, one step per access to the shared buffer or flag. |
| `SmallMem` | `mem.c` | Headers at offsets; each operation is one step because of `heap_sem`, except the moving `rt_realloc`, which gives it up twice. |
| `Indicators` | `indicator_led.c` | The LED thread's read, three writes and delay, against the commands. |
| `OledPanel` | frame buffer and transfers of `OLED.c` | A byte is the set of its bits; a history variable keeps the picture that was asked for. |
| `LapReport` | statistics and texts of `ui_oled.c`, `stopwatch_cli.c` | Lap table, 32-bit statistics, texts reduced to their lengths. |
| `StopwatchProofs` | theorems about the service | see section 5, as for the next seven |
| `MutexProofs` | theorems about the mutex and the threads that share the service | |
| `TimerListProofs` | lemmas about sorted lists on wrapping ticks, for the next two | |
| `TimerProofs` | theorems about the soft timers and the CSV stream | |
| `SchedulerProofs` | theorems about the scheduler and its refinement of the mutex | |
| `TaskProofs` | theorems about the light thread, the LEDs, the OLED pages, serial input and dispatch | |
| `BufferProofs` | theorems about the panel and the shell's line | |
| `MemoryProofs` | theorems about the heap, the console and the report | |
| `MCTasks`, `MCBuffers` | compositions of five components each | see section 3 |
| `MCThreadsLive` (extends `MCThreads`) | three kinds of behaviour of the threads | see section 3 |
| `MCShellLine` | the shell's line by itself | extended by `MCBuffers` |
| other `MC*` | instances for TLC | |

Two abstractions: `StopwatchThreads` replaces the clock by `now_ms`, the total that
would be computed now, since `Stopwatch` covers the arithmetic; and
`draw_laps_page` reads each lap once there, merging the reads for the rows it shows
with those for its statistics (`OledUi` keeps them apart). `OledUi` leaves out the
running time and the 32-bit width of the statistics' sum, which is in `LapReport`.
`RtMutex` lets any set of sleepers wake at a tick; when exactly they wake is in
`Scheduler`. A mutator writes in two steps, at the point where the
fields disagree most. Names starting like a definition and marked "Mutant" in a
comment are faulty variants of that definition; no action uses them. They are there
to show that each property can fail.

## 3. Runs

Components that share no state are composed as a sum: `MCTasks` and `MCBuffers` extend five
modules each, and the variable `part` names the one that moves in a behaviour while the others
rest in an initial state. Nothing one of them does enables, disables or changes a step of
another, so interleaving them would show nothing new; every state and every behaviour of each
component is explored. A liveness property of one part is claimed for the behaviours in which
it moves (`LightConverges`, `DisplaySettles`).

Most invariants are conjunctions of named parts, listed in parentheses.

| Run | Checks | Shows |
|---|---|---|
| `stopwatch` | `TypeOK`, `LapsTile`, `Accurate`, `NeverAhead`, `LapTimerSpec` | All orders of operations, DWT and tick clock: totals within one quantum and one millisecond per segment of real time; laps tile the time line; what spoils the count only ever loses time; the service implements `LapTimer`. |
| `unpolled` (violation) | `AccurateUnpolled` | Without a query for 2^32 cycles a running stopwatch loses 59.65 s. The laps page with CSV off makes no such query. |
| `long` (violation) | `MonotonicUs` | `total_cyc * 1000000` wraps after about 71 h and the clock jumps back. |
| `threads` | `BoundedInversion`, `MutualExclusion`, `ReadersExact` (`ThreadsTypeOK`, `StatusExact`, `RowLapExact`), `AtomicCalls`, `MutexSound` (`TypeOK`, `Consistent`, `Restored`, `Inherited`), `FairCallsReturn`, `FairNoStarvation` | Calls are atomic (refinement of `LapTimer`); `sw_status` and the lap columns of a CSV row are exact although they take several calls. `RowLapExact` depends on priority inheritance: its mutant is the mutex without it. The mutex stays sound, every thread finishes its calls and nobody waits for the lock forever, also when the mutex is used freely and nested. |
| `row` (violation) | `RowTotalCoversLap` | Total and lap of one CSV row can belong to different moments. |
| `tasks`, light thread | `HysteresisExact`, `SwitchJustified`, `BuzzerObeys` (`MutedSilent`, `SoundsInBeep`), `LightConverges` | Hysteresis and buzzer under every interleaving with the shell. |
| `tasks`, LED thread | `LedsRight` (`NoMixture`, `ShownInTime`) | Commands at every point of its loop: no mixture of two states stays on, and a state is shown in time. |
| `tasks`, OLED thread | `MainClean`, `ListExact`, `DisplaySettles` | No page switch leaves the main page drawn over the list; a list no command fell into is exact; when the commands stop the display comes to show the page asked for. |
| `tasks`, serial input | `NoLostWakeUp`, `ImplementsQueue`, `ByteArrives` | Overflow during reading, one signal for several bytes, a semaphore at its limit. |
| `tasks`, dispatch | `DispatchExact` (`MshTypeOK`, `ArgumentsExact`, `Dispatched`) | Every line of up to seven characters with blanks, quotes and backslashes, against a reference definition of its arguments. |
| `tasks`, the first four | `TasksTypeOK` | In particular the clamps of `sw_oled_rate` around the narrowing to 16 bits. |
| `mute` (violation) | `MuteKept` | A change from dark to light undoes `sw_beep off`. |
| `buffers`, shell line | `LineSound` (`LineTypeOK`, `LineIntact`, `OverflowBounded`), `ImplementsEditor` | Every sequence of keys on a short line with history and completion: whole and inside its array as long as no line is too long; behind an overflow only the bounds of `OverflowBounded`. |
| `discarded` (violation) | `DiscardedHarmless` | Behind a line that is too long, Tab, a character and two Backspaces move memory outside the array (section 4). |
| `buffers`, console | `ConsoleSound` (`ConsoleTypeOK`, `RowsWhole`, `StreamWhileWriting`, `FlagKept`) | CSV rows stay whole, but for the one overflow warning printed by the interrupt; `open_flag` survives nesting. |
| `buffers`, heap | `HeapSound` (`HeapTypeOK`, `Tiled`, `Coalesced`, `LowestFree`, `HoldersKeep`, `RefusedOnlyIfFull`) | Allocation, release and reallocation in every order. |
| `buffers`, panel | `PanelExact` (`PanelTypeOK`, `DrawnExact`, `AreaShown`) | Glyphs across pages and edges, areas that begin and end inside a page. |
| `buffers`, report | `ReportSound` (`ReportTypeOK`, `ReportExact`, `TimesWhole`, `StatWhole`) | Statistics exact in 32 bits, times never cut, statistics not cut below 100 s. |
| `timers` | `TimersSound` (`TypeOK`, `ListExact`, `WakeUpNotLost`), `FiringRules` (`FiresInOrder`, `StoppedStays`), `Fires` | A periodic and a one-shot timer started, stopped and changed at every point of the timer thread's loop, also from within a callback's wait, across the wrap of the tick. |
| `csv` | `CsvAsAsked` (`CsvTypeOK`, `NoRowAfterOff`, `PeriodAsAnnounced`, `OnlyHugePeriodHalts`), `RowTiming` (`RowSpacing`, `WaitNotCutShort`), `StreamFlows` | The stream as the user sees it, and that starting the timer never wakes the callback out of its wait for `swlock`. |
| `scheduler` | `QueuesSound` (`TypeOK`, `QueuesExact`, `TimersExact`), `RightThreadRuns` (`HighestRuns`, `SliceObeyed`), `ImplementsMutex` | Queues and bitmap exact, no wake-up without its switch, no slice end forgotten in a critical section, no late timeout in another wait, also when `rt_thread_resume` is interrupted before it makes its thread ready; refinement of `RtMutex`. |

Bounds and why they are enough:

* `stopwatch`: `CycMod` 8 and `MaxClk` 14 make the counter wrap once or twice, with
  steps of 1 and 4 cycles so that it wraps in the middle of a segment or a pause.
  3 cycles to 2 microseconds to 1 millisecond makes every division inexact. Two
  retained laps and three taken exercise the shift. Two running segments between
  resets exercise the accumulation. `unpolled` and `long` enlarge `MaxClk` and
  shrink `U64Mod` until the effect appears.
* `threads`: four threads with the firmware's priorities, two laps retained, one elapsed
  millisecond, which is enough to tell a total before it from one after it; two holds, so that
  the hold limit is met, and five acquisitions per activation, as many as any command makes.
  The variable `part` says whether all four threads make their calls without fairness, or three
  of them are fair, making their calls or using the mutex freely. Three leave one between the
  waiter and the owner. In the fair behaviours the stopwatch counts nothing (`Small`).
* light thread: counters wrap at 5, just above the debounce length of 3; refresh periods
  below the minimum, ordinary, and too large for the register.
* LED thread: units of 50 ms; the thread may be two units late; ages are told apart up to 16
  units, beyond the longest delay and lateness together.
* OLED thread: two pages of two laps, starting from every lap table, and four commands:
  enough to scroll, clear, take a lap and switch the page around one frame.
* serial input: four places, of which three hold bytes; a semaphore limit of 3 is reached
  before the reader takes.
* dispatch: seven characters hold a quoted argument with an escaped quote as well as more
  arguments than the limit of three.
* shell line, `discarded`: the third character fills the line and discards it; two lines of history
  fill and move up; commands with a common prefix exercise completion.
* console: texts of one and two characters, one of them in two calls; every printer may come
  between any two accesses of a less urgent one.
* heap: 21 units with headers and minimum of 3 as on the target hold up to four
  blocks; the sizes are below, at and above the minimum, the exact fits and one too
  large. One moving reallocation is in progress at a time.
* panel: three columns, two pages of two pixels; images lie above, below, left and
  right of every edge. Two drawings meet in every way.
* report: the width of 32 bits is 10^9, because TLC's integers end at 2^31; one
  step of the clock makes the total wrap, others give laps of every length of text.
* `timers`, `csv`: `TickMod` 8 makes ticks wrap every few steps and `RT_TICK_MAX / 2`
  is 3, so that the largest admissible period is 2; the timer thread may be one tick
  late (`MaxLag`), which brings the comparison to its edge. Two timers meet in every
  order and with equal timeouts. `csv` has period arguments below
  and above the minimum, and a negative one.
* `scheduler`: one urgent and two equal threads, sleeps of one and two ticks, slices
  of one and two ticks, critical sections nested twice and two acquisitions per
  activation, ticks that wrap at 8.

Fairness. In `MCThreadsLive` a thread that gets the core again and again gets on with its calls,
or releases what it holds and goes to sleep (strong fairness per thread, since preemption
disables it): the scheduler always runs a ready thread, and no thread loops without
sleeping. In `LightLink` the light thread and the end of a beep are weakly fair:
`rt_thread_mdelay` returns, and the shell blocks for input between commands. The
same holds of the OLED thread in `OledUi`; `DisplaySettles` relies on the commands being
bounded in number, which is what "once the commands stop" means.
In `SoftTimers` and `CsvStream` the tick comes, the timer thread steps whenever it
can (it is the most urgent thread; weak), a callback that waits is woken because every holder
of `swlock` releases it, and a command once begun goes on although the timer thread
interrupts it again and again (strong). In `SerialRx` the interrupt handler finishes (weak) and
the shell goes on between interrupts (strong); that a byte arrives needs no bound on the
interrupts, only that the shell is not kept out for ever. The LED thread needs no fairness: its
properties bound delays, and time itself waits for a thread that is late.

Three passing runs do not check for deadlock, because the system may stop: in `tasks` the
dispatch ends with its line, in `buffers` nothing is claimed behind a line that overflowed, and
in `csv` a failed assertion of `rt_timer_start` stops the firmware.

## 4. Findings

The five violation runs are disagreements between the code and what its comments
or `PROJECT_STOPWATCH.md` say: the two clock limits, the CSV row, the overridden
mute and the overlong line. `PROJECT.json` quotes the lines. The state the code cannot distinguish (a
segment based at clock reading 0) is recorded by the history fault `zero` and
excluded from `Accurate`; `NeverAhead` says that it can only lose time, as do unseen
turns of the counter.

Observations made while modelling; where one limits a property, the property says so:

* `rt_timer_list_next_timeout` returns `RT_TICK_MAX` for an empty list and also for a first
  timer due at `RT_TICK_MAX`; the timer thread then suspends with a timer in the list
  (`timer.c:692`). `WakeUpNotLost`, `ListExact` and the liveness properties except this (`missed`).
* A negative or huge argument of `sw_csv on` becomes a period that `rt_timer_start` rejects by
  `RT_ASSERT` (`timer.c:341`), which stops the firmware; `sw_csv` checks the lower limit only.
  `OnlyHugePeriodHalts` shows that nothing else gets there.
* A line that reaches `FINSH_CMD_SIZE` is discarded by resetting the positions (`shell.c:757`);
  its characters stay in the array behind a shorter line typed next, so `LineIntact` and
  `ImplementsEditor` claim nothing behind such a line. It can get worse, which is what
  `discarded` shows: after 80 characters Tab sets length and cursor to 80 (`shell.c:653`); the next
  character resets the length alone (`shell.c:726`) and the cursor becomes 81; the second Backspace
  takes the length, an unsigned 16-bit number, below zero to 65535, and the `rt_memmove` at
  `shell.c:671` moves nearly 64 KB from the last places of the array on. The model records this in
  `outside` and lets nothing happen afterwards. `OverflowBounded` adds that it is the only way out.
* A CSV row printed while the shell or the light thread formats or sends replaces the text
  being sent (`kservice.c:1194`). `RowsWhole` is about rows only.
* `rt_realloc` shrinks a block below `MIN_SIZE_ALIGNED` (`mem.c:471`), which `mem.c:298` excludes.
* The search of `rt_malloc` ends at `mem_size_aligned - size` (`mem.c:306`), so that an exact fit
  at the end of the heap, the whole empty heap included, is refused. `RefusedOnlyIfFull` excepts it.
* The run LED changes every 500 ms, a rate of 1 Hz; `PROJECT_STOPWATCH.md:157` says 2 Hz. Its first
  change after a pause may be missing, because `blink` keeps its value over the pause. No property
  is about the rate.
* With laps of 100 s and more the line of statistics is longer than the panel;
  `PROJECT_STOPWATCH.md:376` says that milliseconds were chosen so that it is shown completely.
  `StatWhole` is about shorter laps.
* A preempted thread goes to the end of its queue. The thread switched to at the end of a
  slice can be preempted in the same tick interrupt, before its first instruction, and then
  stands behind the other again, so with wake-ups at the wrong moments a ready thread can
  wait for ever next to an equal. `SliceObeyed` is claimed, liveness among equals is not.
* `OLED_UpdateArea` leaves out the last page of an area that begins at a negative Y
  and ends at a page's edge; no caller passes one, and the model draws there but
  transfers from row 0 on.
* `rt_timer_start` tests the state of the timer thread with interrupts on and resumes it
  afterwards. That this never cuts the callback's wait short rests on the timer
  thread being more urgent than every caller (`WaitNotCutShort`; its mutant drops
  that rule). For the same reason the test of the state (`thread.c:825`), made with interrupts
  on, is one step with what follows in `Scheduler`: a timer thread that wakes behind it runs at once
  and is suspended again before the caller goes on. A thread that two callers resume at the same
  time would be put into a queue twice; only the shell starts soft timers (`Wakeable`).

## 5. Proofs

TLAPS proves the 37 theorems below, each for every value of the constants that meets the named assumptions of
the modules. Each invariant below was first checked with TLC on the instance of the
corresponding run. The assumptions that go beyond "positive" and "within its width":

| Assumption | Why the code justifies it |
|---|---|
| `TimebaseConstants`: the tick rate divides a million and is not above the core clock | 1000 Hz and 72 MHz; the division of `ticks * 1000000` by the rate in `timebase.c` is then exact |
| `FirmwarePriorities`, a hypothesis of `ReadersCorrect` only: timer thread before shell before the display threads | the priorities 4, 20, 28 and 29 of the configuration and of the `rt_thread_create` calls; `MCThreads` asserts it of the instance checked |
| `LatenessAssumption`: a timer thread that is late by at most `MaxLag` stays within half the range of the tick | `rt_timer_start` asserts a period below `RT_TICK_MAX / 2`, and half the range is 24 days |
| `CsvConstants`: arguments of the width of an `int`, at most 1000 ticks per second | `atoi`; `rtconfig.h` |
| `OneTimer`, a hypothesis of `CsvCorrect` and `RowTimingCorrect` only: the stream's timer is the only soft timer, and nobody calls the service while its callback waits | `stopwatch_cli.c` creates one timer and no other part does; the owner `csv_timer_cb` waits for has the timer thread's priority. `TimersCorrect` and `FiringCorrect` hold for every set of timers |
| `ShellAssumption`: command names are shorter than a line | `FINSH_CMD_SIZE` is 80 |
| `SchedulerAssumption`: finitely many threads, the idle thread last; sleeping times below half the range of the tick | the idle thread is created with the largest priority number; the assertion of `rt_timer_start` |
| `ConsoleAssumption`: urgencies differ, the receive interrupt comes before the CSV row and both before the others; a row is one call and fits the buffer | the interrupt and the priorities 4, 20 and 29; a row is four numbers in a buffer of 128 |
| `ReportAssumption`: minutes of a word have at most five digits, lap numbers at most two; buffers and panel are as large as the texts then need | 2^32 ms are 71582 minutes; 20 laps; buffers of 24 and 16, 128 columns |
| `SplitAssumption`: command names have neither blanks nor quotes | they are C identifiers, put into the table by `MSH_CMD_EXPORT` |
| `NoWrap`, a hypothesis of `LapTimerImplemented` only | bounds the time by the first wrap of the 64-bit product, the tick or the millisecond count: 71 h with the firmware's constants. The `long` run shows that the claim is false behind it. The instance of the `stopwatch` run meets it |

### The service (`StopwatchProofs`)

* `TypeCorrect`: `TypeOK` is not inductive, since the history records a running time that must
  not exceed the elapsed time; it is strengthened with `Recorded` (nothing is dated in the future).
* `LapsCorrect`: `LapsTile` with the previous invariant. The step that needs work is a lap on
  a full table: the shifted entries are those of the later marks.
* `NeverAheadCorrect`, `AccurateCorrect`: the total is a sum of divisions of a counter that was
  extended in software, so the invariant (`AccuracyInv`) says at the level of cycles what the
  code knows: the next difference of the 32-bit counter is the time since the last read modulo
  a turn (`Extension`); the count at the last read lies above the base of the running segment
  by the time since the base, less what was missed, within one microsecond of conversion
  (`CycBase`; `TickBase` for the tick clock); the finished segments have accumulated at most
  the real time and one quantum each, and at least that less a millisecond each (`Finished`).
  The quantum of the tick clock is exactly one tick.
* `LapTimerImplemented`: the service implements `LapTimer`. `ShownInv` adds that nothing has
  been shown that the clock had not reached at its last read, from which it follows that totals
  do not go back even when turns of the counter are missed.

### Mutex and threads (`MutexProofs`)

* `MutexCorrect`: `MutexSound` is inductive. The lemmas are about the waiting list: a place before
  the first waiter of lower priority exists and keeps the list sorted; removing the first keeps it.
* `ThreadsUseMutex`: every step of the threads is a step of the mutex or leaves it alone, so
  `MutexSound` carries over; `InversionCorrect` follows from it and from the rule of who runs.
* `MutualExclusionCorrect`, `CallsAtomic`: `ServiceInv` says for every thread which phase of which
  call it is in, that only the owner is inside, and what the fields of `g_sw` are in terms of the
  calls that have returned: equal while nobody writes (`Settled`), and for each mutator what
  its first half has changed (`HalfWritten`) and what its second half leaves (`Written`).
  With it every release of the lock is one operation of `LapTimer`.
* `ReadersCorrect`: `StatusInv` says that what the shell has read so far is the front of the
  lap table: every other writer is the shell itself. `RowInv` says why the timer
  thread's three calls agree: once its first call has returned the shell is not waiting for the
  lock, and from the second on it does not own it, because the timer thread is more urgent
  and blocks only on a lock whose owner then inherits its priority.

### Timers and stream (`TimerProofs`)

* `TimersCorrect`: order on wrapping ticks is no order, so everything is said of ages, the
  distance behind a point half a turn ahead: the list is descending in age, no age leaves its half
  (`InTime`), and what the timer thread has read of the list before it sleeps still holds
  (`Reading`), with the steps of a caller that has changed the list and not yet resumed the thread
  excepted. `ListInv` and `PlaceInv` say who is in the list and who is where.
* `FiringCorrect`: from the same invariant.
* `CsvCorrect`: `Obedient` adds at which points of a command the timer may be active, `Paced` when its
  period is the one announced. `RowTimingCorrect`: `Spaced` adds that the ticks left and the ticks since
  the row began together make up the period.

### Scheduler (`SchedulerProofs`)

* `QueuesCorrect`, `RightThreadCorrect`: `SchedInv` has five parts besides the types. `Good` is about
  the record of queues, bitmap, states and marks alone: each ready thread is once in the queue of
  its current priority, the bitmap names the queues that are not empty. `Placed` is about the
  point at which each thread is: a current thread in its own code is the most urgent one unless
  the scheduler is locked, a locked scheduler owes no call of `rt_schedule()`, and a yield mark
  is pending only where that call is still to come or was refused.
  `MutexInv` and `TimersInv` say who waits for the lock and who sleeps with which timeout, so that
  no timer is left over for a thread that is in another wait. `ResumedInv` says that a thread which
  `rt_thread_resume` has taken out of its wait stays suspended, in no list, until it is made ready. The kernel's
  operations (insert, remove, switch, resume, change of priority, tick) are operators on the record,
  with one lemma for each about `Good` and one about `Placed`.
* `SchedulerImplements`: the map forgets queues, timers and who is current; a suspended thread waits if it
  is in the mutex' list and sleeps otherwise. Every step is a step of `RtMutex` or leaves it alone, because a thread
  that takes, releases or sleeps is by `Placed` one of the most urgent ready ones.

### Tasks (`TaskProofs`)

* `TypeCorrect`: in particular the two clamps of `sw_oled_rate` around the narrowing.
* `HysteresisCorrect`, `SwitchCorrect`: `Counting` adds why the wrap is harmless: the counters exclude
  each other, and as long as the samples contradict `s_dark` their number is below the
  debounce length and counted exactly, so a counter only wraps when it no longer matters.
* `MuteCorrect`: strengthened with the fact that what remains to be silenced between
  the light thread's two writes was muted by the light thread itself.
* `BeepCorrect`: inductive as it stands. `BuzzerCorrect` puts the two together.
* `MainPageClean`: `LabelInv` adds that between drawing the labels and the end of the frame they
  are on the screen, and that the flag is only set with the list on the screen while the list is the
  selected page, from where every way back clears it.
* `LedsCorrect`: `PinsWritten` says which pins of the current turn of the loop are written,
  `StaleBounded` trades the time a state has lasted against the delay left.
* `ListCorrect`: `UiRange` bounds the numbers while a list is drawn; `ListInv` says that as long as
  no command falls into the frame, the rows so far are the front of the page and the statistics
  so far are those of the first laps of the table (`Counted`).
* `DispatchCorrect`: the line is cut in place, so the danger is that what has been written
  is read again. `LineInv` says that the unread part of the memory is still the line as typed and that
  the places stay inside it; `NameInv` that the first word was looked up before anything was overwritten;
  `ReadInv` that the arguments read so far are stored and closed, but for the blank behind the last one,
  which the next turn overwrites, and that reading goes on where the next argument begins.
* `TasksCorrect`: `TasksInv` collects the invariants of the five tasks; a step of the whole is a step of one
  of them (`TaskSteps`).
* `SerialTypeOK`, `SerialFull`: together inductive (`SerialInv`), since a full ring that
  read as an empty one would let the indices part.
* `SerialWakeUp`: `NoLostWakeUp` is strengthened with `IndicatesSomething`: the interrupt
  handler signals only after it has stored a byte, so the signal is given while the ring
  is not empty, and a sleeping shell is woken by it.
* `SerialImplements`: every step of interrupt and reader is a step of `InputQueue` or
  leaves it alone. The lemmas say what storing and reading do to `Contents`, the bytes
  between the indices: append, append and drop the first, or drop the first.

### Panel and line (`BufferProofs`)

* `PanelCorrect`: `Pending` adds that a pixel of the area being updated is still to be
  transferred or already the same in buffer and panel. The lemmas split a pixel into column, page
  and bit and a glyph into its part in a page and its part in the next.
* `LineCorrect` does not say that every access stays inside the array: it does as long as no line
  was too long. `OverflowBounded` says what even a line that has overflowed guarantees: the last
  place of the array is never written, the length counts characters only, the cursor is less
  than a line beyond it, and the only move outside is that of `discarded`. It is needed because such a line can be saved and recalled: a recalled
  entry is whole only if every entry is characters followed by Nul (`Entry`). `CompletionFits` says
  that completion neither shortens the line nor reaches its end.
* `EditorImplemented`: each key is the operation of `LineEditor` it should be. The lemmas say what
  the moves in the array are to the text (`InsertIs`, `EraseIs`), and that comparing whole arrays
  compares texts (`SameText`).

### Memory, console and report (`MemoryProofs`)

* `HeapCorrect`: `HeapInv` states the blocks as a tiling (`Tiles`: next and prev lead to the neighbours, and
  nothing lies between), without free neighbours (`NoHoles`), with `lfree` the lowest free one (`Lowest`). What is used is
  what is held, and `used_mem` is the number of units those blocks cover, a cardinality, so that cutting and
  joining a block adds and removes an interval. `SplitTiles`, `JoinTiles` and `PlugForward` say what the three
  operations on headers do to a tiling. The two halves of a moving `rt_realloc` are separate steps.
* `ConsoleCorrect`: `FlagInv` says that the stream flag is set exactly if it was at first or somebody
  sends, and that what a printer has saved is what those it interrupted need back. `RowInv` says that a row so far is
  whole unless the interrupt's one warning came in between, and that this leaves it whole afterwards.
* `ReportCorrect`: `ReportInv` adds marks on the time line (`Marks`): the laps kept adjoin, so
  their sum is at most the last mark, which is at most the total. That is why the 32-bit sum does
  not overflow before the total does.

### Induction over data

The statistics of a table, the beginnings of the arguments of a line and the sum of the laps are recursive
functions of a position. What they return is proved by the least counterexample: the set of positions at which a
statement fails, if not empty, has a least element, because `<` is well founded on the
naturals (`LeastOf`, `LeastOffset`), and the statement holds just before it. No operator is declared `RECURSIVE`.

### Only model-checked

Liveness is out of the prover's reach and stays with TLC: `FairNoStarvation`, `FairCallsReturn`, `LightConverges`,
`DisplaySettles`, `Fires`, `StreamFlows`, `ByteArrives`. Every invariant, every action property and every
refinement that a passing run checks is also a theorem.

## 6. Plan

Every part of the firmware that keeps state of its own is modelled, and what the prover can reach of its
properties is proved. What could be added is one specification of `Stopwatch` below `StopwatchThreads`, instead
of two that meet in `LapTimer`: the service's arithmetic under the interleaving of its callers.

## 7. Not modelled

* The bit-banged I2C lines of the OLED driver: the acknowledge is not read, so no state
  depends on them. Its drawing of points, arcs and numbers has no caller.
* Drivers, HAL, CMSIS and BSP: vendor code that writes registers and sets clocks. They
  appear as the core clock, the pins, the light input and the serial line.
* Kernel objects, file systems and network stacks of the RT-Thread tree that are not
  configured or have no caller: events, mailboxes, message queues, memory pools, dfs,
  lwip, the C interpreter of finsh. They make up nearly all lines of the repository.
* `rt_timer_delete` and `rt_timer_detach`, timed `rt_mutex_take`, thread deletion: no caller
  in the firmware. Failing thread creation at startup.
* Echo, passwords and path completion of the shell.
* The parameter persistence of `PARAM_PERSISTENCE.md`, a design without code, and
  `testtools`, which run on the host.
