------------------------------ MODULE SerialRx ------------------------------
(***************************************************************************)
(* Serial input: the receive interrupt of uart1 (rt_hw_serial_isr) fills a *)
(* ring, signals the shell's semaphore once per interrupt, and the shell   *)
(* thread (finsh_getchar) empties the ring through _serial_int_rx.         *)
(*                                                                         *)
(* The interrupt handler runs to its end before a thread continues; inside *)
(* it every byte is one step, because bytes may keep arriving while it     *)
(* loops.  The shell runs between interrupts, one step per section that it *)
(* executes with interrupts disabled.                                      *)
(***************************************************************************)
EXTENDS Integers, Sequences

CONSTANTS
    Byte,               \* values a received byte can take
    Nul,                \* the byte 0
    RT_SERIAL_RB_BUFSZ, \* size of the ring
    RT_SEM_VALUE_MAX    \* largest value of a semaphore

ASSUME SerialAssumption ==
    /\ Nul \in Byte
    /\ RT_SERIAL_RB_BUFSZ \in Nat /\ RT_SERIAL_RB_BUFSZ > 1
    /\ RT_SEM_VALUE_MAX \in Nat /\ RT_SEM_VALUE_MAX > 0

VARIABLES
    buffer,     \* rx_fifo->buffer
    put_index,  \* next place to write
    get_index,  \* next place to read
    is_full,    \* rx_fifo->is_full
    isr,        \* the CPU is in rt_hw_serial_isr
    value,      \* rx_sem.value
    shell,      \* where the shell is: reading, about to take, waiting, or busy with a byte
    ch          \* byte finsh_getchar returned last

rxvars == <<buffer, put_index, get_index, is_full, isr, value, shell, ch>>

Index == 0 .. RT_SERIAL_RB_BUFSZ - 1

\* The ring as rt_serial_open and rt_sem_init leave it; the shell starts by reading.
RxInit ==
    /\ buffer = [i \in Index |-> Nul]
    /\ put_index = 0 /\ get_index = 0 /\ is_full = FALSE
    /\ isr = FALSE
    /\ value = 0
    /\ shell = "read"
    /\ ch = Nul

-----------------------------------------------------------------------------
Following(i) == IF i + 1 >= RT_SERIAL_RB_BUFSZ THEN 0 ELSE i + 1

\* The number of unread bytes as the handler computes it.
rx_length ==
    IF put_index >= get_index
    THEN put_index - get_index
    ELSE RT_SERIAL_RB_BUFSZ - (get_index - put_index)

\* Mutant: on overflow only the full mark is set.
PutByteMarkOnly(b) ==
    /\ buffer' = [buffer EXCEPT ![put_index] = b]
    /\ put_index' = Following(put_index)
    /\ is_full' = (is_full \/ Following(put_index) = get_index)
    /\ UNCHANGED get_index

\* One byte from the data register into the ring; when the ring is full the
\* oldest byte is given up.
PutByte(b) ==
    /\ buffer' = [buffer EXCEPT ![put_index] = b]
    /\ put_index' = Following(put_index)
    /\ IF put_index' = get_index
       THEN get_index' = Following(get_index) /\ is_full' = TRUE
       ELSE UNCHANGED <<get_index, is_full>>

\* The receive interrupt is taken: the first byte is there.
uart_isr(b) ==
    /\ ~isr
    /\ isr' = TRUE
    /\ PutByte(b)
    /\ UNCHANGED <<value, shell, ch>>

\* A further byte has arrived before the handler looks again.
IsrAgain(b) ==
    /\ isr
    /\ PutByte(b)
    /\ UNCHANGED <<isr, value, shell, ch>>

\* Mutant: a thread that waits is resumed only if the value was spent.
rt_sem_releaseOnce ==
    /\ value' = 1
    /\ UNCHANGED shell

\* rt_sem_release: a waiting thread is resumed, otherwise the value grows up
\* to its maximum.
rt_sem_release ==
    IF shell = "wait"
    THEN shell' = "read" /\ UNCHANGED value
    ELSE /\ value' = IF value < RT_SEM_VALUE_MAX THEN value + 1 ELSE value
         /\ UNCHANGED shell

\* Mutant: data is indicated only when the ring has just become non-empty.
IsrIndicateFirst ==
    /\ isr
    /\ isr' = FALSE
    /\ IF rx_length = 1 THEN rt_sem_release ELSE UNCHANGED <<value, shell>>
    /\ UNCHANGED <<buffer, put_index, get_index, is_full, ch>>

\* The data register is empty: indicate the data and leave.
IsrIndicate ==
    /\ isr
    /\ isr' = FALSE
    /\ IF rx_length # 0 THEN rt_sem_release ELSE UNCHANGED <<value, shell>>
    /\ UNCHANGED <<buffer, put_index, get_index, is_full, ch>>

-----------------------------------------------------------------------------
Empty == get_index = put_index /\ ~is_full

\* rt_device_read of one byte: the byte, or nothing.
_serial_int_rx ==
    /\ ~isr /\ shell = "read"
    /\ \/ /\ Empty
          /\ shell' = "take"
          /\ UNCHANGED <<get_index, is_full, ch>>
       \/ /\ ~Empty
          /\ ch' = buffer[get_index]
          /\ get_index' = Following(get_index)
          /\ is_full' = FALSE
          /\ shell' = "busy"
    /\ UNCHANGED <<buffer, put_index, isr, value>>

\* rt_sem_take(&shell->rx_sem, RT_WAITING_FOREVER).
rt_sem_take ==
    /\ ~isr /\ shell = "take"
    /\ IF value > 0
       THEN value' = value - 1 /\ shell' = "read"
       ELSE shell' = "wait" /\ UNCHANGED value
    /\ UNCHANGED <<buffer, put_index, get_index, is_full, isr, ch>>

\* The byte has been handled (a command may have run) and the shell asks for the next.
finsh_getchar ==
    /\ ~isr /\ shell = "busy"
    /\ shell' = "read"
    /\ UNCHANGED <<buffer, put_index, get_index, is_full, isr, value, ch>>

Shell == _serial_int_rx \/ rt_sem_take \/ finsh_getchar

RxNext ==
    \/ \E b \in Byte : uart_isr(b) \/ IsrAgain(b)
    \/ IsrIndicate
    \/ Shell

RxSpec == RxInit /\ [][RxNext]_rxvars

\* The handler ends because bytes arrive slower than it loops, and the shell
\* gets the processor between interrupts again and again: the threads above it
\* sleep most of the time and an interrupt is far shorter than a byte on the line.
RxFairSpec == RxSpec /\ WF_rxvars(IsrIndicate) /\ SF_rxvars(Shell)

-----------------------------------------------------------------------------
\* The indices of the ring stay inside it, the semaphore within its limits.
RxTypeOK ==
    /\ buffer \in [Index -> Byte]
    /\ put_index \in Index /\ get_index \in Index
    /\ is_full \in BOOLEAN /\ isr \in BOOLEAN
    /\ value \in 0 .. RT_SEM_VALUE_MAX
    /\ shell \in {"read", "take", "wait", "busy"}
    /\ ch \in Byte

\* The full mark is never needed to tell a full ring from an empty one: a full
\* ring keeps one place free, so the two indices are equal only when nothing is
\* unread (rt_hw_serial_isr moves get_index on before the indices could meet).
FullNotEmpty == is_full => get_index = Following(put_index)

\* No wake-up is lost between the failed read and rt_sem_take in finsh_getchar,
\* however interrupts fall and however many bytes one interrupt brings: outside
\* the handler a shell that waits on rx_sem has nothing to read, and one that is
\* about to take it while there is something to read will not wait.
NoLostWakeUp ==
    ~isr => /\ shell = "wait" => Empty /\ value = 0
            /\ shell = "take" /\ ~Empty => value > 0

\* What makes NoLostWakeUp inductive: the handler never ends on an empty ring.
IndicatesSomething == isr => put_index # get_index

\* The ring, read from get_index to put_index.
Contents ==
    [k \in 1 .. rx_length |->
        buffer[IF get_index + k - 1 >= RT_SERIAL_RB_BUFSZ
               THEN get_index + k - 1 - RT_SERIAL_RB_BUFSZ
               ELSE get_index + k - 1]]

Input == INSTANCE InputQueue WITH
            queue <- Contents, ch <- ch, Cap <- RT_SERIAL_RB_BUFSZ - 1

\* The interrupt handler and the reader together are a first-in first-out queue
\* of RT_SERIAL_RB_BUFSZ - 1 bytes that gives up the oldest byte on overflow.
ImplementsQueue == Input!Spec

\* A byte in the ring reaches the shell as soon as the shell asks for one.
ByteArrives == (shell # "busy" /\ ~Empty) ~> (shell = "busy")

=============================================================================
