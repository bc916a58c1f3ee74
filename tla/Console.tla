------------------------------- MODULE Console -------------------------------
(***************************************************************************)
(* Console output: rt_kprintf formats into one static buffer, sets the     *)
(* stream flag of the console device, sends the buffer with polling        *)
(* (_serial_poll_tx) and puts the flag back.  Nothing locks the buffer.    *)
(*                                                                         *)
(* The printers are the shell, the timer thread (CSV rows), the light      *)
(* thread (three calls per log line) and the receive interrupt, which      *)
(* warns once when the receive ring overflows.  A printer never waits      *)
(* inside a call, so only a more urgent one can come in between, and it    *)
(* finishes first.                                                         *)
(***************************************************************************)
EXTENDS Integers, Sequences, FiniteSets

CONSTANTS
    Printer,            \* threads and the interrupt that print
    Isr,                \* the receive interrupt
    Row,                \* the timer thread
    Urgency,            \* Urgency[p]: smaller runs first; the interrupt has the smallest
    Calls,              \* Calls[p]: lengths of the texts p prints in a row
    RT_CONSOLEBUF_SIZE

ASSUME ConsoleAssumption ==
    /\ {Isr, Row} \subseteq Printer /\ Isr # Row
    /\ Urgency \in [Printer -> Nat]
    /\ \A p, q \in Printer : p # q => Urgency[p] # Urgency[q]
    /\ \A p \in Printer : Urgency[Isr] <= Urgency[p] /\ (p # Isr => Urgency[Row] <= Urgency[p])
    /\ \A p \in Printer : Calls[p] \in Seq(Nat \ {0}) /\ Calls[p] # << >>
    /\ RT_CONSOLEBUF_SIZE \in Nat /\ RT_CONSOLEBUF_SIZE > 2
    \* A row is one call, and short: four numbers in a buffer of 128.
    /\ Len(Calls[Row]) = 1 /\ Calls[Row][1] < RT_CONSOLEBUF_SIZE - 1

VARIABLES
    rt_log_buf,     \* the static buffer
    stream,         \* RT_DEVICE_FLAG_STREAM of the console's open_flag
    at,             \* at[p]: where p is in rt_kprintf, "out" when it is not printing
    call,           \* call[p]: which of its texts p prints
    i,              \* i[p]: characters handled in this phase of the call
    old_flag,       \* old_flag[p]: the flag p found
    already_output, \* the overflow warning has been given
    sent,           \* history: what p has put on the line since it began
    torn,           \* history: somebody else sent in between
    damaged,        \* history: rows that did not come out whole, counted up to two
    flag0           \* history: the stream flag before anybody printed

consolevars == <<rt_log_buf, stream, at, call, i, old_flag, already_output, sent, torn, damaged, flag0>>

BufferNul == <<>>
CR == <<"cr">>

\* Character k of text c of printer p; only the last text ends in a newline.
Chr(p, c, k) == <<p, c, k>>
IsNewline(ch) == ch # BufferNul /\ ch[2] = Len(Calls[ch[1]]) /\ ch[3] = Calls[ch[1]][ch[2]]

Least(m, n) == IF m < n THEN m ELSE n
length(p) == Least(Calls[p][call[p]], RT_CONSOLEBUF_SIZE - 1)

ConsoleInit ==
    /\ rt_log_buf = [k \in 1 .. RT_CONSOLEBUF_SIZE |-> BufferNul]
    /\ stream \in BOOLEAN
    /\ at = [p \in Printer |-> "out"]
    /\ call = [p \in Printer |-> 1]
    /\ i = [p \in Printer |-> 0]
    /\ old_flag = [p \in Printer |-> FALSE]
    /\ already_output = FALSE
    /\ sent = [p \in Printer |-> << >>]
    /\ torn = [p \in Printer |-> FALSE]
    /\ damaged = 0
    /\ flag0 = stream

-----------------------------------------------------------------------------
Active == {p \in Printer : at[p] # "out"}

\* The processor is p's: nobody more urgent is printing.
MayRun(p) == \A q \in Active \ {p} : Urgency[p] < Urgency[q]

\* Mutant: the warning is given on every overflow.
MayBeginAgain(p) == TRUE

\* The interrupt warns only once.
MayBegin(p) == p = Isr => ~already_output

\* p comes to its first rt_kprintf.
Begin(p) ==
    /\ at[p] = "out" /\ MayRun(p) /\ MayBegin(p)
    /\ at' = [at EXCEPT ![p] = "format"]
    /\ UNCHANGED <<rt_log_buf, stream, call, i, old_flag, already_output, sent, torn, damaged, flag0>>

\* rt_vsnprintf: one character, or the end of the string, at a time.
rt_vsnprintf(p) ==
    /\ at[p] = "format" /\ MayRun(p)
    /\ LET n == Calls[p][call[p]]
           k == i[p] + 1
       IN  IF k <= n
           THEN /\ rt_log_buf' = IF k < RT_CONSOLEBUF_SIZE
                                 THEN [rt_log_buf EXCEPT ![k] = Chr(p, call[p], k)] ELSE rt_log_buf
                /\ i' = [i EXCEPT ![p] = k]
                /\ UNCHANGED at
           ELSE /\ rt_log_buf' = [rt_log_buf EXCEPT ![Least(k, RT_CONSOLEBUF_SIZE - 1)] = BufferNul]
                /\ i' = [i EXCEPT ![p] = 0]
                /\ at' = [at EXCEPT ![p] = "flag"]
    /\ UNCHANGED <<stream, call, old_flag, already_output, sent, torn, damaged, flag0>>

\* open_flag is saved, and the stream flag set.
SaveFlag(p) ==
    /\ at[p] = "flag" /\ MayRun(p)
    /\ old_flag' = [old_flag EXCEPT ![p] = stream]
    /\ at' = [at EXCEPT ![p] = "set"]
    /\ UNCHANGED <<rt_log_buf, stream, call, i, already_output, sent, torn, damaged, flag0>>

SetFlag(p) ==
    /\ at[p] = "set" /\ MayRun(p)
    /\ stream' = TRUE
    /\ at' = [at EXCEPT ![p] = "write"]
    /\ UNCHANGED <<rt_log_buf, call, i, old_flag, already_output, sent, torn, damaged, flag0>>

\* A character leaves the wire: everybody who is between two characters of a
\* text finds it in the middle of that text.
Put(p, ch) ==
    /\ sent' = [sent EXCEPT ![p] = Append(@, ch)]
    /\ torn' = [q \in Printer |-> torn[q] \/ (q # p /\ sent[q] # << >> /\ q \in Active)]

\* _serial_poll_tx: a carriage return goes in front of a newline ...
PutCR(p) ==
    /\ at[p] = "write" /\ MayRun(p)
    /\ i[p] < length(p)
    /\ IsNewline(rt_log_buf[i[p] + 1]) /\ stream
    /\ Put(p, CR)
    /\ at' = [at EXCEPT ![p] = "putc"]
    /\ UNCHANGED <<rt_log_buf, stream, call, i, old_flag, already_output, damaged, flag0>>

\* ... and the character is read again when it is sent.
PutChar(p) ==
    /\ MayRun(p)
    /\ \/ at[p] = "putc"
       \/ /\ at[p] = "write" /\ i[p] < length(p)
          /\ ~(IsNewline(rt_log_buf[i[p] + 1]) /\ stream)
    /\ Put(p, rt_log_buf[i[p] + 1])
    /\ i' = [i EXCEPT ![p] = @ + 1]
    /\ at' = [at EXCEPT ![p] = "write"]
    /\ UNCHANGED <<rt_log_buf, stream, call, old_flag, already_output, damaged, flag0>>

\* What a row should look like on the line.
Expected ==
    LET n == Calls[Row][1]
    IN  [k \in 1 .. n + 1 |-> IF k = n THEN CR ELSE Chr(Row, 1, Least(k, n))]

\* The value open_flag gets at the end of a call.
FlagAfter(p) == old_flag[p]

\* The flag is put back; p goes on with its next text or has finished.
RestoreFlag(p) ==
    /\ at[p] = "write" /\ MayRun(p)
    /\ i[p] = length(p)
    /\ stream' = FlagAfter(p)
    /\ i' = [i EXCEPT ![p] = 0]
    /\ IF call[p] < Len(Calls[p])
       THEN /\ call' = [call EXCEPT ![p] = @ + 1]
            /\ at' = [at EXCEPT ![p] = "format"]
            /\ UNCHANGED <<already_output, sent, torn, damaged, flag0>>
       ELSE /\ at' = [at EXCEPT ![p] = "out"]
            /\ already_output' = (already_output \/ p = Isr)
            /\ damaged' = IF p = Row /\ (torn[p] \/ sent[p] # Expected) /\ damaged < 2
                          THEN damaged + 1 ELSE damaged
            /\ sent' = [sent EXCEPT ![p] = << >>]
            /\ torn' = [torn EXCEPT ![p] = FALSE]
            /\ call' = [call EXCEPT ![p] = 1]
            /\ UNCHANGED flag0
    /\ old_flag' = [old_flag EXCEPT ![p] = FALSE]
    /\ UNCHANGED rt_log_buf

Step(p) ==
    rt_vsnprintf(p) \/ SaveFlag(p) \/ SetFlag(p) \/ PutCR(p) \/ PutChar(p) \/ RestoreFlag(p)

ConsoleNext == \E p \in Printer : Begin(p) \/ Step(p)

ConsoleSpec == ConsoleInit /\ [][ConsoleNext]_consolevars

-----------------------------------------------------------------------------
\* Places in rt_log_buf stay within the text formatted and the buffer.
ConsoleTypeOK ==
    /\ stream \in BOOLEAN
    /\ at \in [Printer -> {"out", "format", "flag", "set", "write", "putc"}]
    /\ \A p \in Printer :
         /\ call[p] \in DOMAIN Calls[p]
         /\ i[p] \in 0 .. Calls[p][call[p]]
         /\ at[p] \in {"write", "putc"} => i[p] <= length(p)
    /\ already_output \in BOOLEAN /\ flag0 \in BOOLEAN
    /\ damaged \in 0 .. 2

\* CSV rows come out whole and in one piece although every printer shares
\* rt_log_buf without a lock: no other thread that prints can preempt the timer
\* thread.  Only the overflow warning, printed from the receive interrupt
\* (_serial_check_buffer_size), can damage a row, and because it is given once
\* at most one row in the life of the system.
RowsWhole == damaged <= (IF already_output \/ at[Isr] # "out" THEN 1 ELSE 0)

\* A call that comes in between leaves the stream flag as the interrupted call
\* needs it: whoever sends, newlines are still translated.
StreamWhileWriting == \A p \in Printer : at[p] \in {"write", "putc"} => stream

\* However calls nest, the console's open_flag is the old one when all are done.
FlagKept == Active = {} => stream = flag0

\* Nested calls of rt_kprintf do no lasting harm to the rows and to the flag.
ConsoleSound == ConsoleTypeOK /\ RowsWhole /\ StreamWhileWriting /\ FlagKept
=============================================================================
