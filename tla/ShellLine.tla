------------------------------ MODULE ShellLine ------------------------------
(***************************************************************************)
(* The shell's command line: the loop of finsh_thread_entry, one step per  *)
(* received byte, with escape sequences, line editing, completion and      *)
(* history, over the same character array as the code.                     *)
(*                                                                         *)
(* What is echoed is left out.  A character is a printable byte or Nul;    *)
(* blanks and the splitting of a line into arguments are in MshSplit.      *)
(***************************************************************************)
EXTENDS Integers, SequencesExt

CONSTANTS
    FINSH_CMD_SIZE,       \* size of the line
    FINSH_HISTORY_LINES,  \* lines kept in the history
    Plain,                \* printable bytes that are typed outside a key sequence
    Commands              \* names in the command table, as sequences, in table order

Esc == "esc"
Nul == "nul"
Tab == "tab"
Backspace == "backspace"
Enter == "enter"
Control == {Esc, Nul, Tab, Backspace, Enter}

\* An arrow key sends Esc, [ and one of A (up), B (down), C (right), D (left).
Printable == Plain \cup {"[", "A", "B", "C", "D"}

ASSUME ShellAssumption ==
    /\ FINSH_CMD_SIZE \in Nat /\ FINSH_CMD_SIZE > 1
    /\ FINSH_HISTORY_LINES \in Nat \ {0}
    /\ Plain \cap Control = {}
    /\ \A i \in DOMAIN Commands :
         Commands[i] \in Seq(Plain) /\ Len(Commands[i]) \in 1 .. FINSH_CMD_SIZE - 1

VARIABLES
    line,           \* the characters, one more than FINSH_CMD_SIZE
    line_position,  \* length of the line
    line_curpos,    \* place of the cursor
    stat,           \* progress in a key sequence
    cmd_history,    \* the entries in use, oldest first
    current_history,\* entry shown, counted from 0
    wrapped,        \* history: the line has overflowed and not been rewritten since
    outside         \* history: an access outside the array, after which nothing is known

linevars == <<line, line_position, line_curpos, stat, cmd_history, current_history, wrapped, outside>>

Place == 0 .. FINSH_CMD_SIZE
Blank == [i \in Place |-> Nul]
history_count == Len(cmd_history)

\* The string that starts at the front of a character array.
strlen(l) == IF \E i \in Place : l[i] = Nul
             THEN CHOOSE i \in Place : l[i] = Nul /\ \A j \in 0 .. i - 1 : l[j] # Nul
             ELSE FINSH_CMD_SIZE + 1
Chars(l, n) == [i \in 1 .. n |-> l[i - 1]]
String(l) == Chars(l, strlen(l))

\* rt_calloc of the shell; finsh_set_device clears the line.
LineInit ==
    /\ line = Blank /\ line_position = 0 /\ line_curpos = 0
    /\ stat = "WAIT_NORMAL"
    /\ cmd_history = << >> /\ current_history = 0
    /\ wrapped = FALSE /\ outside = FALSE

-----------------------------------------------------------------------------
Unedited == UNCHANGED <<line, line_position, line_curpos, wrapped, outside>>
NoHistory == UNCHANGED <<cmd_history, current_history>>

\* Copies entry h over the line.
ShowHistory(h) ==
    /\ current_history' = h
    /\ line' = [i \in Place |-> IF i < FINSH_CMD_SIZE THEN cmd_history[h + 1][i] ELSE line[i]]
    /\ line_position' = strlen(line') /\ line_curpos' = strlen(line')
    /\ wrapped' = (line_position' >= FINSH_CMD_SIZE)
    /\ UNCHANGED <<outside, cmd_history>>

UpKey ==
    IF current_history > 0 THEN ShowHistory(current_history - 1) ELSE Unedited /\ NoHistory

DownKey ==
    IF current_history < history_count - 1 THEN ShowHistory(current_history + 1)
    ELSE IF history_count # 0 THEN ShowHistory(history_count - 1)
    ELSE Unedited /\ NoHistory

LeftKey ==
    /\ line_curpos' = IF line_curpos > 0 THEN line_curpos - 1 ELSE 0
    /\ UNCHANGED <<line, line_position, wrapped, outside>> /\ NoHistory

RightKey ==
    /\ line_curpos' = IF line_curpos < line_position THEN line_curpos + 1 ELSE line_curpos
    /\ UNCHANGED <<line, line_position, wrapped, outside>> /\ NoHistory

-----------------------------------------------------------------------------
\* The longest common front of the commands that begin with the prefix; the
\* prefix itself when it is empty or no command begins with it.
msh_auto_complete(prefix) ==
    LET match == {i \in DOMAIN Commands : IsPrefix(prefix, Commands[i])}
    IN  IF prefix = << >> \/ match = {} THEN prefix
        ELSE LongestCommonPrefix({Commands[i] : i \in match})

\* rt_strncpy writes the completion over the front of the line.
TabKey ==
    LET done == msh_auto_complete(String(line))
    IN  /\ line' = [i \in Place |-> IF i < Len(done) THEN done[i + 1] ELSE line[i]]
        /\ line_position' = strlen(line') /\ line_curpos' = strlen(line')
        /\ UNCHANGED <<wrapped, outside>> /\ NoHistory

\* Mutant: the character that ends the shortened line stays in memory.
BackspaceKeyNoEnd ==
    /\ NoHistory /\ UNCHANGED wrapped
    /\ IF line_curpos = 0 THEN Unedited
       ELSE IF line_position = 0
       THEN outside' = TRUE /\ UNCHANGED <<line, line_position, line_curpos>>
       ELSE /\ line_position' = line_position - 1
            /\ line_curpos' = line_curpos - 1
            /\ line' = [i \in Place |->
                         IF i >= line_curpos' /\ i < line_position' THEN line[i + 1] ELSE line[i]]
            /\ UNCHANGED outside

\* line_position is 16 bits wide and unsigned: below zero the move runs far
\* outside the array.
BackspaceKey ==
    /\ NoHistory /\ UNCHANGED wrapped
    /\ IF line_curpos = 0 THEN Unedited
       ELSE IF line_position = 0
       THEN outside' = TRUE /\ UNCHANGED <<line, line_position, line_curpos>>
       ELSE /\ line_position' = line_position - 1
            /\ line_curpos' = line_curpos - 1
            /\ line' = [i \in Place |->
                         CASE i = line_position' -> Nul
                           [] i >= line_curpos' /\ i < line_position' -> line[i + 1]
                           [] OTHER -> line[i]]
            /\ UNCHANGED outside

\* Mutant: the newest entry is compared, but the oldest one is not given up in order.
shell_push_historyRotate ==
    LET entry == [i \in 0 .. FINSH_CMD_SIZE - 1 |-> IF i < line_position THEN line[i] ELSE Nul]
        same == history_count # 0 /\ \A i \in 0 .. FINSH_CMD_SIZE - 1 : Last(cmd_history)[i] = line[i]
    IN  IF line_position = 0 \/ same THEN cmd_history
        ELSE IF history_count >= FINSH_HISTORY_LINES
        THEN Append(Front(cmd_history), entry)
        ELSE Append(cmd_history, entry)

\* A new entry unless it equals the newest one, compared over the whole array;
\* a full history moves up by one.
shell_push_history ==
    LET entry == [i \in 0 .. FINSH_CMD_SIZE - 1 |-> IF i < line_position THEN line[i] ELSE Nul]
        same == history_count # 0 /\ \A i \in 0 .. FINSH_CMD_SIZE - 1 : Last(cmd_history)[i] = line[i]
    IN  IF line_position = 0 \/ same THEN cmd_history
        ELSE IF history_count >= FINSH_HISTORY_LINES THEN Append(Tail(cmd_history), entry)
        ELSE Append(cmd_history, entry)

\* The line is saved, run and cleared.  msh_exec is given the length, but the
\* last argument of the command ends at the first Nul in memory.
EnterKey ==
    /\ cmd_history' = shell_push_history
    /\ current_history' = Len(cmd_history')
    /\ line' = Blank /\ line_position' = 0 /\ line_curpos' = 0
    /\ wrapped' = FALSE
    /\ UNCHANGED outside

\* A printable byte goes in at the cursor; a line that is full starts again at
\* the front, with the old characters left in the array.
CharKey(c) ==
    LET position == IF line_position >= FINSH_CMD_SIZE THEN 0 ELSE line_position
    IN  /\ line' = IF line_curpos < position
                   THEN [i \in Place |->
                          CASE i = line_curpos -> c
                            [] i > line_curpos /\ i <= position -> line[i - 1]
                            [] OTHER -> line[i]]
                   ELSE [line EXCEPT ![position] = c]
        /\ IF position + 1 >= FINSH_CMD_SIZE
           THEN line_position' = 0 /\ line_curpos' = 0 /\ wrapped' = TRUE
           ELSE line_position' = position + 1 /\ line_curpos' = line_curpos + 1 /\ UNCHANGED wrapped
        /\ UNCHANGED outside /\ NoHistory

\* A byte that is not consumed by a key sequence.
OrdinaryKey(ch) ==
    \/ ch = Nul /\ Unedited /\ NoHistory
    \/ ch = Tab /\ TabKey
    \/ ch = Backspace /\ BackspaceKey
    \/ ch = Enter /\ EnterKey
    \/ ch \in Printable /\ CharKey(ch)

-----------------------------------------------------------------------------
\* Esc starts a key sequence in every state.
EscByte(ch) ==
    /\ ch = Esc
    /\ stat' = "WAIT_SPEC_KEY"
    /\ Unedited /\ NoHistory

SpecByte(ch) ==
    /\ ch # Esc /\ stat = "WAIT_SPEC_KEY"
    /\ IF ch = "["
       THEN stat' = "WAIT_FUNC_KEY" /\ Unedited /\ NoHistory
       ELSE stat' = "WAIT_NORMAL" /\ OrdinaryKey(ch)

FuncByte(ch) ==
    /\ ch # Esc /\ stat = "WAIT_FUNC_KEY"
    /\ stat' = "WAIT_NORMAL"
    /\ \/ ch = "A" /\ UpKey
       \/ ch = "B" /\ DownKey
       \/ ch = "C" /\ RightKey
       \/ ch = "D" /\ LeftKey
       \/ ch \notin {"A", "B", "C", "D"} /\ OrdinaryKey(ch)

NormalByte(ch) ==
    /\ ch # Esc /\ stat = "WAIT_NORMAL"
    /\ OrdinaryKey(ch)
    /\ UNCHANGED stat

\* The bytes that may arrive now: those of a key sequence come in sequence,
\* everything else at any time.
Arriving ==
    Plain \cup Control
      \cup (IF stat = "WAIT_SPEC_KEY" THEN {"["} ELSE {})
      \cup (IF stat = "WAIT_FUNC_KEY" THEN {"A", "B", "C", "D"} ELSE {})

\* One turn of the loop in finsh_thread_entry.
LineNext ==
    /\ ~outside
    /\ \E ch \in Arriving : EscByte(ch) \/ SpecByte(ch) \/ FuncByte(ch) \/ NormalByte(ch)

LineSpec == LineInit /\ [][LineNext]_linevars

-----------------------------------------------------------------------------
\* The values each variable can have.  The length stays within the array; the
\* cursor does not: a full line restarts with line_position alone set to 0, which
\* leaves the cursor up to a line behind the array.
LineTypeOK ==
    /\ line \in [Place -> Plain \cup {Nul}]
    /\ line_position \in Place /\ line_curpos \in 0 .. 2 * FINSH_CMD_SIZE
    /\ stat \in {"WAIT_NORMAL", "WAIT_SPEC_KEY", "WAIT_FUNC_KEY"}
    /\ Len(cmd_history) <= FINSH_HISTORY_LINES
    /\ \A i \in DOMAIN cmd_history : cmd_history[i] \in [0 .. FINSH_CMD_SIZE - 1 -> Plain \cup {Nul}]
    /\ current_history \in 0 .. Len(cmd_history)
    /\ wrapped \in BOOLEAN /\ outside \in BOOLEAN

\* Length, cursor and memory agree in every state of a line that has not
\* overflowed, whatever was typed, erased, recalled and completed before: the
\* line is exactly its first line_position characters, Nul from there on, and
\* the cursor is inside it.  Every branch of finsh_thread_entry relies on this.
LineIntact ==
    ~wrapped =>
        /\ ~outside
        /\ line_curpos <= line_position /\ line_position < FINSH_CMD_SIZE
        /\ \A i \in Place : line[i] = Nul <=> i >= line_position

\* What holds of a line that has overflowed too, until it is entered or replaced
\* by a recalled one: the last place of the array is never written, so a string
\* always ends in it; the length counts characters only; the cursor is less than a
\* line beyond the length; and the one access outside the array is the move of a
\* Backspace on an emptied line whose cursor was left behind.
OverflowBounded ==
    /\ line[FINSH_CMD_SIZE] = Nul
    /\ \A i \in Place : i < line_position => line[i] # Nul
    /\ line_curpos <= FINSH_CMD_SIZE + line_position
    /\ line_position = FINSH_CMD_SIZE => line_curpos <= FINSH_CMD_SIZE
    /\ outside => wrapped /\ line_position = 0 /\ line_curpos > 0

\* The text a history entry holds: what ShowHistory makes of it, on a line that
\* ends after the entry.
EntryText(entry) == String([i \in Place |-> IF i < FINSH_CMD_SIZE THEN entry[i] ELSE Nul])

Editor == INSTANCE LineEditor WITH
    Char <- Plain, Size <- FINSH_CMD_SIZE, Lines <- FINSH_HISTORY_LINES,
    Completion <- msh_auto_complete,
    text <- Chars(line, line_position), cursor <- line_curpos, lost <- wrapped,
    past <- [i \in DOMAIN cmd_history |-> EntryText(cmd_history[i])]

\* The array, its two positions and the history table together behave as a text
\* with a cursor and a list of past texts (finsh_thread_entry, shell_push_history).
ImplementsEditor == Editor!Spec

\* The line that finsh_thread_entry keeps is whole, and every access to it inside
\* its array, as long as it does not overflow; once it has, until the next Enter
\* or recalled line, only OverflowBounded is left.
LineSound == LineTypeOK /\ LineIntact /\ OverflowBounded

\* A line that is too long is discarded, as the comments in finsh_thread_entry
\* say, and the keys that follow still work inside the array.
DiscardedHarmless == ~outside
=============================================================================
