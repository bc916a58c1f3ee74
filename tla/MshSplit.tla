------------------------------ MODULE MshSplit ------------------------------
(***************************************************************************)
(* How msh runs a line: msh_exec trims it, _msh_exec_cmd looks the command *)
(* up and msh_split cuts the line into arguments in place, by overwriting  *)
(* blanks and closing quotes with MshNul.  One step per inner loop.           *)
(*                                                                         *)
(* A line that has not overflowed is followed by MshNul (ShellLine.LineIntact)*)
(* and the shell starts a command only for a line with a character in it.  *)
(***************************************************************************)
EXTENDS Integers, SequencesExt

CONSTANTS
    FINSH_ARG_MAX,  \* arguments a command can have
    MaxLength,      \* longest line of the instance
    Known           \* command names in the table, sequences of "x"

ASSUME SplitAssumption ==
    /\ FINSH_ARG_MAX \in Nat \ {0} /\ MaxLength \in Nat
    /\ Known \subseteq Seq({"x"})

\* "sp" is a blank or a tab, "q" the quote, "esc" the backslash, "x" any other.
Char == {"x", "sp", "q", "esc"}
MshNul == "nul"

VARIABLES
    typed,      \* the line as typed; never changes
    cmd,        \* the same characters in memory, followed by MshNul
    length,     \* the length msh_exec passes on
    ptr,        \* place in cmd, counted from 1
    start,      \* place of the first character that is not a blank
    argv,       \* places where the arguments start
    pc          \* loop that runs next, or how the line ended

mshvars == <<typed, cmd, length, ptr, start, argv, pc>>

Lines == UNION {[1 .. n -> Char] : n \in 1 .. MaxLength}

MshInit ==
    /\ typed \in Lines
    /\ cmd = [i \in 1 .. MaxLength + 2 |-> IF i <= Len(typed) THEN typed[i] ELSE MshNul]
    /\ length = Len(typed)
    /\ ptr = 1 /\ start = 1
    /\ argv = << >>
    /\ pc = "exec"

\* The first place at or after p whose character satisfies Stop.
Skip(p, Stop(_)) == Min({i \in p .. Len(cmd) : Stop(i)})

\* position >= length, for a place in memory.
AtEnd(p) == p - start >= length

-----------------------------------------------------------------------------
\* msh_exec strips the beginning; nothing left is nothing to do.
msh_exec ==
    /\ pc = "exec"
    /\ start' = Skip(1, LAMBDA i : cmd[i] # "sp")
    /\ ptr' = start'
    /\ length' = length - (start' - 1)
    /\ pc' = IF length' = 0 THEN "nothing" ELSE "lookup"
    /\ UNCHANGED <<typed, cmd, argv>>

\* The first word, taken within the length, names the command.
_msh_exec_cmd ==
    /\ pc = "lookup"
    /\ LET e == Skip(start, LAMBDA i : cmd[i] = "sp" \/ AtEnd(i))
       IN  pc' = IF SubSeq(cmd, start, e - 1) \in Known THEN "strip" ELSE "unknown"
    /\ UNCHANGED <<typed, cmd, length, ptr, start, argv>>

\* Mutant: blanks are skipped but stay in memory.
StripBlanksKeep ==
    /\ pc = "strip"
    /\ ptr' = Skip(ptr, LAMBDA i : cmd[i] # "sp" \/ AtEnd(i))
    /\ pc' = IF Len(argv) >= FINSH_ARG_MAX \/ AtEnd(ptr') THEN "run"
             ELSE IF cmd[ptr'] = "q" THEN "string" ELSE "word"
    /\ UNCHANGED <<typed, cmd, length, start, argv>>

\* Top of the loop: blanks become MshNul, and the argument limit is checked.
StripBlanks ==
    /\ pc = "strip"
    /\ ptr' = Skip(ptr, LAMBDA i : cmd[i] # "sp" \/ AtEnd(i))
    /\ cmd' = [i \in DOMAIN cmd |-> IF ptr <= i /\ i < ptr' THEN MshNul ELSE cmd[i]]
    /\ pc' = IF Len(argv) >= FINSH_ARG_MAX \/ AtEnd(ptr') THEN "run"
             ELSE IF cmd[ptr'] = "q" THEN "string" ELSE "word"
    /\ UNCHANGED <<typed, length, start, argv>>

\* A quoted argument; a quote behind a backslash does not end it, and the
\* closing quote becomes MshNul.
HandleString ==
    /\ pc = "string"
    /\ argv' = Append(argv, ptr + 1)
    /\ LET close == Skip(ptr + 1, LAMBDA i : AtEnd(i) \/ (cmd[i] = "q" /\ cmd[i - 1] # "esc"))
       IN  IF AtEnd(close)
           THEN pc' = "run" /\ ptr' = close /\ UNCHANGED cmd
           ELSE /\ cmd' = [cmd EXCEPT ![close] = MshNul]
                /\ ptr' = close + 1
                /\ pc' = IF AtEnd(close + 1) THEN "run" ELSE "strip"
    /\ UNCHANGED <<typed, length, start>>

\* Any other argument reaches to the next blank.
HandleWord ==
    /\ pc = "word"
    /\ argv' = Append(argv, ptr)
    /\ ptr' = Skip(ptr, LAMBDA i : cmd[i] = "sp" \/ AtEnd(i))
    /\ pc' = IF AtEnd(ptr') THEN "run" ELSE "strip"
    /\ UNCHANGED <<typed, cmd, length, start>>

MshNext == msh_exec \/ _msh_exec_cmd \/ StripBlanks \/ HandleString \/ HandleWord

MshSpec == MshInit /\ [][MshNext]_mshvars /\ WF_mshvars(MshNext)

-----------------------------------------------------------------------------
\* The pointers of msh_split stay inside the line, and argv within FINSH_ARG_MAX.
MshTypeOK ==
    /\ typed \in Lines
    /\ cmd \in [1 .. MaxLength + 2 -> Char \cup {MshNul}]
    /\ ptr \in 1 .. MaxLength + 1 /\ start \in 1 .. MaxLength + 1
    /\ length \in 0 .. MaxLength
    /\ Len(argv) <= FINSH_ARG_MAX
    /\ pc \in {"exec", "lookup", "strip", "string", "word", "run", "nothing", "unknown"}

\* What a user means by a line s: an argument begins with the next character that
\* is not a blank; it is the inside of a pair of quotes, or a run without blanks.
NextBegin(s, p) == Min({i \in p .. Len(s) : s[i] # "sp"} \cup {Len(s) + 1})
Quoted(s, b) == b <= Len(s) /\ s[b] = "q"
Closes(s, b, i) == IF Quoted(s, b) THEN s[i] = "q" /\ s[i - 1] # "esc" ELSE s[i] = "sp"
From(s, b) == IF Quoted(s, b) THEN b + 1 ELSE b
To(s, b) == Min({i \in From(s, b) .. Len(s) : Closes(s, b, i)} \cup {Len(s) + 1})
After(s, b) == IF Quoted(s, b) THEN To(s, b) + 1 ELSE To(s, b)

\* Where its arguments begin, beyond the line once there are no more.
Begins(s) ==
    LET Begin[k \in 0 .. FINSH_ARG_MAX] ==
            NextBegin(s, IF k = 0 THEN 1 ELSE After(s, Begin[k - 1]))
    IN  Begin

Arguments(s) ==
    [k \in {k \in 1 .. FINSH_ARG_MAX : Begins(s)[k - 1] <= Len(s)} |->
        LET b == Begins(s)[k - 1] IN SubSeq(s, From(s, b), To(s, b) - 1)]

\* The string a command sees at a place in memory.
StringAt(p) == SubSeq(cmd, p, Skip(p, LAMBDA i : cmd[i] = MshNul) - 1)

\* The pointers of msh_split into the overwritten line are the arguments the
\* user meant: none runs on into the next one, none is lost before the limit of
\* FINSH_ARG_MAX, and a quote behind a backslash stays inside its argument.
ArgumentsExact ==
    pc = "run" => [i \in DOMAIN argv |-> StringAt(argv[i])] = Arguments(typed)

\* A command is run only for a line that begins with its name, and a line is
\* passed over in silence only if it is blank.
Dispatched ==
    /\ pc = "run" => argv # << >> /\ StringAt(argv[1]) \in Known
    /\ pc = "nothing" => \A i \in DOMAIN typed : typed[i] = "sp"

\* msh_exec runs the command the user named, with the arguments the user meant.
DispatchExact == MshTypeOK /\ ArgumentsExact /\ Dispatched
=============================================================================
