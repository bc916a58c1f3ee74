----------------------------- MODULE LineEditor -----------------------------
(***************************************************************************)
(* What a user expects of a command line: a text with a cursor, insertion  *)
(* and erasure at the cursor, recall of one of the last submitted texts,   *)
(* completion at the end of the line.  A text that grows too long is lost: *)
(* until the line is submitted or replaced nothing is promised about it.   *)
(***************************************************************************)
EXTENDS Integers, SequencesExt

CONSTANTS
    Char,       \* characters that can be part of a text
    Size,       \* a text that reaches this length is discarded
    Lines,      \* number of submitted texts that are kept
    Completion(_)  \* the text that completes a text

VARIABLES
    text,       \* the line being edited
    cursor,     \* number of characters before the cursor
    past,       \* submitted texts, oldest first, no two neighbours equal
    lost        \* the line has grown too long

Init == text = << >> /\ cursor = 0 /\ past = << >> /\ lost = FALSE

Show(t) == text' = t /\ cursor' = Len(t) /\ lost' = (Len(t) >= Size)

Insert ==
    /\ UNCHANGED past
    /\ \E c \in Char :
         IF Len(text) + 1 < Size
         THEN text' = InsertAt(text, cursor + 1, c) /\ cursor' = cursor + 1 /\ UNCHANGED lost
         ELSE text' = << >> /\ cursor' = 0 /\ lost' = TRUE

Erase ==
    /\ cursor > 0
    /\ text' = RemoveAt(text, cursor)
    /\ cursor' = cursor - 1
    /\ UNCHANGED <<past, lost>>

Move == cursor' \in {cursor - 1, cursor + 1} \cap 0 .. Len(text) /\ UNCHANGED <<text, past, lost>>

Recall == (\E i \in 1 .. Len(past) : Show(past[i])) /\ UNCHANGED past

Complete == Show(Completion(text)) /\ UNCHANGED past

\* Repeating the last text does not add it again; the oldest text gives way.
Submit ==
    /\ past' = IF text = << >> \/ (past # << >> /\ Last(past) = text) THEN past
               ELSE IF Len(past) < Lines THEN Append(past, text)
               ELSE Append(Tail(past), text)
    /\ Show(<< >>)

\* A lost line may do anything but change the past before it is submitted.
Unknown == lost /\ (lost' => UNCHANGED past)

Next ==
    \/ ~lost /\ (Insert \/ Erase \/ Move \/ Complete \/ Submit)
    \/ Recall
    \/ Unknown

Spec == Init /\ [][Next]_<<text, cursor, past, lost>>
=============================================================================
