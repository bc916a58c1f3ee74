----------------------------- MODULE InputQueue -----------------------------
(***************************************************************************)
(* What the serial driver promises the shell: received bytes are delivered *)
(* in order, and when the reader falls behind by more than Cap bytes the   *)
(* oldest unread byte gives way to the new one.                            *)
(***************************************************************************)
EXTENDS Integers, Sequences

CONSTANTS
    Byte,   \* values a received byte can take
    Cap     \* unread bytes that are kept

VARIABLES
    queue,  \* bytes received and neither delivered nor dropped, oldest first
    ch      \* byte delivered last

Init == queue = << >> /\ ch \in Byte

Receive(b) ==
    /\ queue' = IF Len(queue) < Cap THEN Append(queue, b) ELSE Append(Tail(queue), b)
    /\ UNCHANGED ch

Deliver ==
    /\ queue # << >>
    /\ ch' = Head(queue)
    /\ queue' = Tail(queue)

Next == Deliver \/ \E b \in Byte : Receive(b)

Spec == Init /\ [][Next]_<<queue, ch>>
=============================================================================
