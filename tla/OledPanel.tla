------------------------------ MODULE OledPanel ------------------------------
(***************************************************************************)
(* The OLED driver of qu_dong/OLED/OLED.c: the frame buffer, in which a    *)
(* byte holds a column of eight pixels of one page, and the transfer of    *)
(* pages to the panel.  Only the OLED thread calls it.                     *)
(*                                                                         *)
(* A byte is the set of its bits that are 1.  The panel keeps what it was  *)
(* sent; the I2C acknowledge is not looked at.                             *)
(***************************************************************************)
EXTENDS Integers, Sequences

CONSTANTS
    Cols, Pages, Bits,   \* 128 columns, 8 pages, 8 bits
    GlyphWidth, Glyphs,  \* the font: GlyphWidth bytes for each character
    MaxDraws             \* bound: drawing calls

Bytes == SUBSET (0..Bits-1)

ASSUME PanelAssumption ==
    /\ {Cols, Pages, Bits, GlyphWidth} \subseteq Nat \ {0}
    /\ Glyphs \subseteq [0..GlyphWidth-1 -> Bytes]
    /\ MaxDraws \in Nat

VARIABLES
    OLED_DisplayBuf,  \* page -> column -> byte
    panel,            \* what the panel shows, likewise
    todo,             \* transfers of the update in progress
    draws,            \* drawing calls so far
    picture,          \* history: the pixels that should be lit in the buffer
    asked             \* history: the pixels the last update was to transfer

panelvars == <<OLED_DisplayBuf, panel, todo, draws, picture, asked>>

Pixels == (0..Cols-1) \X (0..Pages*Bits-1)

Frame == [0..Pages-1 -> [0..Cols-1 -> Bytes]]
BlankBuffer == [p \in 0..Pages-1 |-> [x \in 0..Cols-1 |-> {}]]
Transfers == [page: 0..Pages-1, x: 0..Cols-1, width: 1..Cols]

\* Drawing and transfers of OLED.c stay inside OLED_DisplayBuf and the panel.
PanelTypeOK ==
    /\ OLED_DisplayBuf \in Frame
    /\ panel \in Frame
    \* a transfer reads one row of the buffer and not beyond
    /\ \A i \in DOMAIN todo : todo[i] \in Transfers /\ todo[i].x + todo[i].width <= Cols
    /\ draws \in 0..MaxDraws

\* OLED_Init ends with OLED_Clear and OLED_Update.
PanelInit ==
    /\ OLED_DisplayBuf = BlankBuffer
    /\ panel = BlankBuffer
    /\ todo = <<>>
    /\ draws = 0
    /\ picture = {} /\ asked = {}

-----------------------------------------------------------------------------
\* C's / and %, which round to zero.
Div(a, b) == IF a >= 0 THEN a \div b ELSE -((-a) \div b)
Mod(a, b) == a - b * Div(a, b)

Rectangle(X, Y, w, h) == (X..X+w-1) \X (Y..Y+h-1)

\* The loops of OLED_ClearArea.
Cleared(buf, X, Y, w, h) ==
    [p \in 0..Pages-1 |-> [x \in 0..Cols-1 |->
        {b \in buf[p][x] : <<x, p * Bits + b>> \notin Rectangle(X, Y, w, h)}]]

\* Image << Shift and Image >> (8 - Shift), in eight bits.
ShiftLeft(byte, n) == {b + n : b \in byte} \cap (0..Bits-1)
ShiftRight(byte, n) == {b - n : b \in byte} \cap (0..Bits-1)

\* The loops of OLED_ShowImage, for one page of image, after OLED_ClearArea.
ShowImage(buf, X, Y, image) ==
    LET page == Div(Y, Bits) - (IF Y < 0 THEN 1 ELSE 0)
        shift == Mod(Y, Bits) + (IF Y < 0 THEN Bits ELSE 0)
    IN  [p \in 0..Pages-1 |-> [x \in 0..Cols-1 |->
          IF x \notin X..X+GlyphWidth-1 THEN buf[p][x]
          ELSE buf[p][x] \cup
               (IF p = page THEN ShiftLeft(image[x - X], shift)
                ELSE IF p = page + 1 THEN ShiftRight(image[x - X], Bits - shift)
                ELSE {})]]

\* One drawing call, between updates: it leaves buf in the buffer and should
\* replace the pixels of area by ink, as far as they are on the screen.
Draw(buf, area, ink) ==
    /\ todo = <<>>
    /\ draws < MaxDraws
    /\ OLED_DisplayBuf' = buf
    /\ draws' = draws + 1
    /\ picture' = (picture \ area) \cup (ink \cap Pixels)
    /\ asked' = {}
    /\ UNCHANGED <<panel, todo>>

OLED_Clear == Draw(BlankBuffer, Pixels, {})

OLED_ClearArea(X, Y, w, h) ==
    Draw(Cleared(OLED_DisplayBuf, X, Y, w, h), Rectangle(X, Y, w, h), {})

\* The pixels of a glyph at X, Y.
Ink(X, Y, image) == UNION {{<<X + i, Y + b>> : b \in image[i]} : i \in 0..GlyphWidth-1}

\* OLED_ShowChar, once for every character of OLED_ShowString.
OLED_ShowChar(X, Y, image) ==
    Draw(ShowImage(Cleared(OLED_DisplayBuf, X, Y, GlyphWidth, Bits), X, Y, image),
         Rectangle(X, Y, GlyphWidth, Bits), Ink(X, Y, image))

\* The transfers of some pages, columns x to x + w - 1, in order.
Transfer(first, last, x, w) ==
    [i \in 1..last - first + 1 |-> [page |-> first + i - 1, x |-> x, width |-> w]]

\* OLED_Update
OLED_Update ==
    /\ todo = <<>>
    /\ todo' = Transfer(0, Pages - 1, 0, Cols)
    /\ asked' = Pixels
    /\ UNCHANGED <<OLED_DisplayBuf, panel, draws, picture>>

\* Mutant: as many pages as the height needs at a page boundary.
LastPageAligned(Y, h) == Div(Y, Bits) + Div(h - 1, Bits)

\* The last page of OLED_UpdateArea, for Y >= 0 as in all its calls.
LastPage(Y, h) == Div(Y + h - 1, Bits)

OLED_UpdateArea(X, Y, w, h) ==
    /\ todo = <<>>
    /\ todo' = Transfer(Div(Y, Bits), LastPage(Y, h), X, w)
    /\ asked' = Rectangle(X, Y, w, h)
    /\ UNCHANGED <<OLED_DisplayBuf, panel, draws, picture>>

\* OLED_SetCursor and OLED_WriteData of one page.
OLED_WriteData ==
    /\ todo # <<>>
    /\ LET t == Head(todo)
       IN  panel' = [panel EXCEPT ![t.page] = [x \in 0..Cols-1 |->
                       IF x \in t.x..t.x+t.width-1 THEN OLED_DisplayBuf[t.page][x] ELSE @[x]]]
    /\ todo' = Tail(todo)
    /\ UNCHANGED <<OLED_DisplayBuf, draws, picture, asked>>

\* Areas that are updated lie on the panel, as all in ui_oled.c do.
Areas == {a \in (0..Cols-1) \X (0..Pages*Bits-1) \X (1..Cols) \X (1..Pages*Bits) :
            a[1] + a[3] <= Cols /\ a[2] + a[4] <= Pages * Bits}

\* Characters may lie across an edge or beyond it.
Places == (-GlyphWidth..Cols) \X (-Bits..Pages*Bits)

PanelNext ==
    \/ OLED_Clear
    \/ \E a \in Areas : OLED_ClearArea(a[1], a[2], a[3], a[4]) \/ OLED_UpdateArea(a[1], a[2], a[3], a[4])
    \/ \E at \in Places, image \in Glyphs : OLED_ShowChar(at[1], at[2], image)
    \/ OLED_Update
    \/ OLED_WriteData

PanelSpec == PanelInit /\ [][PanelNext]_panelvars

-----------------------------------------------------------------------------
\* The pixels that are lit in a frame of bytes.
Lit(frame) == {xy \in Pixels : xy[2] % Bits \in frame[xy[2] \div Bits][xy[1]]}

\* Whatever characters and blank areas lie over each other, at any row and across
\* any edge, the buffer holds the picture they should give: the bytes of a glyph
\* split over two pages meet, and nothing else is touched.
DrawnExact == Lit(OLED_DisplayBuf) = picture

\* An update, once its transfers are done, has brought its whole area to the
\* panel, also where the area begins or ends inside a page.
AreaShown == todo = <<>> => Lit(panel) \cap asked = picture \cap asked

\* Buffer and panel show what OLED.c was asked to draw and to transfer.
PanelExact == PanelTypeOK /\ DrawnExact /\ AreaShown
=============================================================================
