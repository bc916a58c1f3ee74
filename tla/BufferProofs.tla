---------------------------- MODULE BufferProofs ----------------------------
(***************************************************************************)
(* Proofs about buffers: the OLED frame buffer for every geometry, font    *)
(* and position, and the shell's line for every size, history and command  *)
(* table.                                                                  *)
(***************************************************************************)
EXTENDS OledPanel, ShellLine, WellFoundedInduction, TLAPS

-----------------------------------------------------------------------------
(* Pixels and bytes.                                                       *)

\* A pixel is a column, a page and a bit.
LEMMA PixelSplit ==
    ASSUME NEW xy \in Pixels
    PROVE  /\ xy = <<xy[1], xy[2]>>
           /\ xy[1] \in 0..Cols-1
           /\ xy[2] \in Nat
           /\ xy[2] \div Bits \in 0..Pages-1
           /\ xy[2] % Bits \in 0..Bits-1
           /\ xy[2] = (xy[2] \div Bits) * Bits + (xy[2] % Bits)
<1>. USE PanelAssumption
<1>1. Cols \in Nat \ {0} /\ Pages \in Nat \ {0} /\ Bits \in Nat \ {0}
  OBVIOUS
<1>2. xy = <<xy[1], xy[2]>> /\ xy[1] \in 0..Cols-1 /\ xy[2] \in 0..Pages*Bits-1
  BY DEF Pixels
<1>. DEFINE y == xy[2]
<1>3. y \in Nat /\ y < Pages * Bits
  BY <1>1, <1>2
<1>. HIDE DEF y
<1>. DEFINE p == y \div Bits
            b == y % Bits
<1>4. p \in Int /\ b \in 0..Bits-1 /\ y = Bits * p + b
  BY <1>1, <1>3
<1>. HIDE DEF p, b
<1>5. p >= 0
  <2>1. ASSUME p <= -1 PROVE FALSE
    <3>1. Bits * p <= -Bits
      BY <1>1, <1>4, <2>1
    <3>. QED BY <1>1, <1>3, <1>4, <3>1
  <2>. QED BY <1>4, <2>1
<1>6. p < Pages
  <2>1. ASSUME p >= Pages PROVE FALSE
    <3>1. Bits * p >= Pages * Bits
      BY <1>1, <1>4, <2>1
    <3>. QED BY <1>1, <1>3, <1>4, <3>1
  <2>. QED BY <1>1, <1>4, <2>1
<1>7. p \in 0..Pages-1 /\ y = p * Bits + b
  BY <1>1, <1>4, <1>5, <1>6
<1>. QED BY <1>2, <1>3, <1>4, <1>7 DEF y, p, b

\* A pixel is lit if its bit is in its byte.
LEMMA LitMeans ==
    ASSUME NEW f, NEW xy \in Pixels
    PROVE  xy \in Lit(f) <=> xy[2] % Bits \in f[xy[2] \div Bits][xy[1]]
  BY DEF Lit

\* A blank buffer shows nothing.
LEMMA LitBlank == BlankBuffer \in Frame /\ Lit(BlankBuffer) = {}
<1>1. BlankBuffer \in Frame
  BY DEF BlankBuffer, Frame, Bytes
<1>2. ASSUME NEW xy \in Pixels PROVE xy \notin Lit(BlankBuffer)
  <2>. DEFINE x == xy[1]
              p == xy[2] \div Bits
              b == xy[2] % Bits
  <2>1. x \in 0..Cols-1 /\ p \in 0..Pages-1
    BY PixelSplit
  <2>2. xy \in Lit(BlankBuffer) <=> b \in BlankBuffer[p][x]
    BY LitMeans
  <2>. HIDE DEF x, p, b
  <2>3. BlankBuffer[p][x] = {}
    BY <2>1 DEF BlankBuffer
  <2>. QED BY <2>2, <2>3
<1>. QED BY <1>1, <1>2 DEF Lit

\* OLED_ClearArea blanks its rectangle and nothing else.
LEMMA LitCleared ==
    ASSUME NEW f \in Frame, NEW X \in Int, NEW Y \in Int, NEW w \in Int, NEW h \in Int
    PROVE  /\ Cleared(f, X, Y, w, h) \in Frame
           /\ Lit(Cleared(f, X, Y, w, h)) = Lit(f) \ Rectangle(X, Y, w, h)
<1>. DEFINE R == Rectangle(X, Y, w, h)
            g == Cleared(f, X, Y, w, h)
<1>1. \A p \in 0..Pages-1, x \in 0..Cols-1 :
        g[p][x] = {b \in f[p][x] : <<x, p * Bits + b>> \notin R}
  BY DEF Cleared
<1>2. \A p \in 0..Pages-1, x \in 0..Cols-1 : f[p][x] \subseteq 0..Bits-1
  BY DEF Frame, Bytes
<1>3. g \in Frame
  <2>1. \A p \in 0..Pages-1, x \in 0..Cols-1 : {b \in f[p][x] : <<x, p * Bits + b>> \notin R} \in Bytes
    BY <1>2 DEF Bytes
  <2>. HIDE DEF R
  <2>2. g = [p \in 0..Pages-1 |-> [x \in 0..Cols-1 |-> {b \in f[p][x] : <<x, p * Bits + b>> \notin R}]]
    BY DEF Cleared, R
  <2>. QED BY <2>1, <2>2 DEF Frame
<1>. HIDE DEF R, g
<1>4. ASSUME NEW xy \in Pixels PROVE xy \in Lit(g) <=> xy \in Lit(f) /\ xy \notin R
  <2>. DEFINE x == xy[1]
              p == xy[2] \div Bits
              b == xy[2] % Bits
  <2>1. x \in 0..Cols-1 /\ p \in 0..Pages-1 /\ xy = <<x, p * Bits + b>>
    BY PixelSplit
  <2>2. xy \in Lit(g) <=> b \in g[p][x]
    BY LitMeans
  <2>3. xy \in Lit(f) <=> b \in f[p][x]
    BY LitMeans
  <2>. HIDE DEF x, p, b
  <2>4. g[p][x] = {c \in f[p][x] : <<x, p * Bits + c>> \notin R}
    BY <1>1, <2>1
  <2>. QED BY <2>1, <2>2, <2>3, <2>4
<1>5. Lit(g) \subseteq Pixels /\ Lit(f) \subseteq Pixels
  BY DEF Lit
<1>6. Lit(g) = Lit(f) \ R
  BY <1>4, <1>5
<1>. QED BY <1>3, <1>6 DEF g, R

\* The page and the shift of OLED_ShowImage: the glyph begins shift bits below
\* the top of page, also above the screen, where C's division rounds the wrong
\* way and an exact multiple is taken as a whole page of shift.
LEMMA PageAndShift ==
    ASSUME NEW Y \in Int
    PROVE  LET page == Div(Y, Bits) - (IF Y < 0 THEN 1 ELSE 0)
               shift == Mod(Y, Bits) + (IF Y < 0 THEN Bits ELSE 0)
           IN  page \in Int /\ shift \in 0..Bits /\ Y = page * Bits + shift
<1>1. Bits \in Nat \ {0}
  BY PanelAssumption
<1>2. CASE Y >= 0
  <2>. DEFINE q == Y \div Bits
  <2>1. q \in Int /\ Bits * q <= Y /\ Y < Bits * q + Bits
    BY <1>1, <1>2
  <2>2. Div(Y, Bits) = q /\ Mod(Y, Bits) = Y - Bits * q
    BY <1>2 DEF Div, Mod
  <2>. HIDE DEF q
  <2>3. Div(Y, Bits) - (IF Y < 0 THEN 1 ELSE 0) = q
    BY <1>2, <2>1, <2>2
  <2>4. Mod(Y, Bits) + (IF Y < 0 THEN Bits ELSE 0) = Y - Bits * q
    BY <1>1, <1>2, <2>1, <2>2
  <2>5. Y - Bits * q \in 0..Bits /\ Y = q * Bits + (Y - Bits * q)
    BY <1>1, <2>1
  <2>. QED BY <2>1, <2>3, <2>4, <2>5
<1>3. CASE Y < 0
  <2>. DEFINE m == -Y
              q == m \div Bits
  <2>1. m \in Nat /\ Y = -m
    BY <1>3
  <2>2. ~(Y >= 0)
    BY <1>3
  <2>3. Div(Y, Bits) = -q /\ Mod(Y, Bits) = Y - Bits * (-q)
    BY <2>2 DEF Div, Mod
  <2>. HIDE DEF m
  <2>4. q \in Int /\ Bits * q <= m /\ m < Bits * q + Bits
    BY <1>1, <2>1
  <2>. HIDE DEF q
  <2>5. Div(Y, Bits) - (IF Y < 0 THEN 1 ELSE 0) = -q - 1
    BY <1>3, <2>3, <2>4
  <2>6. Mod(Y, Bits) + (IF Y < 0 THEN Bits ELSE 0) = Y - Bits * (-q) + Bits
    BY <1>3, <2>3
  <2>7. Bits * (-q) = -(Bits * q)
    BY <1>1, <2>4
  <2>8. -q - 1 \in Int /\ Y - Bits * (-q) + Bits \in 0..Bits
    BY <1>1, <2>1, <2>4, <2>7
  <2>9. Y = (-q - 1) * Bits + (Y - Bits * (-q) + Bits)
    BY <1>1, <2>1, <2>4
  <2>. QED BY <2>5, <2>6, <2>8, <2>9
<1>. QED BY <1>2, <1>3

\* OLED_ShowImage adds the glyph's pixels that are on the screen, the two halves
\* of a column meeting at the page boundary, and touches nothing else.
LEMMA LitShown ==
    ASSUME NEW f \in Frame, NEW X \in Int, NEW Y \in Int,
           NEW image \in [0..GlyphWidth-1 -> Bytes]
    PROVE  /\ ShowImage(f, X, Y, image) \in Frame
           /\ Lit(ShowImage(f, X, Y, image)) = Lit(f) \cup (Ink(X, Y, image) \cap Pixels)
<1>. DEFINE page == Div(Y, Bits) - (IF Y < 0 THEN 1 ELSE 0)
            shift == Mod(Y, Bits) + (IF Y < 0 THEN Bits ELSE 0)
            g == ShowImage(f, X, Y, image)
            New(p, x) == IF p = page THEN ShiftLeft(image[x - X], shift)
                         ELSE IF p = page + 1 THEN ShiftRight(image[x - X], Bits - shift)
                         ELSE {}
<1>1. page \in Int /\ shift \in 0..Bits /\ Y = page * Bits + shift
  BY PageAndShift
<1>2. g = [p \in 0..Pages-1 |-> [x \in 0..Cols-1 |->
             IF x \notin X..X+GlyphWidth-1 THEN f[p][x] ELSE f[p][x] \cup New(p, x)]]
  BY DEF ShowImage
<1>. HIDE DEF page, shift, g
<1>3. Bits \in Nat \ {0} /\ Cols \in Nat \ {0} /\ Pages \in Nat \ {0} /\ GlyphWidth \in Nat \ {0}
  BY PanelAssumption
<1>4. \A p \in 0..Pages-1, x \in 0..Cols-1 : f[p][x] \subseteq 0..Bits-1
  BY DEF Frame, Bytes
<1>5. \A p, x : New(p, x) \subseteq 0..Bits-1
  BY DEF ShiftLeft, ShiftRight
<1>6. g \in Frame
  <2>. HIDE DEF New
  <2>1. \A p \in 0..Pages-1, x \in 0..Cols-1 :
          (IF x \notin X..X+GlyphWidth-1 THEN f[p][x] ELSE f[p][x] \cup New(p, x)) \in Bytes
    BY <1>4, <1>5 DEF Bytes
  <2>. QED BY <1>2, <2>1 DEF Frame
<1>7. ASSUME NEW p \in 0..Pages-1, NEW b \in 0..Bits-1, NEW x \in 0..Cols-1,
             x \in X..X+GlyphWidth-1
      PROVE  b \in New(p, x) <=> (p * Bits + b) - Y \in image[x - X]
  <2>. DEFINE i == image[x - X]
  <2>1. i \subseteq 0..Bits-1
    BY <1>3, <1>7 DEF Bytes
  <2>. HIDE DEF i
  <2>2. CASE p = page
    <3>1. (p * Bits + b) - Y = b - shift
      BY <1>1, <1>3, <2>2
    <3>2. b \in ShiftLeft(i, shift) <=> b - shift \in i
      BY <1>1, <1>3, <2>1 DEF ShiftLeft
    <3>3. New(p, x) = ShiftLeft(i, shift)
      BY <2>2 DEF i
    <3>. QED BY <3>1, <3>2, <3>3 DEF i
  <2>3. CASE p = page + 1
    <3>1. (p * Bits + b) - Y = b + (Bits - shift)
      BY <1>1, <1>3, <2>3
    <3>2. b \in ShiftRight(i, Bits - shift) <=> b + (Bits - shift) \in i
      BY <1>1, <1>3, <2>1 DEF ShiftRight
    <3>3. New(p, x) = ShiftRight(i, Bits - shift)
      BY <1>1, <2>3 DEF i
    <3>. QED BY <3>1, <3>2, <3>3 DEF i
  <2>4. CASE p < page
    <3>1. p * Bits <= (page - 1) * Bits
      BY <1>1, <1>3, <2>4
    <3>2. (p * Bits + b) - Y < 0
      BY <1>1, <1>3, <3>1
    <3>3. New(p, x) = {}
      BY <1>1, <2>4
    <3>4. (p * Bits + b) - Y \notin i
      <4>1. \A v \in i : v >= 0
        BY <1>3, <2>1
      <4>2. (p * Bits + b) - Y \in Int
        BY <1>3
      <4>. QED BY <3>2, <4>1, <4>2
    <3>. QED BY <3>3, <3>4 DEF i
  <2>5. CASE p > page + 1
    <3>1. p * Bits >= (page + 2) * Bits
      BY <1>1, <1>3, <2>5
    <3>2. (p * Bits + b) - Y >= Bits
      BY <1>1, <1>3, <3>1
    <3>3. New(p, x) = {}
      BY <1>1, <2>5
    <3>4. (p * Bits + b) - Y \notin i
      BY <1>3, <2>1, <3>2
    <3>. QED BY <3>3, <3>4 DEF i
  <2>. QED BY <1>1, <2>2, <2>3, <2>4, <2>5
<1>. HIDE DEF New
<1>8. ASSUME NEW x \in Int, NEW y \in Int
      PROVE  <<x, y>> \in Ink(X, Y, image)
               <=> x \in X..X+GlyphWidth-1 /\ y - Y \in image[x - X]
  <2>1. \A i \in 0..GlyphWidth-1 : image[i] \subseteq Int
    BY DEF Bytes
  <2>2. ASSUME <<x, y>> \in Ink(X, Y, image)
        PROVE  x \in X..X+GlyphWidth-1 /\ y - Y \in image[x - X]
    <3>1. PICK i \in 0..GlyphWidth-1 : \E b \in image[i] : <<x, y>> = <<X + i, Y + b>>
      BY <2>2 DEF Ink
    <3>2. PICK b \in image[i] : <<x, y>> = <<X + i, Y + b>>
      BY <3>1
    <3>3. x = X + i /\ y = Y + b /\ b \in Int
      BY <2>1, <3>2
    <3>4. x - X = i /\ y - Y = b
      BY <1>3, <3>3
    <3>. QED BY <1>3, <3>3, <3>4
  <2>3. ASSUME x \in X..X+GlyphWidth-1, y - Y \in image[x - X]
        PROVE  <<x, y>> \in Ink(X, Y, image)
    <3>1. x - X \in 0..GlyphWidth-1 /\ x = X + (x - X) /\ y = Y + (y - Y)
      BY <1>3, <2>3
    <3>. QED BY <2>3, <3>1 DEF Ink
  <2>. QED BY <2>2, <2>3
<1>9. ASSUME NEW xy \in Pixels
      PROVE  xy \in Lit(g) <=> xy \in Lit(f) \/ xy \in Ink(X, Y, image)
  <2>. DEFINE x == xy[1]
              p == xy[2] \div Bits
              b == xy[2] % Bits
  <2>1. x \in 0..Cols-1 /\ p \in 0..Pages-1 /\ b \in 0..Bits-1 /\ xy = <<x, p * Bits + b>>
    BY PixelSplit
  <2>2. xy \in Lit(g) <=> b \in g[p][x]
    BY LitMeans
  <2>3. xy \in Lit(f) <=> b \in f[p][x]
    BY LitMeans
  <2>. HIDE DEF x, p, b
  <2>4. g[p][x] = IF x \notin X..X+GlyphWidth-1 THEN f[p][x] ELSE f[p][x] \cup New(p, x)
    BY <1>2, <2>1
  <2>5. p * Bits + b \in Int /\ x \in Int
    BY <1>3, <2>1
  <2>6. xy \in Ink(X, Y, image) <=> x \in X..X+GlyphWidth-1 /\ (p * Bits + b) - Y \in image[x - X]
    <3>. DEFINE y == p * Bits + b
    <3>1. y \in Int /\ x \in Int /\ xy = <<x, y>>
      BY <2>1, <2>5
    <3>. HIDE DEF y
    <3>2. <<x, y>> \in Ink(X, Y, image) <=> x \in X..X+GlyphWidth-1 /\ y - Y \in image[x - X]
      BY <1>8, <3>1
    <3>3. xy \in Ink(X, Y, image) <=> x \in X..X+GlyphWidth-1 /\ y - Y \in image[x - X]
      BY <3>1, <3>2
    <3>. QED BY <3>3 DEF y
  <2>7. CASE x \in X..X+GlyphWidth-1
    <3>1. b \in New(p, x) <=> (p * Bits + b) - Y \in image[x - X]
      BY <1>7, <2>1, <2>7
    <3>. QED BY <2>2, <2>3, <2>4, <2>6, <2>7, <3>1
  <2>8. CASE x \notin X..X+GlyphWidth-1
    BY <2>2, <2>3, <2>4, <2>6, <2>8
  <2>. QED BY <2>7, <2>8
<1>10. Lit(g) \subseteq Pixels /\ Lit(f) \subseteq Pixels
  BY DEF Lit
<1>11. Lit(g) = Lit(f) \cup (Ink(X, Y, image) \cap Pixels)
  BY <1>9, <1>10
<1>. QED BY <1>6, <1>11 DEF g

-----------------------------------------------------------------------------
(* Drawing and transferring.                                               *)

\* Transfer t brings pixel xy to the panel.
Carries(t, xy) == xy[2] \div Bits = t.page /\ xy[1] \in t.x .. t.x + t.width - 1

\* A pixel that the update in progress was asked for is either still to be
\* transferred or the same in buffer and panel.
Pending ==
    \A xy \in asked :
        \/ \E i \in 1..Len(todo) : Carries(todo[i], xy)
        \/ xy \in Lit(panel) <=> xy \in Lit(OLED_DisplayBuf)

PanelInv ==
    /\ PanelTypeOK
    /\ todo \in Seq(Transfers)
    /\ asked \subseteq Pixels
    /\ DrawnExact
    /\ Pending

LEMMA PanelInvInit == PanelInit => PanelInv
<1>. SUFFICES ASSUME PanelInit PROVE PanelInv
  OBVIOUS
<1>1. BlankBuffer \in Frame /\ Lit(BlankBuffer) = {}
  BY LitBlank
<1>2. PanelTypeOK
  BY <1>1, PanelAssumption DEF PanelInit, PanelTypeOK
<1>3. DrawnExact
  BY <1>1 DEF PanelInit, DrawnExact
<1>. QED BY <1>2, <1>3 DEF PanelInit, PanelInv, Pending

\* A drawing call that leaves the right pixels in the buffer keeps everything;
\* the panel is not concerned until the next update.
LEMMA DrawInv ==
    ASSUME PanelInv, NEW buf \in Frame, NEW area, NEW ink, Draw(buf, area, ink),
           Lit(buf) = (Lit(OLED_DisplayBuf) \ area) \cup (ink \cap Pixels)
    PROVE  PanelInv'
<1>1. PanelTypeOK'
  BY PanelAssumption DEF PanelInv, PanelTypeOK, Draw
<1>2. DrawnExact'
  BY DEF PanelInv, DrawnExact, Draw, Lit
<1>. QED BY <1>1, <1>2 DEF PanelInv, Draw, Pending

\* OLED_Clear, OLED_ClearArea and OLED_ShowChar leave the right pixels.
LEMMA ClearStep == PanelInv /\ OLED_Clear => PanelInv'
<1>. SUFFICES ASSUME PanelInv, OLED_Clear PROVE PanelInv'
  OBVIOUS
<1>1. BlankBuffer \in Frame /\ Lit(BlankBuffer) = {}
  BY LitBlank
<1>2. Lit(BlankBuffer) = (Lit(OLED_DisplayBuf) \ Pixels) \cup ({} \cap Pixels)
  BY <1>1 DEF Lit
<1>. QED BY <1>1, <1>2, DrawInv DEF OLED_Clear

LEMMA ClearAreaStep ==
    ASSUME PanelInv, NEW X \in Int, NEW Y \in Int, NEW w \in Int, NEW h \in Int,
           OLED_ClearArea(X, Y, w, h)
    PROVE  PanelInv'
<1>1. OLED_DisplayBuf \in Frame
  BY DEF PanelInv, PanelTypeOK
<1>. DEFINE g == Cleared(OLED_DisplayBuf, X, Y, w, h)
            R == Rectangle(X, Y, w, h)
<1>2. g \in Frame /\ Lit(g) = Lit(OLED_DisplayBuf) \ R
  BY <1>1, LitCleared
<1>3. Draw(g, R, {})
  BY DEF OLED_ClearArea
<1>. HIDE DEF g, R
<1>4. Lit(g) = (Lit(OLED_DisplayBuf) \ R) \cup ({} \cap Pixels)
  BY <1>2
<1>. QED BY <1>2, <1>3, <1>4, DrawInv

LEMMA ShowCharStep ==
    ASSUME PanelInv, NEW X \in Int, NEW Y \in Int, NEW image \in Glyphs, OLED_ShowChar(X, Y, image)
    PROVE  PanelInv'
<1>1. OLED_DisplayBuf \in Frame /\ image \in [0..GlyphWidth-1 -> Bytes]
  BY PanelAssumption DEF PanelInv, PanelTypeOK
<1>2. GlyphWidth \in Int /\ Bits \in Int
  BY PanelAssumption
<1>. DEFINE c == Cleared(OLED_DisplayBuf, X, Y, GlyphWidth, Bits)
            R == Rectangle(X, Y, GlyphWidth, Bits)
            I == Ink(X, Y, image)
            g == ShowImage(c, X, Y, image)
<1>3. c \in Frame /\ Lit(c) = Lit(OLED_DisplayBuf) \ R
  BY <1>1, <1>2, LitCleared
<1>4. Draw(g, R, I)
  BY DEF OLED_ShowChar
<1>. HIDE DEF c
<1>5. g \in Frame /\ Lit(g) = Lit(c) \cup (I \cap Pixels)
  BY <1>1, <1>3, LitShown
<1>. HIDE DEF g, R, I
<1>6. Lit(g) = (Lit(OLED_DisplayBuf) \ R) \cup (I \cap Pixels)
  BY <1>3, <1>5
<1>. QED BY <1>4, <1>5, <1>6, DrawInv

\* An update queues one transfer for every page its area touches.
LEMMA QueueStep ==
    ASSUME PanelInv, NEW first \in 0..Pages-1, NEW last \in first..Pages-1,
           NEW x \in 0..Cols-1, NEW w \in 1..Cols, x + w <= Cols,
           todo' = Transfer(first, last, x, w),
           UNCHANGED <<OLED_DisplayBuf, panel, draws, picture>>,
           asked' \subseteq Pixels,
           \A xy \in asked' : xy[2] \div Bits \in first..last /\ xy[1] \in x .. x + w - 1
    PROVE  PanelInv'
<1>. USE PanelAssumption
<1>0. Pages \in Nat /\ Cols \in Nat
  OBVIOUS
<1>. DEFINE n == last - first + 1
<1>1. n \in Nat
  BY <1>0
<1>2. todo' = [i \in 1..n |-> [page |-> first + i - 1, x |-> x, width |-> w]]
  BY DEF Transfer
<1>3. \A i \in 1..n : [page |-> first + i - 1, x |-> x, width |-> w] \in Transfers
  BY <1>0 DEF Transfers
<1>4. todo' \in Seq(Transfers) /\ Len(todo') = n /\ DOMAIN todo' = 1..n
  <2>. HIDE DEF n
  <2>1. todo' \in [1..n -> Transfers]
    BY <1>2, <1>3, Zenon
  <2>. QED BY <1>1, <2>1
<1>5. \A i \in 1..n : todo'[i].page = first + i - 1 /\ todo'[i].x = x /\ todo'[i].width = w
  BY <1>2
<1>6. PanelTypeOK'
  <2>1. \A i \in DOMAIN todo' : todo'[i] \in Transfers /\ todo'[i].x + todo'[i].width <= Cols
    BY <1>2, <1>3, <1>4, <1>5
  <2>. QED BY <2>1 DEF PanelInv, PanelTypeOK
<1>7. Pending'
  <2>1. ASSUME NEW xy \in asked' PROVE \E i \in 1..Len(todo') : Carries(todo'[i], xy)
    <3>. DEFINE p == xy[2] \div Bits
                i == p - first + 1
    <3>1. p \in first..last /\ xy[1] \in x .. x + w - 1
      BY <2>1
    <3>2. i \in 1..n /\ first + i - 1 = p
      <4>. HIDE DEF p
      <4>. QED BY <3>1
    <3>3. todo'[i].page = p /\ todo'[i].x = x /\ todo'[i].width = w
      <4>. HIDE DEF p, i, n
      <4>. QED BY <1>5, <3>2
    <3>. HIDE DEF i, n
    <3>. QED BY <1>4, <3>1, <3>2, <3>3 DEF Carries
  <2>. QED BY <2>1 DEF Pending
<1>8. DrawnExact'
  BY DEF PanelInv, DrawnExact, Lit
<1>. QED BY <1>4, <1>6, <1>7, <1>8 DEF PanelInv

\* OLED_Update asks for all pages.
LEMMA UpdateStep == PanelInv /\ OLED_Update => PanelInv'
<1>. SUFFICES ASSUME PanelInv, OLED_Update PROVE PanelInv'
  OBVIOUS
<1>1. Pages \in Nat \ {0} /\ Cols \in Nat \ {0}
  BY PanelAssumption
<1>2. 0 \in 0..Pages-1 /\ Pages - 1 \in 0..Pages-1 /\ 0 \in 0..Cols-1 /\ Cols \in 1..Cols /\ 0 + Cols <= Cols
  BY <1>1
<1>3. \A xy \in Pixels : xy[2] \div Bits \in 0..Pages-1 /\ xy[1] \in 0 .. 0 + Cols - 1
  <2>1. 0 + Cols - 1 = Cols - 1
    BY <1>1
  <2>. QED BY <2>1, PixelSplit
<1>. QED BY <1>2, <1>3, QueueStep DEF OLED_Update

\* OLED_UpdateArea asks for the pages from the first to the last row of the area.
LEMMA UpdateAreaStep ==
    ASSUME PanelInv, NEW X \in 0..Cols-1, NEW Y \in 0..Pages*Bits-1,
           NEW w \in 1..Cols, NEW h \in 1..Pages*Bits,
           X + w <= Cols, Y + h <= Pages * Bits, OLED_UpdateArea(X, Y, w, h)
    PROVE  PanelInv'
<1>1. Pages \in Nat \ {0} /\ Cols \in Nat \ {0} /\ Bits \in Nat \ {0} /\ Pages * Bits \in Nat
  BY PanelAssumption
<1>. DEFINE z == Y + h - 1
            first == Y \div Bits
            last == z \div Bits
<1>2. Y \in Nat /\ z \in Nat /\ Y <= z /\ z < Pages * Bits
  BY <1>1
<1>3. todo' = Transfer(first, last, X, w) /\ asked' = Rectangle(X, Y, w, h)
      /\ UNCHANGED <<OLED_DisplayBuf, panel, draws, picture>>
  <2>1. Y >= 0 /\ z >= 0
    BY <1>2
  <2>. QED BY <2>1 DEF OLED_UpdateArea, LastPage, Div
<1>4. ASSUME NEW xy \in Rectangle(X, Y, w, h)
      PROVE  xy \in Pixels /\ xy[2] \in Y..z /\ xy[1] \in X .. X + w - 1
  BY <1>1, <1>4 DEF Rectangle, Pixels
<1>. HIDE DEF z
<1>5. \A y \in Nat : y \div Bits \in Int /\ Bits * (y \div Bits) <= y
                     /\ y < Bits * (y \div Bits) + Bits
  BY <1>1
<1>6. ASSUME NEW y \in Nat, NEW u \in Nat, y <= u PROVE y \div Bits <= u \div Bits
  <2>. DEFINE p == y \div Bits
              q == u \div Bits
  <2>1. p \in Int /\ q \in Int /\ Bits * p <= y /\ u < Bits * q + Bits
    BY <1>5
  <2>. HIDE DEF p, q
  <2>2. Bits * p < Bits * (q + 1)
    BY <1>1, <1>6, <2>1
  <2>3. ASSUME p >= q + 1 PROVE FALSE
    <3>1. Bits * p >= Bits * (q + 1)
      BY <1>1, <2>1, <2>3
    <3>. QED BY <1>1, <2>1, <2>2, <3>1
  <2>4. p <= q
    BY <2>1, <2>3
  <2>. QED BY <2>4 DEF p, q
<1>7. ASSUME NEW y \in Nat, y < Pages * Bits PROVE y \div Bits \in 0..Pages-1
  <2>1. <<0, y>> \in Pixels
    BY <1>1, <1>7 DEF Pixels
  <2>. QED BY <2>1, PixelSplit
<1>8. first \in 0..Pages-1 /\ last \in first..Pages-1
  <2>1. first \in 0..Pages-1
    BY <1>1, <1>2, <1>7
  <2>2. last \in 0..Pages-1
    BY <1>2, <1>7
  <2>3. first <= last
    BY <1>2, <1>6
  <2>. HIDE DEF first, last
  <2>. QED BY <1>1, <2>1, <2>2, <2>3
<1>9. ASSUME NEW xy \in asked'
      PROVE  xy \in Pixels /\ xy[2] \div Bits \in first..last /\ xy[1] \in X .. X + w - 1
  <2>1. xy \in Pixels /\ xy[2] \in Y..z /\ xy[1] \in X .. X + w - 1
    BY <1>3, <1>4, <1>9
  <2>2. xy[2] \in Nat /\ Y <= xy[2] /\ xy[2] <= z
    BY <1>2, <2>1
  <2>3. first <= xy[2] \div Bits /\ xy[2] \div Bits <= last
    BY <1>2, <1>6, <2>2
  <2>4. xy[2] \div Bits \in Int
    BY <1>5, <2>2
  <2>. HIDE DEF first, last
  <2>. QED BY <1>1, <1>8, <2>1, <2>3, <2>4
<1>10. asked' \subseteq Pixels
  BY <1>9
<1>. HIDE DEF first, last
<1>. QED BY <1>3, <1>8, <1>9, <1>10, QueueStep

\* OLED_WriteData of a page makes buffer and panel equal where it writes.
LEMMA WriteStep == PanelInv /\ OLED_WriteData => PanelInv'
<1>. SUFFICES ASSUME PanelInv, OLED_WriteData PROVE PanelInv'
  OBVIOUS
<1>. DEFINE t == Head(todo)
<1>1. /\ todo # <<>> /\ todo \in Seq(Transfers) /\ t = todo[1] /\ t \in Transfers
      /\ t.x + t.width <= Cols
      /\ OLED_DisplayBuf \in Frame /\ panel \in Frame
  BY DEF OLED_WriteData, PanelInv, PanelTypeOK
<1>2. /\ todo' = Tail(todo) /\ todo' \in Seq(Transfers) /\ Len(todo') = Len(todo) - 1
      /\ Len(todo) \in Nat \ {0} /\ \A i \in 1..Len(todo) - 1 : todo'[i] = todo[i + 1]
  BY <1>1 DEF OLED_WriteData
<1>3. panel' = [panel EXCEPT ![t.page] = [x \in 0..Cols-1 |->
                  IF x \in t.x .. t.x + t.width - 1 THEN OLED_DisplayBuf[t.page][x]
                                                    ELSE panel[t.page][x]]]
  BY <1>1 DEF OLED_WriteData, Frame, Transfers
<1>. HIDE DEF t
<1>4. t.page \in 0..Pages-1
  BY <1>1 DEF Transfers
<1>5. panel' \in Frame
  BY <1>1, <1>3, <1>4 DEF Frame
<1>6. PanelTypeOK'
  <2>1. DOMAIN todo' = 1..Len(todo) - 1 /\ DOMAIN todo = 1..Len(todo)
    BY <1>1, <1>2
  <2>2. \A i \in DOMAIN todo' : todo'[i] \in Transfers /\ todo'[i].x + todo'[i].width <= Cols
    BY <1>2, <2>1 DEF PanelInv, PanelTypeOK
  <2>. QED BY <1>5, <2>2 DEF PanelInv, PanelTypeOK, OLED_WriteData
<1>7. ASSUME NEW xy \in Pixels
      PROVE  /\ Carries(t, xy) => (xy \in Lit(panel') <=> xy \in Lit(OLED_DisplayBuf))
             /\ ~Carries(t, xy) => (xy \in Lit(panel') <=> xy \in Lit(panel))
  <2>. DEFINE x == xy[1]
              p == xy[2] \div Bits
              b == xy[2] % Bits
  <2>1. x \in 0..Cols-1 /\ p \in 0..Pages-1
    BY PixelSplit
  <2>2. /\ xy \in Lit(panel') <=> b \in panel'[p][x]
        /\ xy \in Lit(panel) <=> b \in panel[p][x]
        /\ xy \in Lit(OLED_DisplayBuf) <=> b \in OLED_DisplayBuf[p][x]
    BY LitMeans
  <2>3. Carries(t, xy) <=> p = t.page /\ x \in t.x .. t.x + t.width - 1
    BY DEF Carries
  <2>. HIDE DEF x, p, b
  <2>4. panel'[p][x] = IF p = t.page /\ x \in t.x .. t.x + t.width - 1
                       THEN OLED_DisplayBuf[p][x] ELSE panel[p][x]
    BY <1>1, <1>3, <1>4, <2>1 DEF Frame
  <2>. QED BY <2>2, <2>3, <2>4
<1>8. asked' = asked /\ OLED_DisplayBuf' = OLED_DisplayBuf /\ asked \subseteq Pixels
  BY DEF OLED_WriteData, PanelInv
<1>9. Pending'
  <2>. SUFFICES ASSUME NEW xy \in asked
                PROVE  \/ \E i \in 1..Len(todo') : Carries(todo'[i], xy)
                       \/ xy \in Lit(panel') <=> xy \in Lit(OLED_DisplayBuf)
    BY <1>8 DEF Pending, Lit
  <2>1. xy \in Pixels
    BY <1>8
  <2>2. CASE Carries(t, xy)
    BY <1>7, <2>1, <2>2
  <2>3. CASE ~Carries(t, xy) /\ \E i \in 1..Len(todo) : Carries(todo[i], xy)
    <3>1. PICK i \in 1..Len(todo) : Carries(todo[i], xy)
      BY <2>3
    <3>2. i # 1
      BY <1>1, <2>3, <3>1
    <3>3. i - 1 \in 1..Len(todo') /\ todo'[i - 1] = todo[i]
      BY <1>2, <3>2
    <3>. QED BY <3>1, <3>3
  <2>4. CASE ~Carries(t, xy) /\ (xy \in Lit(panel) <=> xy \in Lit(OLED_DisplayBuf))
    BY <1>7, <2>1, <2>4
  <2>. QED BY <2>2, <2>3, <2>4 DEF PanelInv, Pending
<1>10. DrawnExact'
  BY DEF PanelInv, DrawnExact, OLED_WriteData, Lit
<1>. QED BY <1>2, <1>6, <1>8, <1>9, <1>10 DEF PanelInv

LEMMA PanelInvNext == PanelInv /\ [PanelNext]_panelvars => PanelInv'
<1>. SUFFICES ASSUME PanelInv, [PanelNext]_panelvars PROVE PanelInv'
  OBVIOUS
<1>0. Pages * Bits \in Int /\ Cols \in Int /\ GlyphWidth \in Int /\ Bits \in Int
  BY PanelAssumption
<1>1. CASE OLED_Clear
  BY <1>1, ClearStep
<1>2. ASSUME NEW a \in Areas,
             OLED_ClearArea(a[1], a[2], a[3], a[4]) \/ OLED_UpdateArea(a[1], a[2], a[3], a[4])
      PROVE  PanelInv'
  <2>1. /\ a[1] \in 0..Cols-1 /\ a[2] \in 0..Pages*Bits-1 /\ a[3] \in 1..Cols /\ a[4] \in 1..Pages*Bits
        /\ a[1] + a[3] <= Cols /\ a[2] + a[4] <= Pages * Bits
    BY DEF Areas
  <2>2. a[1] \in Int /\ a[2] \in Int /\ a[3] \in Int /\ a[4] \in Int
    BY <1>0, <2>1
  <2>3. CASE OLED_ClearArea(a[1], a[2], a[3], a[4])
    BY <2>2, <2>3, ClearAreaStep
  <2>4. CASE OLED_UpdateArea(a[1], a[2], a[3], a[4])
    BY <2>1, <2>4, UpdateAreaStep
  <2>. QED BY <1>2, <2>3, <2>4
<1>3. ASSUME NEW pos \in Places, NEW image \in Glyphs, OLED_ShowChar(pos[1], pos[2], image)
      PROVE  PanelInv'
  <2>1. pos[1] \in Int /\ pos[2] \in Int
    BY <1>0 DEF Places
  <2>. QED BY <1>3, <2>1, ShowCharStep
<1>4. CASE OLED_Update
  BY <1>4, UpdateStep
<1>5. CASE OLED_WriteData
  BY <1>5, WriteStep
<1>6. CASE UNCHANGED panelvars
  BY <1>6 DEF panelvars, PanelInv, PanelTypeOK, DrawnExact, Pending, Lit
<1>. QED BY <1>1, <1>2, <1>3, <1>4, <1>5, <1>6 DEF PanelNext

\* The frame buffer holds the picture that was drawn and an update brings its
\* whole area to the panel, for every geometry, font and position.
THEOREM PanelCorrect == PanelSpec => []PanelExact
<1>1. PanelSpec => []PanelInv
  BY PanelInvInit, PanelInvNext, PTL DEF PanelSpec
<1>2. PanelInv => PanelExact
  <2>. SUFFICES ASSUME PanelInv, todo = <<>> PROVE Lit(panel) \cap asked = picture \cap asked
    BY DEF PanelInv, PanelExact, AreaShown
  <2>1. Len(todo) = 0
    OBVIOUS
  <2>2. \A xy \in asked : xy \in Lit(panel) <=> xy \in Lit(OLED_DisplayBuf)
    BY <2>1 DEF PanelInv, Pending
  <2>3. Lit(OLED_DisplayBuf) = picture
    BY DEF PanelInv, DrawnExact
  <2>. QED BY <2>2, <2>3
<1>. QED BY <1>1, <1>2, PTL

-----------------------------------------------------------------------------
(* The shell's line: strings in an array.                                  *)

\* A set of naturals that is not empty has a least element.
LEMMA LeastElement ==
    ASSUME NEW T, T \subseteq Nat, T # {}
    PROVE  \E x \in T : \A y \in T : x <= y
<1>1. PICK x \in T : \A y \in T : ~(<<y, x>> \in OpToRel(<, Nat))
  BY NatLessThanWellFounded, WFMin, Zenon
<1>2. ASSUME NEW y \in T PROVE x <= y
  <2>1. ~(<<y, x>> \in OpToRel(<, Nat))
    BY <1>1, Zenon
  <2>2. ~(y < x)
    BY <2>1, Zenon DEF OpToRel
  <2>. QED BY <2>2
<1>. QED BY <1>2

\* strlen stops at the first Nul.
LEMMA StrlenFirst ==
    ASSUME NEW l, NEW m \in Place, l[m] = Nul
    PROVE  /\ strlen(l) \in Place /\ strlen(l) <= m
           /\ l[strlen(l)] = Nul
           /\ \A j \in Place : j < strlen(l) => l[j] # Nul
<1>. DEFINE T == {i \in Place : l[i] = Nul}
<1>1. T \subseteq Nat /\ T # {}
  BY ShellAssumption DEF Place
<1>2. PICK x \in T : \A y \in T : x <= y
  BY <1>1, LeastElement
<1>3. x \in Place /\ l[x] = Nul /\ \A j \in 0 .. x - 1 : l[j] # Nul
  BY <1>2, ShellAssumption DEF Place
<1>. DEFINE P(i) == l[i] = Nul /\ \A j \in 0 .. i - 1 : l[j] # Nul
<1>4. strlen(l) = CHOOSE i \in Place : P(i)
  BY DEF strlen
<1>5. strlen(l) \in Place /\ P(strlen(l))
  <2>1. \E i \in Place : P(i)
    BY <1>3
  <2>. HIDE DEF P
  <2>. QED BY <2>1, <1>4
<1>6. ASSUME NEW j \in Place, j < strlen(l) PROVE l[j] # Nul
  BY <1>5, <1>6, ShellAssumption DEF Place
<1>7. strlen(l) <= m
  BY <1>5, <1>6, ShellAssumption DEF Place
<1>. QED BY <1>5, <1>6, <1>7

\* A string ends at the only place that is a Nul with none before it.
LEMMA StrlenIs ==
    ASSUME NEW l, NEW n \in Place, l[n] = Nul, \A j \in Place : j < n => l[j] # Nul
    PROVE  strlen(l) = n
<1>1. strlen(l) \in Place /\ strlen(l) <= n /\ l[strlen(l)] = Nul
  BY StrlenFirst
<1>. QED BY <1>1, ShellAssumption DEF Place

\* The string at the front of a line is made of printable characters.
LEMMA StringPlain ==
    ASSUME NEW l \in [Place -> Plain \cup {Nul}], NEW m \in Place, l[m] = Nul
    PROVE  String(l) \in Seq(Plain) /\ Len(String(l)) = strlen(l)
<1>1. strlen(l) \in Nat /\ strlen(l) <= FINSH_CMD_SIZE /\ \A j \in Place : j < strlen(l) => l[j] # Nul
  BY StrlenFirst, ShellAssumption DEF Place
<1>2. String(l) = [i \in 1 .. strlen(l) |-> l[i - 1]]
  BY DEF String, Chars
<1>3. \A i \in 1 .. strlen(l) : l[i - 1] \in Plain
  BY <1>1, ShellAssumption DEF Place
<1>. HIDE DEF String, Chars
<1>. QED BY <1>1, <1>2, <1>3

-----------------------------------------------------------------------------
(* Completion.                                                             *)

\* msh_auto_complete never shortens the line, and what it adds fits.
LEMMA CompletionFits ==
    ASSUME NEW s \in Seq(Plain)
    PROVE  \/ msh_auto_complete(s) = s
           \/ /\ msh_auto_complete(s) \in Seq(Plain)
              /\ Len(s) <= Len(msh_auto_complete(s))
              /\ Len(msh_auto_complete(s)) < FINSH_CMD_SIZE
<1>. DEFINE match == {i \in DOMAIN Commands : IsPrefix(s, Commands[i])}
            S == {Commands[i] : i \in match}
            CP == CommonPrefixes(S)
            d == LongestCommonPrefix(S)
<1>1. CASE s = << >> \/ match = {}
  BY <1>1 DEF msh_auto_complete
<1>2. CASE s # << >> /\ match # {}
  <2>1. msh_auto_complete(s) = d
    BY <1>2 DEF msh_auto_complete
  <2>2. \A t \in S : t \in Seq(Plain) /\ Len(t) < FINSH_CMD_SIZE /\ IsPrefix(s, t)
    BY ShellAssumption
  <2>3. S # {}
    BY <1>2
  <2>. HIDE DEF S, match
  <2>4. \A p \in CP : p \in Seq(Plain) /\ Len(p) \in Nat /\ Len(p) < FINSH_CMD_SIZE
    <3>1. SUFFICES ASSUME NEW t \in S, NEW n \in 0 .. Len(t)
                   PROVE  /\ SubSeq(t, 1, n) \in Seq(Plain) /\ Len(SubSeq(t, 1, n)) \in Nat
                          /\ Len(SubSeq(t, 1, n)) < FINSH_CMD_SIZE
      BY DEF CommonPrefixes, Prefixes
    <3>2. t \in Seq(Plain) /\ Len(t) < FINSH_CMD_SIZE
      BY <2>2
    <3>. QED BY <3>2, ShellAssumption
  <2>5. s \in CP
    <3>1. PICK t \in S : TRUE
      BY <2>3
    <3>2. t \in Seq(Plain) /\ Len(s) <= Len(t) /\ SubSeq(s, 1, Len(s)) = SubSeq(t, 1, Len(s))
      BY <2>2 DEF IsPrefix
    <3>3. s = SubSeq(t, 1, Len(s)) /\ Len(s) \in 0 .. Len(t)
      BY <3>2
    <3>4. s \in Prefixes(t)
      BY <3>3 DEF Prefixes
    <3>. QED BY <3>1, <3>4, <2>2 DEF CommonPrefixes
  <2>6. \E p \in CP : \A q \in CP : Len(q) <= Len(p)
    <3>. DEFINE T == {FINSH_CMD_SIZE - Len(p) : p \in CP}
    <3>. HIDE DEF CP
    <3>1. T \subseteq Nat /\ T # {}
      BY <2>4, <2>5, ShellAssumption
    <3>2. PICK x \in T : \A y \in T : x <= y
      BY <3>1, LeastElement
    <3>3. PICK p \in CP : x = FINSH_CMD_SIZE - Len(p)
      BY <3>2
    <3>4. ASSUME NEW q \in CP PROVE Len(q) <= Len(p)
      <4>1. FINSH_CMD_SIZE - Len(p) <= FINSH_CMD_SIZE - Len(q)
        BY <3>2, <3>3
      <4>. QED BY <4>1, <2>4, ShellAssumption
    <3>. QED BY <3>4
  <2>7. d \in CP /\ \A q \in CP : Len(q) <= Len(d)
    BY <2>6 DEF LongestCommonPrefix
  <2>. HIDE DEF d, CP
  <2>. QED BY <2>1, <2>4, <2>5, <2>7
<1>. QED BY <1>1, <1>2

-----------------------------------------------------------------------------
(* The line and the history together.                                      *)

\* An entry of the history: characters, then Nul to the end.
Entry == {e \in [0 .. FINSH_CMD_SIZE - 1 -> Plain \cup {Nul}] :
            \A i, j \in 0 .. FINSH_CMD_SIZE - 1 : i < j /\ e[i] = Nul => e[j] = Nul}

\* LineSound with what it rests on: an entry recalled has to end where its
\* length says, also when it was saved from a line that had overflowed.
LineInv ==
    /\ LineTypeOK /\ LineIntact
    /\ cmd_history \in Seq(Entry)
    /\ OverflowBounded

\* The array and its two positions, without the history.
ArrayOK ==
    /\ line \in [Place -> Plain \cup {Nul}]
    /\ line_position \in Place /\ line_curpos \in 0 .. 2 * FINSH_CMD_SIZE
    /\ wrapped \in BOOLEAN /\ outside \in BOOLEAN
    /\ LineIntact /\ OverflowBounded

\* The history, without the line.
HistoryOK ==
    /\ cmd_history \in Seq(Entry) /\ Len(cmd_history) <= FINSH_HISTORY_LINES
    /\ current_history \in 0 .. Len(cmd_history)

\* The progress in a key sequence.
StatOK == stat \in {"WAIT_NORMAL", "WAIT_SPEC_KEY", "WAIT_FUNC_KEY"}

\* The invariant is the conjunction of the two halves.
LEMMA LineParts == LineInv <=> ArrayOK /\ HistoryOK /\ StatOK
<1>1. ASSUME cmd_history \in Seq(Entry)
      PROVE  \A i \in DOMAIN cmd_history : cmd_history[i] \in [0 .. FINSH_CMD_SIZE - 1 -> Plain \cup {Nul}]
  BY <1>1 DEF Entry
<1>. QED BY <1>1 DEF LineInv, LineTypeOK, ArrayOK, HistoryOK, StatOK

-----------------------------------------------------------------------------
(* One lemma for each key.                                                 *)

\* What the bounds of the code come to.
LEMMA SizeFacts ==
    /\ FINSH_CMD_SIZE \in Nat /\ FINSH_CMD_SIZE > 1
    /\ Place = 0 .. FINSH_CMD_SIZE
    /\ Nul \notin Plain
BY ShellAssumption DEF Place, Control

\* A byte that leaves the line alone keeps its half,
LEMMA UneditedKeeps ==
    ASSUME ArrayOK, Unedited
    PROVE  ArrayOK'
BY DEF ArrayOK, Unedited, LineIntact, OverflowBounded

\* and one that leaves the history alone keeps the other.
LEMMA NoHistoryKeeps ==
    ASSUME HistoryOK, NoHistory
    PROVE  HistoryOK'
BY DEF HistoryOK, NoHistory

\* The cursor keys move within the line.
LEMMA CursorKeeps ==
    ASSUME ArrayOK, HistoryOK, ~outside, LeftKey \/ RightKey
    PROVE  ArrayOK' /\ HistoryOK'
<1>1. HistoryOK'
  BY NoHistoryKeeps DEF LeftKey, RightKey
<1>2. ArrayOK'
  BY SizeFacts DEF ArrayOK, LeftKey, RightKey, LineIntact, OverflowBounded
<1>. QED BY <1>1, <1>2

\* A recalled entry becomes the line, whole.
LEMMA ShowKeeps ==
    ASSUME ArrayOK, HistoryOK, ~outside, NEW h \in 0 .. Len(cmd_history) - 1, ShowHistory(h)
    PROVE  ArrayOK' /\ HistoryOK'
<1>. DEFINE e == cmd_history[h + 1]
            l == [i \in Place |-> IF i < FINSH_CMD_SIZE THEN e[i] ELSE line[i]]
            n == strlen(l)
<1>1. e \in Entry
  BY DEF HistoryOK
<1>2. /\ line' = l /\ line_position' = n /\ line_curpos' = n
      /\ wrapped' = (n >= FINSH_CMD_SIZE)
      /\ outside' = outside /\ cmd_history' = cmd_history /\ current_history' = h
  BY DEF ShowHistory
<1>3. /\ l \in [Place -> Plain \cup {Nul}] /\ l[FINSH_CMD_SIZE] = Nul
      /\ FINSH_CMD_SIZE \in Place
  BY <1>1, SizeFacts DEF Entry, ArrayOK, OverflowBounded
<1>4. n \in Place /\ l[n] = Nul /\ \A j \in Place : j < n => l[j] # Nul
  <2>. HIDE DEF l
  <2>. QED BY <1>3, StrlenFirst
<1>. HIDE DEF n
<1>5. ASSUME NEW j \in Place, j > n PROVE l[j] = Nul
  <2>1. CASE j = FINSH_CMD_SIZE
    BY <2>1, <1>3
  <2>2. CASE j < FINSH_CMD_SIZE
    <3>1. e[n] = Nul /\ l[j] = e[j]
      BY <2>2, <1>4, <1>5, SizeFacts
    <3>2. n \in 0 .. FINSH_CMD_SIZE - 1 /\ j \in 0 .. FINSH_CMD_SIZE - 1
      BY <2>2, <1>4, <1>5, SizeFacts
    <3>. HIDE DEF e, l
    <3>3. e[j] = Nul
      BY <3>1, <3>2, <1>1, <1>5 DEF Entry
    <3>. QED BY <3>1, <3>3
  <2>. QED BY <2>1, <2>2, SizeFacts
<1>. HIDE DEF l, e
<1>6. ArrayOK'
  <2>1. /\ line' \in [Place -> Plain \cup {Nul}]
        /\ line_position' \in Place /\ line_curpos' \in 0 .. 2 * FINSH_CMD_SIZE
        /\ wrapped' \in BOOLEAN /\ outside' \in BOOLEAN
    BY <1>2, <1>3, <1>4, SizeFacts DEF ArrayOK
  <2>2. OverflowBounded'
    BY <1>2, <1>3, <1>4, SizeFacts DEF OverflowBounded
  <2>3. LineIntact'
    <3>1. SUFFICES ASSUME ~(n >= FINSH_CMD_SIZE)
                   PROVE  /\ ~outside'
                          /\ line_curpos' <= line_position' /\ line_position' < FINSH_CMD_SIZE
                          /\ \A i \in Place : line'[i] = Nul <=> i >= line_position'
      BY <1>2 DEF LineIntact
    <3>2. \A i \in Place : l[i] = Nul <=> i >= n
      BY <1>4, <1>5, SizeFacts
    <3>. QED BY <3>1, <3>2, <1>2, <1>4, SizeFacts
  <2>. QED BY <2>1, <2>2, <2>3 DEF ArrayOK
<1>7. HistoryOK'
  BY <1>2 DEF HistoryOK
<1>. QED BY <1>6, <1>7

\* Up and down show an entry that exists, or nothing.
LEMMA RecallShows ==
    ASSUME HistoryOK, UpKey \/ DownKey
    PROVE  (Unedited /\ NoHistory) \/ \E h \in 0 .. Len(cmd_history) - 1 : ShowHistory(h)
<1>1. current_history \in 0 .. Len(cmd_history) /\ Len(cmd_history) \in Nat
  BY DEF HistoryOK
<1>2. CASE UpKey
  BY <1>1, <1>2 DEF UpKey
<1>3. CASE DownKey
  BY <1>1, <1>3 DEF DownKey, history_count
<1>. QED BY <1>2, <1>3

\* The history keys.
LEMMA RecallKeeps ==
    ASSUME ArrayOK, HistoryOK, ~outside, UpKey \/ DownKey
    PROVE  ArrayOK' /\ HistoryOK'
<1>1. CASE Unedited /\ NoHistory
  BY <1>1, UneditedKeeps, NoHistoryKeeps
<1>2. CASE \E h \in 0 .. Len(cmd_history) - 1 : ShowHistory(h)
  BY <1>2, ShowKeeps
<1>. QED BY <1>1, <1>2, RecallShows

\* Completion rewrites the front of the line and never reaches its end.
LEMMA TabKeeps ==
    ASSUME ArrayOK, HistoryOK, ~outside, TabKey
    PROVE  ArrayOK' /\ HistoryOK'
<1>. DEFINE s == String(line)
            done == msh_auto_complete(s)
            l == [i \in Place |-> IF i < Len(done) THEN done[i + 1] ELSE line[i]]
            n == strlen(l)
<1>1. /\ line' = l /\ line_position' = n /\ line_curpos' = n
      /\ wrapped' = wrapped /\ outside' = outside
  BY DEF TabKey
<1>2. HistoryOK'
  BY NoHistoryKeeps DEF TabKey
<1>3. /\ line \in [Place -> Plain \cup {Nul}] /\ line[FINSH_CMD_SIZE] = Nul
      /\ FINSH_CMD_SIZE \in Place
  BY SizeFacts DEF ArrayOK, OverflowBounded
<1>4. /\ strlen(line) \in Place /\ line[strlen(line)] = Nul
      /\ \A j \in Place : j < strlen(line) => line[j] # Nul
  BY <1>3, StrlenFirst
<1>5. s \in Seq(Plain) /\ Len(s) = strlen(line) /\ \A i \in 1 .. strlen(line) : s[i] = line[i - 1]
  <2>1. s \in Seq(Plain) /\ Len(s) = strlen(line)
    BY <1>3, StringPlain
  <2>. QED BY <2>1 DEF String, Chars
<1>. HIDE DEF s
<1>6. \/ done = s
      \/ done \in Seq(Plain) /\ Len(s) <= Len(done) /\ Len(done) < FINSH_CMD_SIZE
  BY <1>5, CompletionFits
<1>7. done \in Seq(Plain) /\ Len(done) \in Place /\ Len(s) <= Len(done)
  BY <1>4, <1>5, <1>6, SizeFacts
<1>8. l \in [Place -> Plain \cup {Nul}] /\ l[FINSH_CMD_SIZE] = Nul
  BY <1>3, <1>7, SizeFacts
<1>9. n \in Place /\ l[n] = Nul /\ \A j \in Place : j < n => l[j] # Nul
  BY <1>3, <1>8, StrlenFirst
<1>10. ASSUME ~wrapped
       PROVE  n < FINSH_CMD_SIZE /\ \A i \in Place : i >= n => l[i] = Nul
  <2>1. /\ line_position \in Place /\ line_position < FINSH_CMD_SIZE
        /\ \A i \in Place : line[i] = Nul <=> i >= line_position
    BY <1>10 DEF ArrayOK, LineIntact
  <2>2. Len(s) = line_position
    BY <2>1, <1>4, <1>5, SizeFacts
  <2>3. Len(done) < FINSH_CMD_SIZE
    BY <2>1, <2>2, <1>6
  <2>4. \A i \in Place : i >= Len(done) => l[i] = Nul
    BY <2>1, <2>2, <1>7, SizeFacts
  <2>5. n <= Len(done)
    BY <2>4, <1>7, <1>9, SizeFacts
  <2>6. n >= Len(done)
    BY <1>7, <1>9, SizeFacts
  <2>. HIDE DEF n, l, done
  <2>7. n = Len(done)
    BY <2>5, <2>6, <1>7, <1>9, SizeFacts
  <2>. QED BY <2>3, <2>4, <2>7
<1>. HIDE DEF n, l, done
<1>11. ArrayOK'
  BY <1>1, <1>8, <1>9, <1>10, SizeFacts DEF ArrayOK, LineIntact, OverflowBounded
<1>. QED BY <1>2, <1>11

\* Erasing closes the gap and writes the Nul where the line now ends; only a line
\* that has overflowed can be empty with the cursor beyond its start.
LEMMA BackspaceKeeps ==
    ASSUME ArrayOK, HistoryOK, ~outside, BackspaceKey
    PROVE  ArrayOK' /\ HistoryOK'
<1>1. HistoryOK'
  BY NoHistoryKeeps DEF BackspaceKey
<1>2. CASE line_curpos = 0
  BY <1>1, <1>2, UneditedKeeps DEF BackspaceKey
<1>3. CASE line_curpos # 0 /\ line_position = 0
  <2>1. wrapped
    BY <1>3, SizeFacts DEF ArrayOK, LineIntact
  <2>2. UNCHANGED <<line, line_position, line_curpos, wrapped>> /\ outside' = TRUE
    BY <1>3 DEF BackspaceKey
  <2>. QED BY <2>1, <2>2, <1>1, <1>3, SizeFacts DEF ArrayOK, LineIntact, OverflowBounded
<1>4. CASE line_curpos # 0 /\ line_position # 0
  <2>. DEFINE p == line_position - 1
              q == line_curpos - 1
              l == [i \in Place |-> CASE i = p -> Nul
                                      [] i >= q /\ i < p -> line[i + 1]
                                      [] OTHER -> line[i]]
  <2>1. line_position' = p /\ line_curpos' = q
    BY <1>4 DEF BackspaceKey
  <2>2. line' = l /\ wrapped' = wrapped /\ outside' = outside
    BY <1>4, <2>1 DEF BackspaceKey
  <2>3. /\ line \in [Place -> Plain \cup {Nul}] /\ line[FINSH_CMD_SIZE] = Nul
        /\ \A i \in Place : i < line_position => line[i] # Nul
        /\ line_position \in 1 .. FINSH_CMD_SIZE /\ line_curpos \in 1 .. 2 * FINSH_CMD_SIZE
        /\ line_curpos <= FINSH_CMD_SIZE + line_position
    BY <1>4, SizeFacts DEF ArrayOK, OverflowBounded
  <2>4. p \in 0 .. FINSH_CMD_SIZE - 1 /\ q \in 0 .. 2 * FINSH_CMD_SIZE - 1
    BY <2>3, SizeFacts
  <2>5. \A i \in Place : l[i] = IF i = p THEN Nul ELSE IF i >= q /\ i < p THEN line[i + 1] ELSE line[i]
    BY <2>4, SizeFacts
  <2>6. l \in [Place -> Plain \cup {Nul}]
    <3>1. ASSUME NEW i \in Place PROVE l[i] \in Plain \cup {Nul}
      BY <3>1, <2>3, <2>4, <2>5, SizeFacts
    <3>. QED BY <3>1
  <2>. HIDE DEF l
  <2>7. l[FINSH_CMD_SIZE] = Nul
    BY <2>3, <2>4, <2>5, SizeFacts
  <2>8. ASSUME NEW i \in Place, i < p PROVE l[i] # Nul
    BY <2>3, <2>4, <2>5, <2>8, SizeFacts
  <2>9. ASSUME ~wrapped
        PROVE  /\ ~outside /\ q <= p /\ p < FINSH_CMD_SIZE
               /\ \A i \in Place : l[i] = Nul <=> i >= p
    <3>1. /\ ~outside /\ line_curpos <= line_position
          /\ \A i \in Place : line[i] = Nul <=> i >= line_position
      BY <2>9 DEF ArrayOK, LineIntact
    <3>2. ASSUME NEW i \in Place, i >= p PROVE l[i] = Nul
      BY <3>1, <3>2, <2>3, <2>4, <2>5, SizeFacts
    <3>. QED BY <3>1, <3>2, <2>3, <2>4, <2>8, SizeFacts
  <2>10. OverflowBounded'
    <3>1. ~outside'
      BY <2>2
    <3>. QED BY <3>1, <2>1, <2>2, <2>3, <2>4, <2>7, <2>8, SizeFacts DEF OverflowBounded
  <2>11. LineIntact'
    BY <2>1, <2>2, <2>9 DEF LineIntact
  <2>. QED BY <2>1, <2>2, <2>4, <2>6, <2>10, <2>11, <1>1, SizeFacts DEF ArrayOK
<1>. QED BY <1>2, <1>3, <1>4

\* What is saved is the first line_position characters, Nul after them.
LEMMA EntrySaved ==
    ASSUME ArrayOK
    PROVE  [i \in 0 .. FINSH_CMD_SIZE - 1 |-> IF i < line_position THEN line[i] ELSE Nul] \in Entry
<1>. DEFINE e == [i \in 0 .. FINSH_CMD_SIZE - 1 |-> IF i < line_position THEN line[i] ELSE Nul]
<1>1. /\ line \in [Place -> Plain \cup {Nul}] /\ line_position \in Nat
      /\ \A i \in Place : i < line_position => line[i] # Nul
      /\ 0 .. FINSH_CMD_SIZE - 1 \subseteq Place
  BY SizeFacts DEF ArrayOK, OverflowBounded
<1>2. e \in [0 .. FINSH_CMD_SIZE - 1 -> Plain \cup {Nul}]
  BY <1>1
<1>3. ASSUME NEW i \in 0 .. FINSH_CMD_SIZE - 1, NEW j \in 0 .. FINSH_CMD_SIZE - 1, i < j, e[i] = Nul
      PROVE  e[j] = Nul
  <2>1. ~(i < line_position)
    BY <1>1, <1>3
  <2>. QED BY <2>1, <1>1, <1>3
<1>. QED BY <1>2, <1>3 DEF Entry

\* The history keeps its entries and its bound.
LEMMA PushKeeps ==
    ASSUME ArrayOK, HistoryOK
    PROVE  shell_push_history \in Seq(Entry) /\ Len(shell_push_history) <= FINSH_HISTORY_LINES
<1>. DEFINE e == [i \in 0 .. FINSH_CMD_SIZE - 1 |-> IF i < line_position THEN line[i] ELSE Nul]
<1>1. e \in Entry
  BY EntrySaved
<1>2. \/ shell_push_history = cmd_history
      \/ Len(cmd_history) >= FINSH_HISTORY_LINES /\ shell_push_history = Append(Tail(cmd_history), e)
      \/ ~(Len(cmd_history) >= FINSH_HISTORY_LINES) /\ shell_push_history = Append(cmd_history, e)
  BY DEF shell_push_history, history_count
<1>. HIDE DEF e
<1>3. /\ cmd_history \in Seq(Entry) /\ Len(cmd_history) <= FINSH_HISTORY_LINES
      /\ FINSH_HISTORY_LINES \in Nat \ {0}
  BY ShellAssumption DEF HistoryOK
<1>. QED BY <1>1, <1>2, <1>3

\* Submitting saves the line and clears it.
LEMMA EnterKeeps ==
    ASSUME ArrayOK, HistoryOK, ~outside, EnterKey
    PROVE  ArrayOK' /\ HistoryOK'
<1>1. cmd_history' \in Seq(Entry) /\ Len(cmd_history') <= FINSH_HISTORY_LINES
  BY PushKeeps DEF EnterKey
<1>2. HistoryOK'
  BY <1>1 DEF EnterKey, HistoryOK
<1>3. /\ line' = Blank /\ line_position' = 0 /\ line_curpos' = 0 /\ wrapped' = FALSE
      /\ outside' = outside
  BY DEF EnterKey
<1>4. \A i \in Place : line'[i] = Nul
  BY <1>3 DEF Blank
<1>5. line' \in [Place -> Plain \cup {Nul}]
  BY <1>3 DEF Blank
<1>6. OverflowBounded'
  BY <1>3, <1>4, SizeFacts DEF OverflowBounded
<1>7. LineIntact'
  BY <1>3, <1>4, SizeFacts DEF LineIntact
<1>8. ArrayOK'
  <2>1. wrapped' \in BOOLEAN /\ outside' \in BOOLEAN
    BY <1>3, Zenon DEF ArrayOK
  <2>2. line_position' \in Place /\ line_curpos' \in 0 .. 2 * FINSH_CMD_SIZE
    BY <1>3, SizeFacts
  <2>. QED BY <2>1, <2>2, <1>5, <1>6, <1>7 DEF ArrayOK
<1>. QED BY <1>2, <1>8

\* A character goes in before the cursor's place; a full line starts again.
LEMMA CharKeeps ==
    ASSUME ArrayOK, HistoryOK, ~outside, NEW c \in Plain, CharKey(c)
    PROVE  ArrayOK' /\ HistoryOK'
<1>. DEFINE p == IF line_position >= FINSH_CMD_SIZE THEN 0 ELSE line_position
            q == line_curpos
            l == IF q < p
                 THEN [i \in Place |-> CASE i = q -> c
                                         [] i > q /\ i <= p -> line[i - 1]
                                         [] OTHER -> line[i]]
                 ELSE [line EXCEPT ![p] = c]
<1>1. HistoryOK'
  BY NoHistoryKeeps DEF CharKey
<1>2. /\ line' = l /\ outside' = outside
      /\ IF p + 1 >= FINSH_CMD_SIZE
         THEN line_position' = 0 /\ line_curpos' = 0 /\ wrapped' = TRUE
         ELSE line_position' = p + 1 /\ line_curpos' = q + 1 /\ wrapped' = wrapped
  BY DEF CharKey
<1>3. /\ line \in [Place -> Plain \cup {Nul}] /\ line[FINSH_CMD_SIZE] = Nul
      /\ \A i \in Place : i < line_position => line[i] # Nul
      /\ line_position \in Place /\ q \in 0 .. 2 * FINSH_CMD_SIZE
      /\ q <= FINSH_CMD_SIZE + line_position
      /\ line_position = FINSH_CMD_SIZE => q <= FINSH_CMD_SIZE
      /\ wrapped \in BOOLEAN /\ outside \in BOOLEAN
  BY DEF ArrayOK, OverflowBounded
<1>4. p \in 0 .. FINSH_CMD_SIZE - 1 /\ p <= line_position /\ q <= FINSH_CMD_SIZE + p
  BY <1>3, SizeFacts
<1>. HIDE DEF p, q
<1>5. ASSUME NEW i \in Place
      PROVE  l[i] = IF q < p THEN IF i = q THEN c ELSE IF i > q /\ i <= p THEN line[i - 1] ELSE line[i]
                    ELSE IF i = p THEN c ELSE line[i]
  BY <1>3, <1>4, <1>5, SizeFacts DEF q
<1>6. l \in [Place -> Plain \cup {Nul}]
  <2>1. ASSUME NEW i \in Place, i > q, i <= p, q < p PROVE line[i - 1] \in Plain \cup {Nul}
    BY <2>1, <1>3, <1>4, SizeFacts
  <2>. QED BY <2>1, <1>3, <1>4, SizeFacts
<1>. HIDE DEF l
<1>7. l[FINSH_CMD_SIZE] = Nul
  BY <1>3, <1>4, <1>5, SizeFacts
<1>8. ASSUME NEW i \in Place, i < p + 1 PROVE l[i] # Nul
  <2>1. CASE i > q /\ i <= p /\ q < p
    <3>1. i - 1 \in Place /\ i - 1 < line_position
      BY <2>1, <1>3, <1>4, <1>8, SizeFacts
    <3>. QED BY <3>1, <2>1, <1>3, <1>5, <1>8, SizeFacts
  <2>2. CASE ~(i > q /\ i <= p /\ q < p)
    BY <2>2, <1>3, <1>4, <1>5, <1>8, SizeFacts
  <2>. QED BY <2>1, <2>2
<1>9. CASE p + 1 >= FINSH_CMD_SIZE
  <2>1. line_position' = 0 /\ line_curpos' = 0 /\ wrapped' = TRUE /\ line' = l /\ outside' = outside
    BY <1>2, <1>9
  <2>2. OverflowBounded' /\ LineIntact'
    <3>1. ~outside'
      BY <2>1
    <3>. QED BY <3>1, <2>1, <1>7, SizeFacts DEF OverflowBounded, LineIntact
  <2>. QED BY <2>1, <2>2, <1>1, <1>3, <1>6, SizeFacts DEF ArrayOK
<1>10. CASE ~(p + 1 >= FINSH_CMD_SIZE)
  <2>1. /\ line_position' = p + 1 /\ line_curpos' = q + 1 /\ wrapped' = wrapped
        /\ line' = l /\ outside' = outside
    BY <1>2, <1>10
  <2>2. OverflowBounded'
    <3>1. ~outside'
      BY <2>1
    <3>. QED BY <3>1, <2>1, <1>3, <1>4, <1>7, <1>8, <1>10, SizeFacts DEF OverflowBounded
  <2>3. ASSUME ~wrapped
        PROVE  /\ ~outside /\ q + 1 <= p + 1
               /\ \A i \in Place : l[i] = Nul <=> i >= p + 1
    <3>1. /\ ~outside /\ q <= line_position /\ line_position < FINSH_CMD_SIZE
          /\ \A i \in Place : line[i] = Nul <=> i >= line_position
      BY <2>3 DEF ArrayOK, LineIntact, q
    <3>2. p = line_position
      BY <3>1, <1>3, SizeFacts DEF p
    <3>3. ASSUME NEW i \in Place, i >= p + 1 PROVE l[i] = Nul
      BY <3>1, <3>2, <3>3, <1>3, <1>4, <1>5, SizeFacts
    <3>. QED BY <3>1, <3>2, <3>3, <1>3, <1>4, <1>8, SizeFacts
  <2>4. LineIntact'
    BY <2>1, <2>3, <1>4, <1>10, SizeFacts DEF LineIntact
  <2>. QED BY <2>1, <2>2, <2>4, <1>1, <1>3, <1>4, <1>6, <1>10, SizeFacts DEF ArrayOK
<1>. QED BY <1>9, <1>10

\* A byte outside a key sequence: only a byte that may be typed goes into the line.
LEMMA OrdinaryKeeps ==
    ASSUME ArrayOK, HistoryOK, ~outside, NEW ch, OrdinaryKey(ch), ch \in Printable => ch \in Plain
    PROVE  ArrayOK' /\ HistoryOK'
<1>1. CASE Unedited /\ NoHistory
  BY <1>1, UneditedKeeps, NoHistoryKeeps
<1>2. CASE TabKey
  BY <1>2, TabKeeps
<1>3. CASE BackspaceKey
  BY <1>3, BackspaceKeeps
<1>4. CASE EnterKey
  BY <1>4, EnterKeeps
<1>5. CASE ch \in Printable /\ CharKey(ch)
  BY <1>5, CharKeeps
<1>. QED BY <1>1, <1>2, <1>3, <1>4, <1>5 DEF OrdinaryKey

-----------------------------------------------------------------------------
(* The loop of finsh_thread_entry.                                         *)

\* The cleared line and the empty history.
LEMMA LineInitial == LineInit => LineInv
<1>. SUFFICES ASSUME LineInit PROVE LineInv
  OBVIOUS
<1>1. \A i \in Place : line[i] = Nul
  BY DEF LineInit, Blank
<1>2. ArrayOK
  BY <1>1, SizeFacts DEF LineInit, Blank, ArrayOK, LineIntact, OverflowBounded
<1>3. HistoryOK
  BY ShellAssumption DEF LineInit, HistoryOK
<1>. QED BY <1>2, <1>3, LineParts DEF LineInit, StatOK

\* A byte that ends a key sequence is consumed: what reaches the line is a byte
\* that may be typed outside one.
LEMMA KeyEffects ==
    ASSUME LineNext
    PROVE  /\ ~outside /\ (StatOK => StatOK')
           /\ \/ Unedited /\ NoHistory
              \/ \E ch : OrdinaryKey(ch) /\ (ch \in Printable => ch \in Plain)
              \/ LeftKey \/ RightKey
              \/ UpKey \/ DownKey
<1>1. ~outside
  BY DEF LineNext
<1>2. PICK ch \in Arriving : EscByte(ch) \/ SpecByte(ch) \/ FuncByte(ch) \/ NormalByte(ch)
  BY DEF LineNext
<1>3. /\ ch \in Printable /\ stat = "WAIT_SPEC_KEY" /\ ch # "[" => ch \in Plain
      /\ ch \in Printable /\ stat = "WAIT_FUNC_KEY" /\ ch \notin {"A", "B", "C", "D"} => ch \in Plain
      /\ ch \in Printable /\ stat = "WAIT_NORMAL" => ch \in Plain
  BY <1>2 DEF Arriving, Printable, Control, Esc, Nul, Tab, Backspace, Enter
<1>4. CASE EscByte(ch)
  BY <1>1, <1>4 DEF EscByte, StatOK
<1>5. CASE SpecByte(ch)
  BY <1>1, <1>3, <1>5 DEF SpecByte, StatOK
<1>6. CASE FuncByte(ch)
  BY <1>1, <1>3, <1>6 DEF FuncByte, StatOK
<1>7. CASE NormalByte(ch)
  BY <1>1, <1>3, <1>7 DEF NormalByte, StatOK
<1>. QED BY <1>2, <1>4, <1>5, <1>6, <1>7

\* One turn of the loop.
LEMMA LineStep == LineInv /\ [LineNext]_linevars => LineInv'
<1>0. LineInv' <=> ArrayOK' /\ HistoryOK' /\ StatOK'
  BY LineParts, PTL
<1>1. SUFFICES ASSUME ArrayOK, HistoryOK, StatOK, [LineNext]_linevars
               PROVE  ArrayOK' /\ HistoryOK' /\ StatOK'
  BY <1>0, LineParts
<1>2. CASE UNCHANGED linevars
  BY <1>1, <1>2, UneditedKeeps, NoHistoryKeeps DEF linevars, Unedited, NoHistory, StatOK
<1>3. CASE LineNext
  <2>1. ~outside /\ StatOK'
    BY <1>1, <1>3, KeyEffects
  <2>2. CASE Unedited /\ NoHistory
    BY <2>1, <2>2, <1>1, UneditedKeeps, NoHistoryKeeps
  <2>3. CASE \E ch : OrdinaryKey(ch) /\ (ch \in Printable => ch \in Plain)
    BY <2>1, <2>3, <1>1, OrdinaryKeeps
  <2>4. CASE LeftKey \/ RightKey
    BY <2>1, <2>4, <1>1, CursorKeeps
  <2>5. CASE UpKey \/ DownKey
    BY <2>1, <2>5, <1>1, RecallKeeps
  <2>. QED BY <2>2, <2>3, <2>4, <2>5, <1>3, KeyEffects
<1>. QED BY <1>1, <1>2, <1>3

\* The invariant holds in every state of the shell.
LEMMA LineInvariant == LineSpec => []LineInv
BY LineInitial, LineStep, PTL DEF LineSpec

\* For every size of the line and of the history and every command table, the
\* line that finsh_thread_entry keeps is exactly its first line_position characters
\* with the cursor inside it, and no access leaves its array, as long as it does not
\* overflow; after an overflow the array still ends in Nul and the cursor is less
\* than a line beyond the length, but a Backspace on the emptied line may reach
\* outside.
THEOREM LineCorrect == LineSpec => []LineSound
<1>1. LineInv => LineSound
  BY DEF LineInv, LineSound
<1>. QED BY <1>1, LineInvariant, PTL

-----------------------------------------------------------------------------
(* The array implements a text with a cursor.                              *)

\* The text and the texts before it, as the refinement mapping reads them.
text == Chars(line, line_position)
past == [i \in DOMAIN cmd_history |-> EntryText(cmd_history[i])]

\* The text has line_position characters.
LEMMA TextIs ==
    ASSUME ArrayOK
    PROVE  /\ text \in Seq(Plain) /\ Len(text) = line_position
           /\ \A i \in 1 .. line_position : text[i] = line[i - 1]
           /\ text = << >> <=> line_position = 0
<1>1. /\ line \in [Place -> Plain \cup {Nul}] /\ line_position \in Nat /\ line_position <= FINSH_CMD_SIZE
      /\ \A i \in Place : i < line_position => line[i] # Nul
  BY SizeFacts DEF ArrayOK, OverflowBounded
<1>2. text = [i \in 1 .. line_position |-> line[i - 1]]
  BY DEF text, Chars
<1>3. \A i \in 1 .. line_position : line[i - 1] \in Plain
  BY <1>1, SizeFacts
<1>4. text \in Seq(Plain) /\ Len(text) = line_position
  BY <1>1, <1>2, <1>3
<1>. QED BY <1>1, <1>2, <1>4

\* While the line has not overflowed, its length is the one strlen finds.
LEMMA LengthIs ==
    ASSUME ArrayOK, ~wrapped
    PROVE  strlen(line) = line_position /\ String(line) = text
<1>1. /\ line_position \in Place
      /\ \A i \in Place : line[i] = Nul <=> i >= line_position
  BY DEF ArrayOK, LineIntact
<1>2. line[line_position] = Nul /\ \A j \in Place : j < line_position => line[j] # Nul
  BY <1>1, SizeFacts
<1>3. strlen(line) = line_position
  BY <1>1, <1>2, StrlenIs
<1>. QED BY <1>3 DEF String, text

\* The array of an entry, ended after it.
Padded(e) == [i \in Place |-> IF i < FINSH_CMD_SIZE THEN e[i] ELSE Nul]

\* The text of an entry has the characters before its first Nul, and no other.
LEMMA PaddedIs ==
    ASSUME NEW e \in Entry
    PROVE  /\ Padded(e) \in [Place -> Plain \cup {Nul}]
           /\ EntryText(e) = String(Padded(e)) /\ Len(EntryText(e)) = strlen(Padded(e))
           /\ strlen(Padded(e)) \in Place
           /\ \A i \in Place : Padded(e)[i] = Nul <=> i >= strlen(Padded(e))
           /\ \A i \in 1 .. strlen(Padded(e)) : EntryText(e)[i] = Padded(e)[i - 1]
<1>. DEFINE l == Padded(e)
            n == strlen(l)
<1>1. l \in [Place -> Plain \cup {Nul}] /\ l[FINSH_CMD_SIZE] = Nul /\ FINSH_CMD_SIZE \in Place
  BY SizeFacts DEF Padded, Entry
<1>2. EntryText(e) = String(l)
  BY DEF EntryText, Padded
<1>3. n \in Place /\ l[n] = Nul /\ \A j \in Place : j < n => l[j] # Nul
  BY <1>1, StrlenFirst
<1>4. \A i \in 0 .. FINSH_CMD_SIZE - 1 : l[i] = e[i]
  BY SizeFacts DEF Padded
<1>. HIDE DEF n, l
<1>5. ASSUME NEW j \in Place, j > n PROVE l[j] = Nul
  <2>1. CASE j = FINSH_CMD_SIZE
    BY <2>1, <1>1
  <2>2. CASE j < FINSH_CMD_SIZE
    <3>1. n \in 0 .. FINSH_CMD_SIZE - 1 /\ j \in 0 .. FINSH_CMD_SIZE - 1
      BY <2>2, <1>3, <1>5, SizeFacts
    <3>2. e[j] = Nul
      BY <3>1, <1>3, <1>4, <1>5 DEF Entry
    <3>. QED BY <3>1, <3>2, <1>4
  <2>. QED BY <2>1, <2>2, SizeFacts
<1>6. \A i \in Place : l[i] = Nul <=> i >= n
  BY <1>3, <1>5, SizeFacts
<1>7. Len(String(l)) = n
  BY <1>1, StringPlain DEF n
<1>8. \A i \in 1 .. n : String(l)[i] = l[i - 1]
  BY DEF String, Chars, n
<1>. QED BY <1>1, <1>2, <1>3, <1>6, <1>7, <1>8 DEF l, n

\* Comparing a saved line with the line over the whole array compares the texts.
LEMMA SameText ==
    ASSUME ArrayOK, ~wrapped, NEW e \in Entry
    PROVE  EntryText(e) = text <=> \A i \in 0 .. FINSH_CMD_SIZE - 1 : e[i] = line[i]
<1>. DEFINE l == Padded(e)
            n == strlen(l)
<1>1. /\ line_position \in Place /\ line \in [Place -> Plain \cup {Nul}]
      /\ \A i \in Place : line[i] = Nul <=> i >= line_position
      /\ line[FINSH_CMD_SIZE] = Nul
  BY DEF ArrayOK, LineIntact, OverflowBounded
<1>2. \A i \in 0 .. FINSH_CMD_SIZE - 1 : l[i] = e[i]
  BY SizeFacts DEF Padded
<1>3. l[FINSH_CMD_SIZE] = Nul /\ l \in [Place -> Plain \cup {Nul}]
  <2>1. l \in [Place -> Plain \cup {Nul}]
    BY PaddedIs
  <2>2. l[FINSH_CMD_SIZE] = Nul
    BY SizeFacts DEF Padded
  <2>. QED BY <2>1, <2>2
<1>4. /\ EntryText(e) = String(l) /\ Len(EntryText(e)) = n /\ n \in Place
      /\ \A i \in Place : l[i] = Nul <=> i >= n
      /\ \A i \in 1 .. n : EntryText(e)[i] = l[i - 1]
  BY PaddedIs
<1>5. String(line) = text
  BY LengthIs
<1>. HIDE DEF n, l
<1>6. ASSUME \A i \in 0 .. FINSH_CMD_SIZE - 1 : e[i] = line[i]
      PROVE  EntryText(e) = text
  <2>1. \A i \in Place : l[i] = line[i]
    BY <1>1, <1>2, <1>3, <1>6, SizeFacts
  <2>2. l = line
    BY <2>1, <1>1, <1>3
  <2>. QED BY <2>2, <1>4, <1>5
<1>7. ASSUME EntryText(e) = text, NEW i \in 0 .. FINSH_CMD_SIZE - 1
      PROVE  e[i] = line[i]
  <2>1. n = line_position
    BY <1>4, <1>7, TextIs
  <2>2. CASE i < n
    <3>1. i + 1 \in 1 .. n /\ i = (i + 1) - 1
      BY <2>2, <1>4, <1>7, SizeFacts
    <3>2. EntryText(e)[i + 1] = l[i] /\ text[i + 1] = line[i]
      BY <3>1, <2>1, <1>4, TextIs
    <3>. QED BY <3>2, <1>2, <1>7
  <2>3. CASE i >= n
    BY <2>1, <2>3, <1>1, <1>2, <1>4, SizeFacts
  <2>. QED BY <2>2, <2>3, <1>4, SizeFacts
<1>. QED BY <1>6, <1>7

\* Sequences as functions of their positions.
LEMMA SeqIs ==
    ASSUME NEW S, NEW s \in Seq(S), NEW n, Len(s) = n
    PROVE  s = [i \in 1 .. n |-> s[i]]
OBVIOUS

\* Append adds a position.
LEMMA AppendIs ==
    ASSUME NEW S, NEW s \in Seq(S), NEW x \in S
    PROVE  Append(s, x) = [i \in 1 .. Len(s) + 1 |-> IF i = Len(s) + 1 THEN x ELSE s[i]]
<1>. DEFINE a == Append(s, x)
<1>1. a \in Seq(S) /\ Len(a) = Len(s) + 1 /\ Len(s) \in Nat
  OBVIOUS
<1>2. \A i \in 1 .. Len(s) + 1 : a[i] = IF i = Len(s) + 1 THEN x ELSE s[i]
  OBVIOUS
<1>. HIDE DEF a
<1>3. a = [i \in 1 .. Len(s) + 1 |-> a[i]]
  BY <1>1, SeqIs
<1>. QED BY <1>2, <1>3 DEF a

\* A full history moves up by one and gains a last entry.
LEMMA RotateIs ==
    ASSUME NEW S, NEW s \in Seq(S), NEW x \in S, Len(s) # 0
    PROVE  /\ Append(Tail(s), x) \in Seq(S) /\ Len(Append(Tail(s), x)) = Len(s)
           /\ Append(Tail(s), x) = [i \in 1 .. Len(s) |-> IF i = Len(s) THEN x ELSE s[i + 1]]
<1>. DEFINE t == Tail(s)
<1>1. t \in Seq(S) /\ Len(t) = Len(s) - 1 /\ \A i \in 1 .. Len(s) - 1 : t[i] = s[i + 1]
  OBVIOUS
<1>2. Len(s) \in Nat \ {0}
  OBVIOUS
<1>. HIDE DEF t
<1>3. Append(t, x) = [i \in 1 .. Len(t) + 1 |-> IF i = Len(t) + 1 THEN x ELSE t[i]]
  BY <1>1, AppendIs
<1>4. Len(t) + 1 = Len(s)
  BY <1>1, <1>2
<1>5. Append(t, x) \in Seq(S) /\ Len(Append(t, x)) = Len(s)
  BY <1>1, <1>4
<1>6. \A i \in 1 .. Len(s) : (IF i = Len(s) THEN x ELSE t[i]) = IF i = Len(s) THEN x ELSE s[i + 1]
  BY <1>1, <1>2
<1>. QED BY <1>3, <1>4, <1>5, <1>6 DEF t

\* What a step of the line is to its user.
Editing == [Editor!Next]_<<text, line_curpos, past, wrapped>>

\* The past is a function of the history.
LEMMA PastKept ==
    ASSUME cmd_history' = cmd_history
    PROVE  past' = past
BY DEF past

\* A byte that changes nothing is no step of the editor.
LEMMA UneditedIs ==
    ASSUME Unedited, NoHistory
    PROVE  Editing
<1>1. past' = past
  BY PastKept DEF NoHistory
<1>2. text' = text
  BY DEF text, Unedited
<1>. QED BY <1>1, <1>2 DEF Editing, Unedited

\* A line that has overflowed promises nothing but the past.
LEMMA LostIs ==
    ASSUME wrapped, wrapped' => cmd_history' = cmd_history
    PROVE  Editing
<1>1. wrapped' => past' = past
  BY PastKept
<1>2. Editor!Unknown
  BY <1>1 DEF Editor!Unknown, past
<1>. QED BY <1>2 DEF Editing, Editor!Next

\* The cursor keys are Move.
LEMMA CursorIs ==
    ASSUME ArrayOK, LeftKey \/ RightKey, ~wrapped
    PROVE  Editing
<1>1. past' = past /\ text' = text /\ wrapped' = wrapped
  BY PastKept DEF LeftKey, RightKey, NoHistory, text
<1>2. Len(text) = line_position /\ line_position \in Nat /\ line_curpos \in 0 .. line_position
  BY TextIs, SizeFacts DEF ArrayOK, LineIntact
<1>3. CASE line_curpos' = line_curpos
  BY <1>1, <1>3 DEF Editing
<1>4. CASE line_curpos' # line_curpos
  <2>1. line_curpos' \in {line_curpos - 1, line_curpos + 1} \cap 0 .. Len(text)
    BY <1>2, <1>4 DEF LeftKey, RightKey
  <2>2. Editor!Move
    BY <2>1, <1>1 DEF Editor!Move, text, past
  <2>. QED BY <2>2 DEF Editing, Editor!Next
<1>. QED BY <1>3, <1>4

\* Showing a history entry is Recall.
LEMMA RecallIs ==
    ASSUME ArrayOK, HistoryOK, NEW h \in 0 .. Len(cmd_history) - 1, ShowHistory(h)
    PROVE  Editing
<1>. DEFINE e == cmd_history[h + 1]
<1>1. e \in Entry /\ h + 1 \in DOMAIN cmd_history /\ h + 1 \in 1 .. Len(cmd_history)
  BY DEF HistoryOK
<1>2. line' = Padded(e)
  <2>1. line' = [i \in Place |-> IF i < FINSH_CMD_SIZE THEN e[i] ELSE line[i]]
    BY DEF ShowHistory
  <2>2. ASSUME NEW i \in Place PROVE i < FINSH_CMD_SIZE \/ line[i] = Nul
    BY SizeFacts DEF ArrayOK, OverflowBounded
  <2>. QED BY <2>1, <2>2 DEF Padded
<1>3. /\ line_position' = strlen(Padded(e)) /\ line_curpos' = strlen(Padded(e))
      /\ wrapped' = (strlen(Padded(e)) >= FINSH_CMD_SIZE)
  BY <1>2 DEF ShowHistory
<1>4. EntryText(e) = String(Padded(e)) /\ Len(EntryText(e)) = strlen(Padded(e))
  BY <1>1, PaddedIs
<1>5. text' = EntryText(e)
  BY <1>2, <1>3, <1>4 DEF text, String
<1>6. past' = past
  BY PastKept DEF ShowHistory
<1>7. past[h + 1] = EntryText(e) /\ Len(past) = Len(cmd_history)
  <2>1. DOMAIN past = 1 .. Len(cmd_history)
    BY DEF past, HistoryOK
  <2>. QED BY <2>1, <1>1 DEF past, HistoryOK
<1>. HIDE DEF e
<1>8. Editor!Show(past[h + 1])
  BY <1>3, <1>4, <1>5, <1>7 DEF Editor!Show, text
<1>9. Editor!Recall
  BY <1>1, <1>6, <1>7, <1>8 DEF Editor!Recall, past
<1>. QED BY <1>9 DEF Editing, Editor!Next

\* Tab is Complete.
LEMMA TabIs ==
    ASSUME ArrayOK, ArrayOK', TabKey, ~wrapped
    PROVE  Editing
<1>. DEFINE done == msh_auto_complete(text)
<1>1. String(line) = text
  BY LengthIs
<1>2. /\ line' = [i \in Place |-> IF i < Len(done) THEN done[i + 1] ELSE line[i]]
      /\ line_curpos' = line_position' /\ wrapped' = wrapped /\ cmd_history' = cmd_history
      /\ line_position' = strlen(line')
  BY <1>1 DEF TabKey, NoHistory
<1>3. /\ line_position \in Place /\ line_position < FINSH_CMD_SIZE
      /\ \A i \in Place : line[i] = Nul <=> i >= line_position
  BY DEF ArrayOK, LineIntact
<1>4. text \in Seq(Plain) /\ Len(text) = line_position
  BY TextIs
<1>5. done = text \/ (done \in Seq(Plain) /\ Len(text) <= Len(done) /\ Len(done) < FINSH_CMD_SIZE)
  BY <1>4, CompletionFits
<1>. HIDE DEF done
<1>6. /\ done \in Seq(Plain) /\ Len(done) \in Place
      /\ line_position <= Len(done) /\ Len(done) < FINSH_CMD_SIZE
  BY <1>3, <1>4, <1>5, SizeFacts
<1>7. \A i \in Place : i < Len(done) => line'[i] = done[i + 1] /\ line'[i] # Nul
  BY <1>2, <1>6, SizeFacts
<1>8. line'[Len(done)] = Nul
  BY <1>2, <1>3, <1>6, SizeFacts
<1>9. line_position' = Len(done)
  BY <1>2, <1>6, <1>7, <1>8, StrlenIs
<1>10. text' = done
  <2>1. text' = [i \in 1 .. Len(done) |-> line'[i - 1]]
    BY <1>9 DEF text, Chars
  <2>2. ASSUME NEW i \in 1 .. Len(done) PROVE line'[i - 1] = done[i]
    <3>1. i - 1 \in Place /\ i - 1 < Len(done) /\ (i - 1) + 1 = i
      BY <1>6, <2>2, SizeFacts
    <3>. QED BY <3>1, <1>7
  <2>. QED BY <2>1, <2>2, <1>6
<1>11. wrapped' = (Len(done) >= FINSH_CMD_SIZE)
  <2>1. (Len(done) >= FINSH_CMD_SIZE) = FALSE
    BY <1>6, SizeFacts
  <2>2. wrapped' = FALSE
    BY <1>2, Zenon DEF ArrayOK
  <2>. QED BY <2>1, <2>2, Zenon
<1>12. Editor!Show(done)
  BY <1>2, <1>9, <1>10, <1>11 DEF Editor!Show, text
<1>13. past' = past
  BY <1>2, PastKept
<1>14. Editor!Complete
  BY <1>12, <1>13 DEF Editor!Complete, done, text, past
<1>. QED BY <1>14 DEF Editing, Editor!Next

\* Backspace is Erase: closing the gap in the array removes one character of the text.
LEMMA EraseIs ==
    ASSUME ArrayOK, BackspaceKey, ~wrapped
    PROVE  Editing
<1>1. past' = past /\ wrapped' = wrapped
  BY PastKept DEF BackspaceKey, NoHistory
<1>2. CASE line_curpos = 0
  BY <1>1, <1>2 DEF BackspaceKey, Unedited, Editing, text
<1>3. CASE line_curpos # 0
  <2>. DEFINE q == line_curpos
              p == line_position
  <2>1. /\ p \in Place /\ q \in 1 .. p /\ p < FINSH_CMD_SIZE
        /\ line \in [Place -> Plain \cup {Nul}]
    BY <1>3, SizeFacts DEF ArrayOK, LineIntact
  <2>2. line_position' = p - 1 /\ line_curpos' = q - 1
    BY <2>1, <1>3, SizeFacts DEF BackspaceKey
  <2>3. line' = [i \in Place |-> CASE i = p - 1 -> Nul
                                   [] i >= q - 1 /\ i < p - 1 -> line[i + 1]
                                   [] OTHER -> line[i]]
    BY <2>1, <2>2, <1>3, SizeFacts DEF BackspaceKey
  <2>4. \A i \in Place : i < p - 1 => line'[i] = IF i >= q - 1 THEN line[i + 1] ELSE line[i]
    BY <2>1, <2>3, SizeFacts
  <2>5. text \in Seq(Plain) /\ Len(text) = p /\ \A i \in 1 .. p : text[i] = line[i - 1]
    BY TextIs
  <2>6. text' = [i \in 1 .. p - 1 |-> line'[i - 1]]
    BY <2>2 DEF text, Chars
  <2>. HIDE DEF p, q
  <2>7. text' = [i \in 1 .. p - 1 |-> IF i < q THEN text[i] ELSE text[i + 1]]
    <3>1. ASSUME NEW i \in 1 .. p - 1
          PROVE  line'[i - 1] = IF i < q THEN text[i] ELSE text[i + 1]
      <4>1. i - 1 \in Place /\ i - 1 < p - 1 /\ (i - 1) + 1 = i /\ (i + 1) - 1 = i
        BY <2>1, <3>1, SizeFacts
      <4>2. text[i] = line[i - 1] /\ text[i + 1] = line[i]
        BY <4>1, <3>1, <2>1, <2>5, SizeFacts
      <4>3. line'[i - 1] = IF i - 1 >= q - 1 THEN line[i] ELSE line[i - 1]
        BY <4>1, <2>4
      <4>. QED BY <4>2, <4>3, <3>1, <2>1, SizeFacts
    <3>. QED BY <3>1, <2>6
  <2>8. Editor!RemoveAt(text, q) = [i \in 1 .. p - 1 |-> IF i < q THEN text[i] ELSE text[i + 1]]
    <3>. DEFINE r == SubSeq(text, 1, q - 1)
                t == SubSeq(text, q + 1, p)
    <3>1. r \in Seq(Plain) /\ Len(r) = q - 1 /\ \A i \in 1 .. q - 1 : r[i] = text[i]
      BY <2>1, <2>5, SizeFacts
    <3>2. t \in Seq(Plain) /\ Len(t) = p - q /\ \A i \in 1 .. p - q : t[i] = text[q + i]
      BY <2>1, <2>5, SizeFacts
    <3>3. Editor!RemoveAt(text, q) = r \o t
      BY <2>5 DEF Editor!RemoveAt
    <3>. HIDE DEF r, t
    <3>4. Len(r \o t) = p - 1 /\ r \o t \in Seq(Plain)
      <4>1. Len(r \o t) = Len(r) + Len(t) /\ r \o t \in Seq(Plain)
        BY <3>1, <3>2
      <4>. QED BY <4>1, <3>1, <3>2, <2>1, SizeFacts
    <3>5. ASSUME NEW i \in 1 .. p - 1
          PROVE  (r \o t)[i] = IF i < q THEN text[i] ELSE text[i + 1]
      <4>1. CASE i < q
        BY <4>1, <3>1, <3>2, <2>1, <3>5, SizeFacts
      <4>2. CASE ~(i < q)
        <5>1. i - (q - 1) \in 1 .. p - q /\ q + (i - (q - 1)) = i + 1
          BY <4>2, <2>1, <3>5, SizeFacts
        <5>2. (r \o t)[i] = t[i - (q - 1)]
          BY <4>2, <5>1, <3>1, <3>2, <2>1, <3>5, SizeFacts
        <5>3. t[i - (q - 1)] = text[i + 1]
          BY <5>1, <3>2
        <5>. QED BY <5>2, <5>3, <4>2
      <4>. QED BY <4>1, <4>2
    <3>6. r \o t = [i \in 1 .. p - 1 |-> (r \o t)[i]]
      BY <3>4, SeqIs
    <3>. QED BY <3>3, <3>5, <3>6
  <2>9. Editor!Erase
    BY <2>1, <2>2, <2>7, <2>8, <1>1, SizeFacts DEF Editor!Erase, text, past, q
  <2>. QED BY <2>9 DEF Editing, Editor!Next
<1>. QED BY <1>2, <1>3

\* A character is Insert: making room in the array inserts one into the text.
LEMMA InsertIs ==
    ASSUME ArrayOK, NEW c \in Plain, CharKey(c), ~wrapped
    PROVE  Editing
<1>. DEFINE q == line_curpos
            p == line_position
<1>1. past' = past
  BY PastKept DEF CharKey, NoHistory
<1>2. /\ p \in Place /\ q \in 0 .. p /\ p < FINSH_CMD_SIZE
      /\ line \in [Place -> Plain \cup {Nul}]
  BY SizeFacts DEF ArrayOK, LineIntact
<1>3. text \in Seq(Plain) /\ Len(text) = p /\ \A i \in 1 .. p : text[i] = line[i - 1]
  BY TextIs
<1>4. /\ line' = IF q < p
                 THEN [i \in Place |-> CASE i = q -> c
                                         [] i > q /\ i <= p -> line[i - 1]
                                         [] OTHER -> line[i]]
                 ELSE [line EXCEPT ![p] = c]
      /\ IF p + 1 >= FINSH_CMD_SIZE
         THEN line_position' = 0 /\ line_curpos' = 0 /\ wrapped' = TRUE
         ELSE line_position' = p + 1 /\ line_curpos' = q + 1 /\ wrapped' = wrapped
  <2>1. ~(p >= FINSH_CMD_SIZE)
    BY <1>2, SizeFacts
  <2>. QED BY <2>1 DEF CharKey
<1>5. CASE p + 1 >= FINSH_CMD_SIZE
  <2>1. ~(Len(text) + 1 < FINSH_CMD_SIZE)
    BY <1>2, <1>3, <1>5, SizeFacts
  <2>2. line_position' = 0 /\ line_curpos' = 0 /\ wrapped' = TRUE
    BY <1>4, <1>5
  <2>3. text' = << >>
    BY <2>2 DEF text, Chars
  <2>4. Editor!Insert
    BY <2>1, <2>2, <2>3, <1>1 DEF Editor!Insert, text, past
  <2>. QED BY <2>4 DEF Editing, Editor!Next
<1>6. CASE ~(p + 1 >= FINSH_CMD_SIZE)
  <2>1. Len(text) + 1 < FINSH_CMD_SIZE
    BY <1>2, <1>3, <1>6, SizeFacts
  <2>2. line_position' = p + 1 /\ line_curpos' = q + 1 /\ wrapped' = wrapped
    BY <1>4, <1>6
  <2>. HIDE DEF p, q
  <2>3. ASSUME NEW i \in Place, i <= p
        PROVE  line'[i] = IF i = q THEN c ELSE IF i > q THEN line[i - 1] ELSE line[i]
    BY <2>3, <1>2, <1>4, SizeFacts
  <2>. DEFINE w == [i \in 1 .. p + 1 |-> IF i = q + 1 THEN c ELSE IF i > q + 1 THEN text[i - 1] ELSE text[i]]
  <2>4. text' = w
    <3>1. text' = [i \in 1 .. p + 1 |-> line'[i - 1]]
      BY <2>2 DEF text, Chars
    <3>2. ASSUME NEW i \in 1 .. p + 1
          PROVE  line'[i - 1] = IF i = q + 1 THEN c ELSE IF i > q + 1 THEN text[i - 1] ELSE text[i]
      <4>1. i - 1 \in Place /\ i - 1 <= p
        BY <3>2, <1>2, SizeFacts
      <4>2. line'[i - 1] = IF i - 1 = q THEN c ELSE IF i - 1 > q THEN line[(i - 1) - 1] ELSE line[i - 1]
        BY <4>1, <2>3
      <4>3. i > q + 1 => text[i - 1] = line[(i - 1) - 1]
        BY <3>2, <1>2, <1>3, SizeFacts
      <4>4. i < q + 1 => text[i] = line[i - 1]
        BY <3>2, <1>2, <1>3, SizeFacts
      <4>. QED BY <4>2, <4>3, <4>4, <3>2, <1>2, SizeFacts
    <3>. QED BY <3>1, <3>2
  <2>5. Editor!InsertAt(text, q + 1, c) = w
    <3>. DEFINE r == SubSeq(text, 1, q)
                t == SubSeq(text, q + 1, p)
                rc == Append(r, c)
    <3>1. r \in Seq(Plain) /\ Len(r) = q /\ \A i \in 1 .. q : r[i] = text[i]
      BY <1>2, <1>3, SizeFacts
    <3>2. t \in Seq(Plain) /\ Len(t) = p - q /\ \A i \in 1 .. p - q : t[i] = text[q + i]
      BY <1>2, <1>3, SizeFacts
    <3>3. Editor!InsertAt(text, q + 1, c) = (r \o <<c>>) \o t
      <4>1. (q + 1) - 1 = q
        BY <1>2, SizeFacts
      <4>. QED BY <4>1, <1>3 DEF Editor!InsertAt
    <3>. HIDE DEF r, t
    <3>4. r \o <<c>> = rc
      BY <3>1
    <3>5. rc \in Seq(Plain) /\ Len(rc) = q + 1 /\ rc[q + 1] = c /\ \A i \in 1 .. q : rc[i] = text[i]
      BY <3>1, <1>2, SizeFacts
    <3>. HIDE DEF rc
    <3>6. Len(rc \o t) = p + 1 /\ rc \o t \in Seq(Plain)
      <4>1. Len(rc \o t) = Len(rc) + Len(t) /\ rc \o t \in Seq(Plain)
        BY <3>2, <3>5
      <4>. QED BY <4>1, <3>2, <3>5, <1>2, SizeFacts
    <3>7. ASSUME NEW i \in 1 .. p + 1
          PROVE  (rc \o t)[i] = IF i = q + 1 THEN c ELSE IF i > q + 1 THEN text[i - 1] ELSE text[i]
      <4>1. CASE i <= q + 1
        BY <4>1, <3>2, <3>5, <3>7, <1>2, SizeFacts
      <4>2. CASE i > q + 1
        <5>1. i - (q + 1) \in 1 .. p - q /\ q + (i - (q + 1)) = i - 1
          BY <4>2, <1>2, <3>7, SizeFacts
        <5>2. (rc \o t)[i] = t[i - (q + 1)]
          BY <4>2, <5>1, <3>5, <3>2, <1>2, <3>7, SizeFacts
        <5>3. t[i - (q + 1)] = text[i - 1]
          BY <5>1, <3>2
        <5>. QED BY <5>2, <5>3, <4>2, <1>2, <3>7, SizeFacts
      <4>3. i <= q + 1 \/ i > q + 1
        BY <1>2, <3>7, SizeFacts
      <4>. QED BY <4>1, <4>2, <4>3
    <3>8. rc \o t = [i \in 1 .. p + 1 |-> (rc \o t)[i]]
      BY <3>6, SeqIs
    <3>. QED BY <3>3, <3>4, <3>7, <3>8
  <2>. HIDE DEF w
  <2>6. Editor!Insert
    BY <2>1, <2>2, <2>4, <2>5, <1>1 DEF Editor!Insert, text, past, q
  <2>. QED BY <2>6 DEF Editing, Editor!Next
<1>. QED BY <1>5, <1>6

\* Submitting appends the text; a repeated one is not added again.
LEMMA SubmitIs ==
    ASSUME ArrayOK, HistoryOK, EnterKey, ~wrapped
    PROVE  Editing
<1>. DEFINE e == [i \in 0 .. FINSH_CMD_SIZE - 1 |-> IF i < line_position THEN line[i] ELSE Nul]
            same == Len(cmd_history) # 0
                      /\ \A i \in 0 .. FINSH_CMD_SIZE - 1 : Last(cmd_history)[i] = line[i]
            double == past # << >> /\ Editor!Last(past) = text
            n == Len(cmd_history)
<1>1. /\ cmd_history \in Seq(Entry) /\ n \in Nat /\ n <= FINSH_HISTORY_LINES
      /\ FINSH_HISTORY_LINES \in Nat \ {0}
      /\ DOMAIN cmd_history = 1 .. n
  BY ShellAssumption DEF HistoryOK
<1>2. past = [i \in 1 .. n |-> EntryText(cmd_history[i])]
  BY <1>1 DEF past
<1>3. past \in Seq({EntryText(x) : x \in Entry}) /\ Len(past) = n /\ (past = << >> <=> n = 0)
  <2>1. \A i \in 1 .. n : EntryText(cmd_history[i]) \in {EntryText(x) : x \in Entry}
    BY <1>1
  <2>. QED BY <2>1, <1>1, <1>2
<1>4. e \in Entry
  BY EntrySaved
<1>5. EntryText(e) = text
  <2>1. \A i \in 0 .. FINSH_CMD_SIZE - 1 : e[i] = line[i]
    BY SizeFacts DEF ArrayOK, LineIntact
  <2>. HIDE DEF e
  <2>. QED BY <2>1, <1>4, SameText
<1>6. same <=> double
  <2>1. CASE n = 0
    BY <2>1, <1>3
  <2>2. CASE n # 0
    <3>1. Last(cmd_history) = cmd_history[n] /\ cmd_history[n] \in Entry
      BY <2>2, <1>1 DEF Last
    <3>2. Editor!Last(past) = EntryText(cmd_history[n])
      BY <2>2, <1>1, <1>2, <1>3 DEF Editor!Last
    <3>3. EntryText(cmd_history[n]) = text
             <=> \A i \in 0 .. FINSH_CMD_SIZE - 1 : cmd_history[n][i] = line[i]
      BY <3>1, SameText
    <3>4. same <=> \A i \in 0 .. FINSH_CMD_SIZE - 1 : cmd_history[n][i] = line[i]
      BY <2>2, <3>1
    <3>5. double <=> Editor!Last(past) = text
      BY <2>2, <1>3
    <3>. QED BY <3>2, <3>3, <3>4, <3>5
  <2>. QED BY <2>1, <2>2
<1>7. cmd_history' = IF line_position = 0 \/ same THEN cmd_history
                     ELSE IF n >= FINSH_HISTORY_LINES THEN Append(Tail(cmd_history), e)
                     ELSE Append(cmd_history, e)
  BY DEF EnterKey, shell_push_history, history_count
<1>8. line_position = 0 <=> text = << >>
  BY TextIs
<1>. HIDE DEF e, same, double, n
<1>9. past' = IF text = << >> \/ double THEN past
              ELSE IF Len(past) < FINSH_HISTORY_LINES THEN Append(past, text)
              ELSE Append(Tail(past), text)
  <2>1. CASE text = << >> \/ double
    BY <2>1, <1>6, <1>7, <1>8, PastKept
  <2>2. CASE ~(text = << >> \/ double) /\ n < FINSH_HISTORY_LINES
    <3>1. cmd_history' = Append(cmd_history, e)
      BY <2>2, <1>1, <1>6, <1>7, <1>8
    <3>2. past' = [i \in 1 .. n + 1 |-> EntryText(Append(cmd_history, e)[i])]
      BY <3>1, <1>1, <1>4 DEF past, n
    <3>3. Append(past, text) = [i \in 1 .. n + 1 |-> IF i = n + 1 THEN text ELSE past[i]]
      BY <1>3, <1>4, <1>5, AppendIs
    <3>4. \A i \in 1 .. n + 1 : EntryText(Append(cmd_history, e)[i]) = IF i = n + 1 THEN text ELSE past[i]
      BY <1>1, <1>2, <1>4, <1>5 DEF n
    <3>5. past' = Append(past, text)
      BY <3>2, <3>3, <3>4
    <3>6. Len(past) < FINSH_HISTORY_LINES
      BY <2>2, <1>3
    <3>. QED BY <3>5, <3>6, <2>2, Zenon
  <2>3. CASE ~(text = << >> \/ double) /\ ~(n < FINSH_HISTORY_LINES)
    <3>0. n \in Nat \ {0} /\ n >= FINSH_HISTORY_LINES
      BY <2>3, <1>1
    <3>1. cmd_history' = Append(Tail(cmd_history), e)
      BY <3>0, <2>3, <1>6, <1>7, <1>8
    <3>. DEFINE g == Append(Tail(cmd_history), e)
    <3>2. /\ g \in Seq(Entry) /\ Len(g) = n
          /\ \A i \in 1 .. n : g[i] = IF i = n THEN e ELSE cmd_history[i + 1]
      <4>1. /\ g \in Seq(Entry) /\ Len(g) = n
            /\ g = [i \in 1 .. n |-> IF i = n THEN e ELSE cmd_history[i + 1]]
        <5>1. Len(cmd_history) = n
          BY DEF n
        <5>. QED BY <5>1, <3>0, <1>1, <1>4, RotateIs
      <4>. QED BY <4>1
    <3>. HIDE DEF g
    <3>3. past' = [i \in 1 .. n |-> EntryText(g[i])]
      BY <3>1, <3>2 DEF past, g
    <3>. DEFINE f == Append(Tail(past), text)
    <3>4. f = [i \in 1 .. n |-> IF i = n THEN text ELSE past[i + 1]]
      BY <3>0, <1>3, <1>4, <1>5, RotateIs
    <3>5. \A i \in 1 .. n : EntryText(g[i]) = IF i = n THEN text ELSE past[i + 1]
      BY <3>0, <3>2, <1>2, <1>5
    <3>. HIDE DEF f
    <3>6. past' = f
      BY <3>3, <3>4, <3>5
    <3>7. ~(Len(past) < FINSH_HISTORY_LINES)
      BY <2>3, <1>3
    <3>. QED BY <3>6, <3>7, <2>3, Zenon DEF f
  <2>. QED BY <2>1, <2>2, <2>3
<1>10. text' = << >> /\ line_curpos' = 0 /\ wrapped' = FALSE
  BY DEF EnterKey, text, Chars
<1>11. Editor!Show(<< >>)
  <2>1. Len(<< >>) = 0 /\ (Len(<< >>) >= FINSH_CMD_SIZE) = FALSE
    BY SizeFacts
  <2>2. wrapped' = (Len(<< >>) >= FINSH_CMD_SIZE)
    BY <2>1, <1>10, Zenon
  <2>. QED BY <2>1, <2>2, <1>10 DEF Editor!Show, text
<1>12. Editor!Submit
  BY <1>9, <1>11 DEF Editor!Submit, text, past, double
<1>. QED BY <1>12 DEF Editing, Editor!Next

\* A byte outside a key sequence.
LEMMA OrdinaryIs ==
    ASSUME ArrayOK, HistoryOK, ArrayOK', NEW ch, OrdinaryKey(ch), ch \in Printable => ch \in Plain
    PROVE  Editing
<1>1. CASE Unedited /\ NoHistory
  BY <1>1, UneditedIs
<1>2. CASE wrapped /\ (TabKey \/ BackspaceKey \/ EnterKey \/ CharKey(ch))
  <2>1. wrapped' => cmd_history' = cmd_history
    BY <1>2 DEF TabKey, BackspaceKey, EnterKey, CharKey, NoHistory
  <2>. QED BY <2>1, <1>2, LostIs
<1>3. CASE ~wrapped /\ TabKey
  BY <1>3, TabIs
<1>4. CASE ~wrapped /\ BackspaceKey
  BY <1>4, EraseIs
<1>5. CASE ~wrapped /\ EnterKey
  BY <1>5, SubmitIs
<1>6. CASE ~wrapped /\ ch \in Printable /\ CharKey(ch)
  BY <1>6, InsertIs
<1>. QED BY <1>1, <1>2, <1>3, <1>4, <1>5, <1>6 DEF OrdinaryKey

\* Every turn of the loop is a step of the editor, or none.
LEMMA EditingStep == LineInv /\ LineInv' /\ [LineNext]_linevars => Editing
<1>0. LineInv' => ArrayOK'
  BY LineParts, PTL
<1>1. SUFFICES ASSUME ArrayOK, HistoryOK, ArrayOK', StatOK, [LineNext]_linevars
               PROVE  Editing
  BY <1>0, LineParts
<1>2. CASE UNCHANGED linevars
  BY <1>2, UneditedIs DEF linevars, Unedited, NoHistory
<1>3. CASE LineNext
  <2>1. CASE Unedited /\ NoHistory
    BY <2>1, UneditedIs
  <2>2. CASE \E ch : OrdinaryKey(ch) /\ (ch \in Printable => ch \in Plain)
    BY <2>2, <1>1, OrdinaryIs
  <2>3. CASE wrapped /\ (LeftKey \/ RightKey)
    BY <2>3, LostIs DEF LeftKey, RightKey, NoHistory
  <2>4. CASE ~wrapped /\ (LeftKey \/ RightKey)
    BY <2>4, <1>1, CursorIs
  <2>5. CASE UpKey \/ DownKey
    <3>1. CASE \E h \in 0 .. Len(cmd_history) - 1 : ShowHistory(h)
      BY <3>1, <1>1, RecallIs
    <3>. QED BY <3>1, <2>1, <2>5, <1>1, RecallShows
  <2>. QED BY <2>1, <2>2, <2>3, <2>4, <2>5, <1>3, KeyEffects
<1>. QED BY <1>1, <1>2, <1>3

\* The cleared line is the empty text.
LEMMA EditingInit == LineInit => Editor!Init
<1>. SUFFICES ASSUME LineInit PROVE Editor!Init
  OBVIOUS
<1>1. Chars(line, line_position) = << >>
  BY DEF LineInit, Chars
<1>2. [i \in DOMAIN cmd_history |-> EntryText(cmd_history[i])] = << >>
  BY DEF LineInit
<1>. QED BY <1>1, <1>2 DEF Editor!Init, LineInit

\* For every size of the line and of the history and every command table, the
\* array, its two positions and the history table that finsh_thread_entry keeps
\* behave as a text with a cursor and a list of the texts submitted last, as long
\* as no line is too long for the array.
THEOREM EditorImplemented == LineSpec => ImplementsEditor
<1>1. LineInv /\ LineInv' /\ [LineNext]_linevars
        => [Editor!Next]_<<Chars(line, line_position), line_curpos,
                           [i \in DOMAIN cmd_history |-> EntryText(cmd_history[i])], wrapped>>
  BY EditingStep DEF Editing, text, past
<1>. QED BY <1>1, EditingInit, LineInvariant, PTL DEF LineSpec, ImplementsEditor, Editor!Spec
=============================================================================
