----------------------------- MODULE MonitorProofs -----------------------------
(***************************************************************************)
(* The cursor of the console never leaves the screen, and printing loses   *)
(* no text but what scrolls off, however large the screen and tabs are.    *)
(***************************************************************************)
EXTENDS Monitor, TLAPS

\* CursorOnScreen, with the types the arithmetic needs.
CursorInv ==
    /\ cursor_x \in 0 .. (COLS - 1)
    /\ cursor_y \in 0 .. (ROWS - 1)
    /\ position \in Nat
    /\ online \in BOOLEAN
    /\ online => position = Here

\* Where the last tab of a row leads is a number of columns.
LEMMA TabColumn ==
    ASSUME NEW x \in Nat
    PROVE  ((x + TAB) \div TAB) * TAB \in Nat
<1>1. TAB \in Nat /\ TAB > 0
  BY ScreenAssumption
<1>2. x + TAB \in Nat
  BY <1>1
<1> DEFINE q == (x + TAB) \div TAB
<1>3. q \in Nat
  BY <1>1, <1>2, SMTT(30)
<1> HIDE DEF q
<1>4. q * TAB \in Nat
  BY <1>1, <1>3
<1>5. QED
  BY <1>4 DEF q

\* scroll() leaves a cursor that is in some column of whatever row on the screen.
LEMMA ScrollClamps ==
    ASSUME NEW x \in 0 .. (COLS - 1), NEW y \in Nat, NEW video,
           Scroll(x, y, video), online' \in BOOLEAN
    PROVE  CursorInv'
<1>1. COLS \in Nat /\ ROWS \in Nat /\ COLS > 0 /\ ROWS > 0
  BY ScreenAssumption
<1> DEFINE row == IF y >= ROWS THEN ROWS - 1 ELSE y
<1>2. row \in 0 .. (ROWS - 1)
  BY <1>1
<1>3. cursor_x' = x /\ cursor_y' = row /\ position' = row * COLS + x
  BY DEF Scroll
<1> HIDE DEF row
<1>4. row * COLS \in Nat /\ row * COLS = COLS * row
  BY <1>1, <1>2
<1>5. position' = Here' /\ position' \in Nat
  BY <1>1, <1>3, <1>4 DEF Here
<1>6. QED
  BY <1>2, <1>3, <1>5 DEF CursorInv

\* What monitor_init() reads from the hardware is a position.
LEMMA PositionReadNat ==
    ASSUME position \in Nat
    PROVE  PositionRead \in Nat /\ PositionRead \div COLS + 1 \in Nat
<1>1. BYTE \in Nat /\ BYTE > 0 /\ COLS \in Nat /\ COLS > 0
  BY ScreenAssumption
<1>2. position % BYTE \in Nat /\ position \div BYTE \in Nat
  BY <1>1, SMTT(30)
<1> DEFINE low == position % BYTE
<1>3. low * BYTE \in Nat
  <2> HIDE DEF low
  <2>1. low \in Nat
    BY <1>2 DEF low
  <2>2. QED
    BY <1>1, <2>1
<1>4. PositionRead \in Nat
  <2> DEFINE a == low * BYTE
             b == position \div BYTE
  <2>1. PositionRead = a + b
    BY DEF PositionRead
  <2>2. a \in Nat /\ b \in Nat
    BY <1>2, <1>3
  <2> HIDE DEF a, b
  <2>3. QED
    BY <2>1, <2>2
<1>5. PositionRead \div COLS \in Nat
  <2> DEFINE p == PositionRead
  <2>1. p \in Nat
    BY <1>4
  <2> HIDE DEF p
  <2>2. p \div COLS \in Nat
    BY <1>1, <2>1, SMTT(30)
  <2>3. QED
    BY <2>2 DEF p
<1>6. QED
  BY <1>4, <1>5

\* monitor_put() of any character: a column that is not on the screen becomes
\* the first of the next row before scroll() looks at the row.
LEMMA PutKeepsCursor ==
    ASSUME CursorInv, NEW c \in Glyphs \cup Controls, MonitorPut(c)
    PROVE  CursorInv'
<1>1. COLS \in Nat /\ ROWS \in Nat /\ COLS > 0 /\ ROWS > 0
  BY ScreenAssumption
<1>2. cursor_x \in Nat /\ cursor_y \in Nat
  BY <1>1 DEF CursorInv
<1>3. Row(c) \in Nat
  BY <1>2 DEF Row
<1>4. Column(c) \in Nat
  <2>1. ((cursor_x + TAB) \div TAB) * TAB \in Nat
    BY <1>2, TabColumn
  <2> DEFINE stop == ((cursor_x + TAB) \div TAB) * TAB
  <2>2. \/ Column(c) \in {cursor_x + 1, stop, 0, cursor_x}
        \/ cursor_x # 0 /\ Column(c) = cursor_x - 1
    <3>1. CASE c \in Glyphs
      BY <3>1, ScreenAssumption DEF Column, Controls
    <3>2. CASE c = "backspace"
      BY <3>2, ScreenAssumption DEF Column, Controls
    <3>3. CASE c = "tab"
      BY <3>3, ScreenAssumption DEF Column, Controls
    <3>4. CASE c \in {"return", "newline"}
      BY <3>4, ScreenAssumption DEF Column, Controls
    <3>5. CASE c = "other"
      BY <3>5, ScreenAssumption DEF Column, Controls
    <3>6. QED
      BY <3>1, <3>2, <3>3, <3>4, <3>5 DEF Controls
  <2>3. stop \in Nat
    BY <2>1
  <2> HIDE DEF stop
  <2>4. QED
    BY <1>2, <2>2, <2>3
<1>5. online' \in BOOLEAN
  BY DEF MonitorPut, CursorInv
<1>6. CASE Column(c) >= COLS
  <2>1. Scroll(0, Row(c) + 1, Printed(c))
    BY <1>6 DEF MonitorPut
  <2>2. 0 \in 0 .. (COLS - 1) /\ Row(c) + 1 \in Nat
    BY <1>1, <1>3
  <2>3. QED
    BY <1>5, <2>1, <2>2, ScrollClamps
<1>7. CASE ~ (Column(c) >= COLS)
  <2>1. Scroll(Column(c), Row(c), Printed(c))
    BY <1>7 DEF MonitorPut
  <2>2. Column(c) \in 0 .. (COLS - 1)
    BY <1>1, <1>4, <1>7
  <2>3. QED
    BY <1>3, <1>5, <2>1, <2>2, ScrollClamps
<1>8. QED
  BY <1>6, <1>7

LEMMA StartsOnScreen == Init => CursorInv
<1>1. SUFFICES ASSUME Init PROVE CursorInv
  OBVIOUS
<1>2. COLS \in Nat /\ ROWS \in Nat /\ COLS > 0 /\ ROWS > 0
  BY ScreenAssumption
<1>3. position \in Nat
  BY <1>1 DEF Init, Cells
<1>4. cursor_x \in 0 .. (COLS - 1) /\ cursor_y \in 0 .. (ROWS - 1)
  BY <1>1, <1>2 DEF Init
<1>5. online = FALSE
  BY <1>1 DEF Init
<1>6. QED
  BY <1>3, <1>4, <1>5, Zenon DEF CursorInv

LEMMA CursorKept == CursorInv /\ [Next]_vars => CursorInv'
<1>1. SUFFICES ASSUME CursorInv, [Next]_vars PROVE CursorInv'
  OBVIOUS
<1>2. COLS \in Nat /\ ROWS \in Nat /\ COLS > 0 /\ ROWS > 0
  BY ScreenAssumption
<1>3. CASE MonitorInit
  <2>1. 0 \in 0 .. (COLS - 1) /\ PositionRead \div COLS + 1 \in Nat
    BY <1>1, <1>2, PositionReadNat DEF CursorInv
  <2>2. Scroll(0, PositionRead \div COLS + 1, video_memory) /\ online' \in BOOLEAN
    BY <1>3 DEF MonitorInit
  <2>3. QED
    BY <2>1, <2>2, ScrollClamps
<1>4. CASE MonitorClear
  <2>1. cursor_x' = 0 /\ cursor_y' = 0 /\ position' = 0 /\ online' = online
    BY <1>4 DEF MonitorClear
  <2>2. Here' = 0
    BY <1>2, <2>1 DEF Here
  <2>3. QED
    BY <1>1, <1>2, <2>1, <2>2 DEF CursorInv
<1>5. ASSUME NEW c \in Glyphs \cup Controls, MonitorPut(c)
      PROVE  CursorInv'
  BY <1>1, <1>5, PutKeepsCursor
<1>6. CASE UNCHANGED vars
  BY <1>1, <1>6 DEF vars, CursorInv, Here
<1>7. QED
  BY <1>1, <1>3, <1>4, <1>5, <1>6 DEF Next

(***************************************************************************)
(* The cursor stays on the screen: monitor_put() stores no character       *)
(* outside of the video memory.                                            *)
(***************************************************************************)
THEOREM CursorStaysOnScreen == Spec => []CursorOnScreen
<1>1. CursorInv => CursorOnScreen
  <2>1. COLS \in Nat /\ ROWS \in Nat
    BY ScreenAssumption
  <2>2. QED
    BY <2>1 DEF CursorInv, CursorOnScreen
<1>2. QED
  BY <1>1, StartsOnScreen, CursorKept, PTL DEF Spec

-----------------------------------------------------------------------------
(***************************************************************************)
(* What printing does to the text.                                         *)
(***************************************************************************)
ScreenInv == CursorInv /\ DOMAIN video_memory = Cells

\* The cells as scroll() leaves them: those it was given, or all one row up.
Scrolled(video, y) ==
    IF y < ROWS THEN video
    ELSE [i \in Cells |-> IF i < COLS * (ROWS - 1) THEN video[i + COLS] ELSE "blank"]

LEMMA CellsStay ==
    ASSUME NEW video, NEW y, DOMAIN video = Cells
    PROVE  DOMAIN Scrolled(video, y) = Cells
BY DEF Scrolled

LEMMA PrintedElsewhere ==
    ASSUME DOMAIN video_memory = Cells, NEW c
    PROVE  /\ DOMAIN Printed(c) = Cells
           /\ \A i \in Cells : i # Here => Printed(c)[i] = video_memory[i]
BY DEF Printed

\* The rows of the screen end where the memory does: the cell a row further
\* down is there but for the last row.
LEMMA RowBelow ==
    ASSUME NEW i \in Cells
    PROVE  i + COLS \in Cells <=> i < COLS * (ROWS - 1)
<1>1. COLS \in Nat /\ ROWS \in Nat /\ COLS > 0 /\ ROWS > 0
  BY ScreenAssumption
<1>2. COLS * (ROWS - 1) = COLS * ROWS - COLS
  BY <1>1
<1> DEFINE all == COLS * ROWS
<1>3. all \in Nat
  BY <1>1
<1>4. i \in 0 .. (all - 1)
  BY DEF Cells
<1>5. i + COLS \in 0 .. (all - 1) <=> i < all - COLS
  <2> HIDE DEF all
  <2>1. QED
    BY <1>1, <1>3, <1>4
<1>6. QED
  BY <1>2, <1>5 DEF Cells

\* No scroll: every cell but the one under the cursor stays.
LEMMA NoRowMoves ==
    ASSUME DOMAIN video_memory = Cells, NEW c, NEW y, y < ROWS,
           video_memory' = Scrolled(Printed(c), y)
    PROVE  Moved(0)
<1>1. video_memory' = Printed(c)
  BY DEF Scrolled
<1>2. \A i \in Cells : i + 0 * COLS = i
  BY ScreenAssumption DEF Cells
<1>3. QED
  BY <1>1, <1>2, PrintedElsewhere DEF Moved

\* One scroll: every cell moves up by a row.
LEMMA OneRowMoves ==
    ASSUME DOMAIN video_memory = Cells, NEW c, NEW y, ~ (y < ROWS),
           video_memory' = Scrolled(Printed(c), y)
    PROVE  Moved(1)
<1>1. COLS \in Nat
  BY ScreenAssumption
<1>2. SUFFICES ASSUME NEW i \in Cells
               PROVE  IF i + 1 * COLS \notin Cells THEN video_memory'[i] = "blank"
                      ELSE i + 1 * COLS # Here => video_memory'[i] = video_memory[i + 1 * COLS]
  BY DEF Moved
<1>3. i + 1 * COLS = i + COLS
  BY <1>1 DEF Cells
<1>4. video_memory'[i] = IF i < COLS * (ROWS - 1) THEN Printed(c)[i + COLS] ELSE "blank"
  BY DEF Scrolled
<1>5. CASE i + COLS \in Cells
  BY <1>3, <1>4, <1>5, RowBelow, PrintedElsewhere
<1>6. CASE i + COLS \notin Cells
  BY <1>3, <1>4, <1>6, RowBelow
<1>7. QED
  BY <1>5, <1>6

\* scroll() behind a character: whatever the column, the row is the cursor's
\* or the next, and only a return to the first column goes to the next.
LEMMA PutScrolls ==
    ASSUME ScreenInv, NEW c \in Glyphs \cup Controls, NEW x, NEW y,
           Scroll(x, y, Printed(c)), y = cursor_y \/ (y = cursor_y + 1 /\ x = 0)
    PROVE  \/ Moved(0) /\ cursor_y' >= cursor_y
           \/ Moved(1) /\ cursor_y = ROWS - 1 /\ cursor_y' = cursor_y /\ cursor_x' = 0
<1>1. ROWS \in Nat /\ ROWS > 0 /\ cursor_y \in 0 .. (ROWS - 1)
  BY ScreenAssumption DEF ScreenInv, CursorInv
<1>2. video_memory' = Scrolled(Printed(c), y)
  BY DEF Scroll, Scrolled
<1>3. cursor_x' = x /\ cursor_y' = IF y >= ROWS THEN ROWS - 1 ELSE y
  BY DEF Scroll
<1>4. CASE y < ROWS
  <2>1. Moved(0)
    BY <1>2, <1>4, NoRowMoves DEF ScreenInv
  <2>2. cursor_y' >= cursor_y
    BY <1>1, <1>3, <1>4
  <2>3. QED
    BY <2>1, <2>2
<1>5. CASE ~ (y < ROWS)
  <2>1. Moved(1)
    BY <1>2, <1>5, OneRowMoves DEF ScreenInv
  <2>2. cursor_y = ROWS - 1 /\ cursor_y' = cursor_y /\ cursor_x' = 0
    BY <1>1, <1>3, <1>5
  <2>3. QED
    BY <2>1, <2>2
<1>6. QED
  BY <1>4, <1>5

LEMMA PutKeepsText ==
    ASSUME ScreenInv, NEW c \in Glyphs \cup Controls, MonitorPut(c)
    PROVE  \/ Moved(0) /\ cursor_y' >= cursor_y
           \/ Moved(1) /\ cursor_y = ROWS - 1 /\ cursor_y' = cursor_y /\ cursor_x' = 0
<1>1. COLS \in Nat /\ COLS > 0
  BY ScreenAssumption
<1>2. c = "newline" => Column(c) = 0 /\ Row(c) = cursor_y + 1
  BY ScreenAssumption DEF Column, Row, Controls
<1>3. c # "newline" => Row(c) = cursor_y
  BY DEF Row
<1>4. CASE Column(c) >= COLS
  <2>1. c # "newline"
    BY <1>1, <1>2, <1>4
  <2>2. Scroll(0, cursor_y + 1, Printed(c))
    BY <1>3, <1>4, <2>1 DEF MonitorPut
  <2>3. QED
    BY <2>2, PutScrolls
<1>5. CASE ~ (Column(c) >= COLS)
  <2>1. Scroll(Column(c), Row(c), Printed(c))
    BY <1>5 DEF MonitorPut
  <2>2. Row(c) = cursor_y \/ (Row(c) = cursor_y + 1 /\ Column(c) = 0)
    BY <1>2, <1>3
  <2>3. QED
    BY <2>1, <2>2, PutScrolls
<1>6. QED
  BY <1>4, <1>5

\* Every operation leaves a screen of as many cells.
LEMMA ScreenKept == Spec => []ScreenInv
<1>1. Init => ScreenInv
  BY StartsOnScreen DEF Init, ScreenInv
<1>2. ScreenInv /\ [Next]_vars => ScreenInv'
  <2>1. SUFFICES ASSUME ScreenInv, [Next]_vars PROVE DOMAIN video_memory' = Cells
    BY CursorKept DEF ScreenInv
  <2>2. CASE MonitorInit
    <3>1. video_memory' = Scrolled(video_memory, PositionRead \div COLS + 1)
      BY <2>2 DEF MonitorInit, Scroll, Scrolled
    <3>2. QED
      BY <2>1, <3>1, CellsStay DEF ScreenInv
  <2>3. CASE MonitorClear
    BY <2>3 DEF MonitorClear
  <2>4. ASSUME NEW c \in Glyphs \cup Controls, MonitorPut(c)
        PROVE  DOMAIN video_memory' = Cells
    <3>1. DOMAIN Printed(c) = Cells
      BY <2>1, PrintedElsewhere DEF ScreenInv
    <3>2. PICK y : video_memory' = Scrolled(Printed(c), y)
      BY <2>4 DEF MonitorPut, Scroll, Scrolled
    <3>3. QED
      BY <3>1, <3>2, CellsStay
  <2>5. CASE UNCHANGED vars
    BY <2>1, <2>5 DEF vars, ScreenInv
  <2>6. QED
    BY <2>1, <2>2, <2>3, <2>4, <2>5 DEF Next
<1>3. QED
  BY <1>1, <1>2, PTL DEF Spec

(***************************************************************************)
(* Printing a character loses no text but the first row, and that only     *)
(* when the last one is full: monitor_put() scrolls by one row at most.    *)
(***************************************************************************)
THEOREM TextStays == Spec => TextKept
<1> DEFINE Kept ==
       \A c \in Glyphs \cup Controls :
          MonitorPut(c) =>
              \/ Moved(0) /\ cursor_y' >= cursor_y
              \/ Moved(1) /\ cursor_y = ROWS - 1 /\ cursor_y' = cursor_y /\ cursor_x' = 0
<1>1. ScreenInv => Kept
  BY PutKeepsText
<1> HIDE DEF Kept
<1>2. Spec => [][Kept]_vars
  BY <1>1, ScreenKept, PTL DEF Spec
<1>3. QED
  BY <1>2 DEF TextKept, Kept
=============================================================================
