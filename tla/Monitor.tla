------------------------------- MODULE Monitor -------------------------------
(***************************************************************************)
(* The text console of monitor.c: a cursor, the cells of the video memory  *)
(* and the cursor position the video hardware keeps.  A character is       *)
(* printable or one of the control characters monitor_put() knows; any     *)
(* other, among them those above 127, of which char makes negative         *)
(* numbers, is ignored.                                                    *)
(***************************************************************************)
EXTENDS Integers

CONSTANTS
    COLS, ROWS,     \* 80 and 25
    TAB,            \* 8
    BYTE,           \* 256
    Glyphs          \* the printable characters

Controls == {"backspace", "tab", "return", "newline", "other"}

ASSUME ScreenAssumption ==
    /\ {COLS, ROWS, TAB, BYTE} \subseteq Nat \ {0}
    /\ ROWS > 1
    /\ COLS * ROWS <= BYTE * BYTE
    /\ Glyphs \cap Controls = {}

VARIABLES
    cursor_x, cursor_y,
    video_memory,   \* the cells, row by row: of Glyphs, "blank" where scroll()
                    \* wrote a space, "zero" where monitor_clear() wrote a 0
    position,       \* the position in the registers of the video hardware
    online          \* whether monitor_init() has run

vars == <<cursor_x, cursor_y, video_memory, position, online>>

Cells == 0 .. (COLS * ROWS - 1)

\* What the boot loader has printed ends where its cursor is.
Init ==
    /\ cursor_x = 0
    /\ cursor_y = 0
    /\ position \in Cells
    /\ \E g \in Glyphs :
          video_memory = [i \in Cells |-> IF i < position THEN g ELSE "blank"]
    /\ online = FALSE

-----------------------------------------------------------------------------
\* Mutants: nothing scrolls; or the last row is not blanked.
ScrollNever(x, y, video) ==
    /\ video_memory' = video
    /\ cursor_x' = x
    /\ cursor_y' = y
    /\ position' = y * COLS + x

ScrollUnblanked(x, y, video) ==
    /\ video_memory' = IF y < ROWS THEN video
                       ELSE [i \in Cells |-> IF i < COLS * (ROWS - 1)
                                             THEN video[i + COLS] ELSE video[i]]
    /\ cursor_x' = x
    /\ cursor_y' = IF y >= ROWS THEN ROWS - 1 ELSE y
    /\ position' = cursor_y' * COLS + x

\* scroll(): behind the last row all rows move up by one.
Scroll(x, y, video) ==
    LET row == IF y >= ROWS THEN ROWS - 1 ELSE y
    IN  /\ video_memory' = IF y < ROWS THEN video
                           ELSE [i \in Cells |-> IF i < COLS * (ROWS - 1)
                                                 THEN video[i + COLS] ELSE "blank"]
        /\ cursor_x' = x
        /\ cursor_y' = row
        /\ position' = row * COLS + x

\* monitor_init() reads the low byte of the position as its high byte.
PositionRead == (position % BYTE) * BYTE + position \div BYTE

MonitorInit ==
    /\ ~ online
    /\ online' = TRUE
    /\ Scroll(0, PositionRead \div COLS + 1, video_memory)

\* Where a character takes the cursor within its row.
Column(c) ==
    CASE c \in Glyphs                       -> cursor_x + 1
      [] c = "backspace" /\ cursor_x # 0    -> cursor_x - 1
      [] c = "tab"                          -> ((cursor_x + TAB) \div TAB) * TAB
      [] c \in {"return", "newline"}        -> 0
      [] OTHER                              -> cursor_x

Row(c) == IF c = "newline" THEN cursor_y + 1 ELSE cursor_y

Here == cursor_x + COLS * cursor_y

Printed(c) == IF c \in Glyphs THEN [video_memory EXCEPT ![Here] = c] ELSE video_memory

\* monitor_put(): a full row ends like a newline.
MonitorPut(c) ==
    /\ online
    /\ IF Column(c) >= COLS
       THEN Scroll(0, Row(c) + 1, Printed(c))
       ELSE Scroll(Column(c), Row(c), Printed(c))
    /\ UNCHANGED online

MonitorClear ==
    /\ online
    /\ video_memory' = [i \in Cells |-> "zero"]
    /\ cursor_x' = 0
    /\ cursor_y' = 0
    /\ position' = 0
    /\ UNCHANGED online

Next == MonitorInit \/ MonitorClear \/ \E c \in Glyphs \cup Controls : MonitorPut(c)

Spec == Init /\ [][Next]_vars

-----------------------------------------------------------------------------
(***************************************************************************)
(* The cursor is on the screen, so that no character is stored outside of  *)
(* the video memory; the hardware shows it where the kernel has it.        *)
(***************************************************************************)
CursorOnScreen ==
    /\ cursor_x < COLS
    /\ cursor_y < ROWS
    /\ online => position = Here

(***************************************************************************)
(* Printing loses no text but the first row, and that only when the last   *)
(* one is full: each cell but the one under the cursor stays, or all move  *)
(* up by a row and leave the last one blank.                               *)
(***************************************************************************)
Moved(rows) ==
    \A i \in Cells :
        LET from == i + rows * COLS
        IN  IF from \notin Cells THEN video_memory'[i] = "blank"
            ELSE from # Here => video_memory'[i] = video_memory[from]

TextKept ==
    [][\A c \in Glyphs \cup Controls :
          MonitorPut(c) =>
              \/ Moved(0) /\ cursor_y' >= cursor_y
              \/ Moved(1) /\ cursor_y = ROWS - 1 /\ cursor_y' = cursor_y /\ cursor_x' = 0]_vars
=============================================================================
