CONSTANTS
    COLS = 4
    ROWS = 3
    TAB = 2
    BYTE = 4
    Glyphs = {"g"}
SPECIFICATION Spec
INVARIANTS
    CursorOnScreen
PROPERTIES
    TextKept
