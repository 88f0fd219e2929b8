CONSTANTS
    NUL = NUL
    Chars <- MCChars
    WORD = 16
    Strings <- MCStrings
    Stars <- MCStars
    MaxField <- MCField
SPECIFICATION Spec
CHECK_DEADLOCK FALSE
INVARIANTS
    StaysInFormat
    FieldFilled
    ReadsBack
    AgreesWithC
