------------------------------ MODULE VsPrintf ------------------------------
(***************************************************************************)
(* vsprintf(): the pass over a format and what each directive writes.      *)
(*                                                                         *)
(* The format is read one character at a time, and each character read is  *)
(* any the format may hold, so every format is covered, of any length.     *)
(* The state keeps the character fmt points to, what the directive in      *)
(* progress has set, and what that directive wrote.  Not kept: the text    *)
(* before it, and so the count %n stores and vsprintf() returns.           *)
(***************************************************************************)
EXTENDS Integers, SequencesExt

CONSTANTS
    Chars,      \* the characters of formats, NUL among them
    NUL,
    WORD,       \* the number of values of an int, 2^32 on the machine
    Strings,    \* the arguments of %s
    Stars,      \* the arguments of * as a width or a precision
    MaxField    \* the largest width or precision in a format (a bound)

ASSUME FormatAssumption ==
    /\ NUL \in Chars
    /\ WORD \in {2 * n : n \in 1 .. WORD}
    /\ Stars \subseteq -MaxField .. MaxField

VARIABLES
    pc,     \* where vsprintf() is in its loop
    fmt,    \* *fmt
    past,   \* fmt less the address of the terminator, once it has been there
    dir,    \* the directive's flags, field_width and precision
    arg,    \* the argument it converted
    out     \* what it wrote

vars == <<pc, fmt, past, dir, arg, out>>

Digits == <<"0", "1", "2", "3", "4", "5", "6", "7", "8", "9">>

IsDigit(c) == c \in ToSet(Digits)

ValueOf(c) == CHOOSE n \in 0 .. 9 : Digits[n + 1] = c

FlagChars == {"-", "+", " ", "#", "0"}

FlagOf(c) ==
    CASE c = "-" -> "LEFT" [] c = "+" -> "PLUS" [] c = " " -> "SPACE"
      [] c = "#" -> "SPECIAL" [] c = "0" -> "ZEROPAD"

Repeat(c, n) == [i \in 1 .. n |-> c]

-----------------------------------------------------------------------------
(***************************************************************************)
(* number(): the loops over size fill the field once, before the sign,     *)
(* behind it or at the end, as the count stays negative after the first.   *)
(***************************************************************************)
UpperCase == <<"0", "1", "2", "3", "4", "5", "6", "7", "8", "9", "A", "B", "C", "D", "E", "F">>
LowerCase == <<"0", "1", "2", "3", "4", "5", "6", "7", "8", "9", "a", "b", "c", "d", "e", "f">>

DigitTable(type) == IF "SMALL" \in type THEN LowerCase ELSE UpperCase

Signed(num) == IF num >= WORD \div 2 THEN num - WORD ELSE num

IsNegative(num, type) == "SIGN" \in type /\ Signed(num) < 0

\* Mutant: the most negative number has no positive counterpart.
MagnitudeSaturated(num, type) ==
    IF IsNegative(num, type) THEN Min({0 - Signed(num), WORD \div 2 - 1}) ELSE num

\* do_div() divides what num holds as an unsigned number.
Magnitude(num, type) == IF IsNegative(num, type) THEN (0 - Signed(num)) % WORD ELSE num

\* tmp[], the last digit first.
Tmp(num, base, type) ==
    LET div[n \in 0 .. WORD] ==
            IF n = 0 THEN <<>> ELSE <<DigitTable(type)[(n % base) + 1]>> \o div[n \div base]
    IN  IF num = 0 THEN <<"0">> ELSE div[num]

Sign(num, type) ==
    CASE IsNegative(num, type) -> <<"-">>
      [] ~ IsNegative(num, type) /\ "PLUS" \in type -> <<"+">>
      [] ~ IsNegative(num, type) /\ "PLUS" \notin type /\ "SPACE" \in type -> <<" ">>
      [] OTHER -> <<>>

Special(base, type) ==
    CASE "SPECIAL" \in type /\ base = 16 -> <<"0", IF "SMALL" \in type THEN "x" ELSE "X">>
      [] "SPECIAL" \in type /\ base = 8 -> <<"0">>
      [] OTHER -> <<>>

\* Mutants: the prefix is not taken off the field; or zeros fill it from its
\* first column on.
NumberWide(num, base, size, prec, type) ==
    LET digits == Reverse(Tmp(Magnitude(num, type), base, type))
        sign   == Sign(num, type)
        zeros  == Repeat("0", prec - Len(digits))
        fill   == size - Len(sign) - Len(zeros) - Len(digits)
        bare   == sign \o Special(base, type) \o zeros \o digits
    IN  IF "LEFT" \in type THEN bare \o Repeat(" ", fill) ELSE Repeat(" ", fill) \o bare
NumberZerosFirst(num, base, size, prec, type) ==
    LET digits == Reverse(Tmp(Magnitude(num, type), base, type))
        sign   == Sign(num, type) \o Special(base, type)
        bare   == sign \o Repeat("0", prec - Len(digits)) \o digits
    IN  IF "LEFT" \in type THEN bare \o Repeat(" ", size - Len(bare))
        ELSE Repeat(IF "ZEROPAD" \in type THEN "0" ELSE " ", size - Len(bare)) \o bare

Number(num, base, size, prec, type) ==
    LET digits == Reverse(Tmp(Magnitude(num, type), base, type))
        sign   == Sign(num, type) \o Special(base, type)
        number == Repeat("0", prec - Len(digits)) \o digits
        fill   == size - Len(sign) - Len(number)
    IN  CASE "LEFT" \in type -> sign \o number \o Repeat(" ", fill)
          [] "LEFT" \notin type /\ "ZEROPAD" \in type -> sign \o Repeat("0", fill) \o number
          [] OTHER -> Repeat(" ", fill) \o sign \o number

\* A string or a character in its field.
Padded(s) ==
    LET fill == Repeat(" ", dir.field_width - Len(s))
    IN  IF "LEFT" \in dir.flags THEN s \o fill ELSE fill \o s

Truncated(s) ==
    IF dir.precision < 0 THEN s ELSE SubSeq(s, 1, Min({Len(s), dir.precision}))

Numbers == {"d", "i", "u", "o", "x", "X", "b", "p"}

\* The terminator is none of the characters that mean something in a format.
ASSUME TerminatorAssumption ==
    NUL \notin FlagChars \cup ToSet(Digits) \cup Numbers
                \cup {"%", ".", "*", "h", "l", "L", "s", "c", "n"}

Base(c) == CASE c = "o" -> 8 [] c = "b" -> 2 [] c \in {"d", "i", "u"} -> 10 [] OTHER -> 16

TypeOf(c) ==
    CASE c \in {"d", "i"} -> dir.flags \cup {"SIGN"}
      [] c = "x" -> dir.flags \cup {"SMALL"}
      [] c = "p" /\ dir.field_width = -1 -> dir.flags \cup {"ZEROPAD"}
      [] OTHER -> dir.flags

SizeOf(c) == IF c = "p" /\ dir.field_width = -1 THEN 8 ELSE dir.field_width

-----------------------------------------------------------------------------
(***************************************************************************)
(* The loop of vsprintf().                                                 *)
(***************************************************************************)
NoDirective == [flags |-> {}, field_width |-> -1, precision |-> -1]

Init ==
    /\ pc = "copy"
    /\ fmt \in Chars
    /\ past = 0
    /\ dir = NoDirective
    /\ arg = 0
    /\ out = <<>>

\* ++fmt.  Behind the terminator the model does not go on reading.
Advance ==
    /\ fmt' \in IF fmt = NUL THEN {NUL} ELSE Chars
    /\ past' = IF fmt = NUL /\ past < 1 THEN past + 1 ELSE past

Parse(from, to) == pc = from /\ pc' = to /\ UNCHANGED <<arg, out>>

Eat(from, to)  == Parse(from, to) /\ Advance

Peek(from, to) == Parse(from, to) /\ UNCHANGED <<fmt, past>>

Copy ==
    /\ pc = "copy"
    /\ fmt \notin {"%", NUL}
    /\ out' = <<fmt>>
    /\ Advance
    /\ UNCHANGED <<pc, dir, arg>>

End == fmt = NUL /\ Peek("copy", "end") /\ UNCHANGED dir

Directive == fmt = "%" /\ Eat("copy", "flags") /\ UNCHANGED dir

Flag ==
    /\ fmt \in FlagChars
    /\ Eat("flags", "flags")
    /\ dir' = [dir EXCEPT !.flags = @ \cup {FlagOf(fmt)}]

NoFlag == fmt \notin FlagChars /\ Peek("flags", "width") /\ UNCHANGED dir

\* skip_atoi(): one more digit of a number that is -1 before its first.
Appended(n) == (IF n = -1 THEN 0 ELSE 10 * n) + ValueOf(fmt)

WidthDigit ==
    /\ IsDigit(fmt)
    /\ Appended(dir.field_width) <= MaxField
    /\ Eat("width", "width")
    /\ dir' = [dir EXCEPT !.field_width = Appended(@)]

Starred(n) ==
    [dir EXCEPT !.field_width = IF n < 0 THEN 0 - n ELSE n,
                !.flags = IF n < 0 THEN @ \cup {"LEFT"} ELSE @]

\* A width from the arguments; fmt still points to the star.
WidthStar ==
    /\ fmt = "*"
    /\ dir.field_width = -1
    /\ Peek("width", "precision")
    /\ \E n \in Stars : dir' = Starred(n)

WidthDone ==
    /\ ~ IsDigit(fmt)
    /\ fmt = "*" => dir.field_width # -1
    /\ Peek("width", "precision")
    /\ UNCHANGED dir

Point == fmt = "." /\ Eat("precision", "digits") /\ UNCHANGED dir

NoPoint == fmt # "." /\ Peek("precision", "qualifier") /\ UNCHANGED dir

PrecisionDigit ==
    /\ IsDigit(fmt)
    /\ Appended(dir.precision) <= MaxField
    /\ Eat("digits", "digits")
    /\ dir' = [dir EXCEPT !.precision = Appended(@)]

PrecisionStar ==
    /\ fmt = "*"
    /\ dir.precision = -1
    /\ Peek("digits", "qualifier")
    /\ \E n \in Stars : dir' = [dir EXCEPT !.precision = Max({n, 0})]

PrecisionDone ==
    /\ ~ IsDigit(fmt)
    /\ fmt = "*" => dir.precision # -1
    /\ Peek("digits", "qualifier")
    /\ dir' = [dir EXCEPT !.precision = Max({@, 0})]

\* h, l and L are read and have no effect.
Qualified == fmt \in {"h", "l", "L"} /\ Eat("qualifier", "convert") /\ UNCHANGED dir

Unqualified == fmt \notin {"h", "l", "L"} /\ Peek("qualifier", "convert") /\ UNCHANGED dir

Convert == pc = "convert" /\ pc' = "written" /\ UNCHANGED <<fmt, dir>>

ConvertNumber ==
    /\ Convert
    /\ fmt \in Numbers
    /\ arg' \in 0 .. WORD - 1
    /\ out' = Number(arg', Base(fmt), SizeOf(fmt), dir.precision, TypeOf(fmt))
    /\ UNCHANGED past

ConvertText ==
    /\ Convert
    /\ \E s \in Strings :
          \/ fmt = "s" /\ out' = Padded(Truncated(s))
          \/ fmt = "c" /\ Len(s) = 1 /\ out' = Padded(s)
    /\ UNCHANGED <<arg, past>>

\* %n stores the length so far and writes nothing.
ConvertNothing == Convert /\ fmt = "n" /\ out' = <<>> /\ UNCHANGED <<arg, past>>

Unknown == fmt \notin Numbers \cup {"s", "c", "n"}

\* Mutant: the terminator is passed like any other character.
ConvertUnknownPasses ==
    /\ Convert
    /\ Unknown
    /\ out' = (IF fmt # "%" THEN <<"%">> ELSE <<>>) \o (IF fmt # NUL THEN <<fmt>> ELSE <<>>)
    /\ UNCHANGED <<arg, past>>

\* The default case prints the directive's last character, and steps back
\* if that is the terminator.
ConvertUnknown ==
    /\ Convert
    /\ Unknown
    /\ out' = (IF fmt # "%" THEN <<"%">> ELSE <<>>) \o (IF fmt # NUL THEN <<fmt>> ELSE <<>>)
    /\ past' = IF fmt = NUL THEN past - 1 ELSE past
    /\ UNCHANGED arg

\* The ++fmt of the loop, and the next round from the start.
Written ==
    /\ pc = "written"
    /\ pc' = "copy"
    /\ dir' = NoDirective
    /\ arg' = 0
    /\ out' = <<>>
    /\ Advance

Next ==
    \/ Copy \/ End \/ Directive \/ Flag \/ NoFlag
    \/ WidthDigit \/ WidthStar \/ WidthDone
    \/ Point \/ NoPoint \/ PrecisionDigit \/ PrecisionStar \/ PrecisionDone
    \/ Qualified \/ Unqualified
    \/ ConvertNumber \/ ConvertText \/ ConvertNothing \/ ConvertUnknown
    \/ Written

Spec == Init /\ [][Next]_vars
-----------------------------------------------------------------------------
(***************************************************************************)
(* However a directive breaks off, vsprintf() reads no character behind    *)
(* the one that ends the format.                                           *)
(***************************************************************************)
StaysInFormat == past <= 0

Converted(set) == pc = "written" /\ fmt \in set

(***************************************************************************)
(* A width only adds: what is written without the fill is what the same    *)
(* directive writes without a width, and the fill makes it exactly as long *)
(* as the field, if it was shorter.  Holds for negative numbers, prefixes  *)
(* and a precision, whichever of them the field has to hold.               *)
(***************************************************************************)
FieldFilled ==
    Converted(Numbers) =>
        LET bare  == Number(arg, Base(fmt), -1, dir.precision, TypeOf(fmt))
            fills == Len(out) - Len(bare)
        IN  /\ Len(out) = Max({SizeOf(fmt), Len(bare)})
            /\ \/ out = bare \o Repeat(" ", fills) /\ "LEFT" \in dir.flags
               \/ out = Repeat(" ", fills) \o bare /\ "LEFT" \notin dir.flags
               \/ /\ {"LEFT", "ZEROPAD"} \cap TypeOf(fmt) = {"ZEROPAD"}
                  /\ \E i \in 0 .. Len(bare) :
                        out = SubSeq(bare, 1, i) \o Repeat("0", fills) \o
                                 SubSeq(bare, i + 1, Len(bare))

\* The number read so far, and one more character of its text.
HexDigits == ToSet(UpperCase) \cup ToSet(LowerCase)

HexValue(c) == CHOOSE n \in 0 .. 15 : c \in {UpperCase[n + 1], LowerCase[n + 1]}

Read(n, c, base) == IF c \in HexDigits THEN n * base + HexValue(c) ELSE n

ReadBack ==
    LET read[i \in 0 .. Len(out)] == IF i = 0 THEN 0 ELSE Read(read[i - 1], out[i], Base(fmt))
        n == read[Len(out)]
    IN  IF "-" \in ToSet(out) THEN 0 - n ELSE n

\* The argument as the number that c takes it for.
Meant(c) == IF c \in {"d", "i"} THEN Signed(arg) ELSE arg

(***************************************************************************)
(* What is written reads back as the argument: in its base, with its sign, *)
(* for every value an int can have.                                        *)
(***************************************************************************)
ReadsBack ==
    Converted(Numbers) => ReadBack = Meant(fmt)

\* n in its base, with at least so many digits: high[k] is what is left of n
\* without its last k digits.
Numeral(n, base, least, table) ==
    LET high[k \in 0 .. WORD] == IF k = 0 THEN n ELSE high[k - 1] \div base
        length == CHOOSE k \in 1 .. WORD : high[k] = 0 /\ \A j \in 1 .. k - 1 : high[j] # 0
    IN  Repeat("0", least - length) \o
        [i \in 1 .. length |-> table[(high[length - i] % base) + 1]]

MarkInC(c) ==
    CASE Meant(c) < 0 -> <<"-">>
      [] Meant(c) >= 0 /\ c \in {"d", "i"} /\ "PLUS" \in dir.flags -> <<"+">>
      [] Meant(c) >= 0 /\ c \in {"d", "i"} /\ dir.flags \cap {"PLUS", "SPACE"} = {"SPACE"} -> <<" ">>
      [] c \in {"x", "X"} /\ "SPECIAL" \in dir.flags -> <<"0", c>>
      [] OTHER -> <<>>

InC(c) ==
    LET mark   == MarkInC(c)
        table  == IF c = "x" THEN LowerCase ELSE UpperCase
        least  == IF "ZEROPAD" \in dir.flags /\ "LEFT" \notin dir.flags THEN dir.field_width - Len(mark)
                  ELSE dir.precision
        number == IF Meant(c) < 0 THEN 0 - Meant(c) ELSE Meant(c)
        text   == mark \o Numeral(number, Base(c), least, table)
        spaces == Repeat(" ", dir.field_width - Len(text))
    IN  IF "LEFT" \in dir.flags THEN text \o spaces ELSE spaces \o text

InsideC ==
    /\ "ZEROPAD" \in dir.flags => dir.precision = -1
    /\ arg = 0 => dir.precision # 0
    /\ "SPECIAL" \in dir.flags /\ fmt \in {"x", "X"} => arg # 0
    /\ "SPECIAL" \in dir.flags => fmt # "o"
    /\ dir.flags \cap {"PLUS", "SPACE"} # {} => fmt \in {"d", "i"}

(***************************************************************************)
(* Where number() is meant to do what C's printf() does, it does: d, i, u, *)
(* o, x and X, but for five things C has otherwise.  A precision turns off *)
(* the flag 0; zero with the precision 0 has no digit; # gives zero no 0x, *)
(* and an octal number no second 0; and + and the space do not apply to    *)
(* numbers without a sign.                                                 *)
(***************************************************************************)
AgreesWithC ==
    Converted({"d", "i", "u", "o", "x", "X"}) /\ InsideC => out = InC(fmt)
=============================================================================
