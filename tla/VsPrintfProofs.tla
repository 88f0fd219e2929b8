---------------------------- MODULE VsPrintfProofs ----------------------------
(***************************************************************************)
(* vsprintf() does not read behind the terminator of its format; what it   *)
(* writes of a number fills its field exactly, reads back as the number,   *)
(* and is what C asks for: whatever the format, the arguments and the      *)
(* width of a word.                                                        *)
(***************************************************************************)
EXTENDS VsPrintf, SequenceTheorems, WellFoundedInduction, TLAPS

\* fmt has gone no further than the terminator, and is a step in front of it
\* when a directive that ended there has been written.
FormatInv ==
    /\ past \in {-1, 0}
    /\ past = -1 <=> (pc = "written" /\ fmt = NUL)

\* ++fmt from in front of the terminator arrives at it at most.
LEMMA AdvanceInside ==
    ASSUME FormatInv, Advance, pc' # "written", fmt = NUL => pc = "written"
    PROVE  FormatInv'
BY DEF FormatInv, Advance

\* What does not move fmt leaves it where it is.
LEMMA PeekInside ==
    ASSUME FormatInv, pc # "written", pc' # "written", UNCHANGED <<fmt, past>>
    PROVE  FormatInv'
BY DEF FormatInv

\* The characters that fmt is stepped over are not the terminator.
LEMMA Meaningful ==
    /\ fmt \in FlagChars => fmt # NUL
    /\ IsDigit(fmt) => fmt # NUL
    /\ fmt \in Numbers => fmt # NUL
    /\ fmt \in {"%", ".", "h", "l", "L", "s", "c", "n"} => fmt # NUL
BY TerminatorAssumption DEF IsDigit

\* A directive that ends at the terminator is unknown, and fmt steps back.
LEMMA ConvertInside ==
    ASSUME FormatInv,
           ConvertNumber \/ ConvertText \/ ConvertNothing \/ ConvertUnknown
    PROVE  FormatInv'
<1>1. pc = "convert" /\ pc' = "written" /\ fmt' = fmt /\ past = 0
  BY DEF FormatInv, ConvertNumber, ConvertText, ConvertNothing, ConvertUnknown, Convert
<1>2. CASE ConvertNumber
  BY <1>1, <1>2, Meaningful DEF ConvertNumber, FormatInv
<1>3. CASE ConvertText
  <2>1. fmt \in {"s", "c"} /\ past' = past
    BY <1>3 DEF ConvertText
  <2>2. QED
    BY <1>1, <2>1, Meaningful DEF FormatInv
<1>4. CASE ConvertNothing
  <2>1. fmt = "n" /\ past' = past
    BY <1>4 DEF ConvertNothing
  <2>2. QED
    BY <1>1, <2>1, Meaningful DEF FormatInv
<1>5. CASE ConvertUnknown
  BY <1>1, <1>5 DEF ConvertUnknown, FormatInv
<1>6. QED
  BY <1>2, <1>3, <1>4, <1>5

\* Every step of the loop but the conversion moves fmt by one character that
\* is not the terminator, or not at all.
LEMMA StepInside ==
    ASSUME FormatInv, Next
    PROVE  FormatInv'
<1>1. CASE Copy
  BY <1>1, AdvanceInside DEF Copy
<1>2. CASE Directive
  BY <1>2, AdvanceInside, Meaningful DEF Directive, Eat, Parse
<1>3. CASE Flag
  BY <1>3, AdvanceInside, Meaningful DEF Flag, Eat, Parse
<1>4. CASE WidthDigit
  BY <1>4, AdvanceInside, Meaningful DEF WidthDigit, Eat, Parse
<1>5. CASE Point
  BY <1>5, AdvanceInside, Meaningful DEF Point, Eat, Parse
<1>6. CASE PrecisionDigit
  BY <1>6, AdvanceInside, Meaningful DEF PrecisionDigit, Eat, Parse
<1>7. CASE Qualified
  BY <1>7, AdvanceInside, Meaningful DEF Qualified, Eat, Parse
<1>8. CASE Written
  BY <1>8, AdvanceInside DEF Written
<1>9. CASE End \/ NoFlag \/ WidthStar \/ WidthDone \/ NoPoint
  BY <1>9, PeekInside DEF End, NoFlag, WidthStar, WidthDone, NoPoint, Peek, Parse
<1>10. CASE PrecisionStar \/ PrecisionDone \/ Unqualified
  BY <1>10, PeekInside DEF PrecisionStar, PrecisionDone, Unqualified, Peek, Parse
<1>11. CASE ConvertNumber \/ ConvertText \/ ConvertNothing \/ ConvertUnknown
  BY <1>11, ConvertInside
<1>12. QED
  BY <1>1, <1>2, <1>3, <1>4, <1>5, <1>6, <1>7, <1>8, <1>9, <1>10, <1>11 DEF Next

LEMMA FormatKept == Spec => []FormatInv
<1>1. Init => FormatInv
  BY DEF Init, FormatInv
<1>2. FormatInv /\ [Next]_vars => FormatInv'
  <2>1. CASE UNCHANGED vars
    BY <2>1 DEF vars, FormatInv
  <2>2. QED
    BY <2>1, StepInside
<1>3. QED
  BY <1>1, <1>2, PTL DEF Spec

(***************************************************************************)
(* However a directive breaks off, vsprintf() reads no character behind    *)
(* the one that ends the format.                                           *)
(***************************************************************************)
THEOREM FormatNotOverrun == Spec => []StaysInFormat
<1>1. FormatInv => StaysInFormat
  BY DEF FormatInv, StaysInFormat
<1>2. QED
  BY <1>1, FormatKept, PTL

-----------------------------------------------------------------------------
(***************************************************************************)
(* The digits of a number: do_div() until nothing is left ends.            *)
(***************************************************************************)
Bases == {2, 8, 10, 16}

\* The characters number() writes.
NumberChars(type) == {DigitTable(type)[i] : i \in 1 .. 16} \cup {"0", " ", "-", "+", "x", "X"}

Divided(f, k, base, t) ==
    f = [n \in 0 .. k |->
            IF n = 0 THEN <<>> ELSE <<t[(n % base) + 1]>> \o f[n \div base]]

LEMMA WordIsNat == WORD \in Nat
BY FormatAssumption

LEMMA Quotient ==
    ASSUME NEW n \in Nat, n # 0, NEW base \in Bases
    PROVE  n \div base \in 0 .. (n - 1) /\ (n % base) + 1 \in 1 .. 16
<1>1. CASE base = 2
  BY <1>1
<1>2. CASE base = 8
  BY <1>2
<1>3. CASE base = 10
  BY <1>3
<1>4. CASE base = 16
  BY <1>4
<1>5. QED
  BY <1>1, <1>2, <1>3, <1>4 DEF Bases

LEMMA LeastNatural ==
    ASSUME NEW S, S \subseteq Nat, S # {}
    PROVE  \E k \in S : \A m \in S : k <= m
<1> DEFINE Less == {ss \in Nat \X Nat : ss[1] < ss[2]}
<1>1. IsWellFoundedOn(Less, Nat)
  BY NatLessThanWellFounded DEF OpToRel
<1> HIDE DEF Less
<1>2. PICK k \in S : \A m \in S : ~ (<<m, k>> \in Less)
  BY <1>1, WFMin
<1>3. \A m \in S : k <= m
  <2>1. SUFFICES ASSUME NEW m \in S, ~ (k <= m)
                 PROVE  FALSE
    OBVIOUS
  <2>2. m \in Nat /\ k \in Nat /\ m < k
    BY <2>1
  <2>3. <<m, k>> \in Less
    BY <2>2 DEF Less
  <2>4. QED
    BY <1>2, <2>3
<1>4. QED
  BY <1>3

\* There are quotients of all numbers up to k: each from one that is less.
LEMMA DivisionExists ==
    ASSUME NEW base \in Bases, NEW t, NEW k \in Nat
    PROVE  \E f : Divided(f, k, base, t)
<1> DEFINE Bad == {j \in Nat : ~ \E f : Divided(f, j, base, t)}
<1>1. SUFFICES ASSUME Bad # {} PROVE FALSE
  OBVIOUS
<1>2. PICK j \in Bad : \A m \in Bad : j <= m
  BY <1>1, LeastNatural
<1>3. j # 0
  <2> DEFINE f == [n \in 0 .. 0 |-> <<>>]
  <2>1. f = [n \in 0 .. 0 |->
               IF n = 0 THEN <<>> ELSE <<t[(n % base) + 1]>> \o f[n \div base]]
    <3>1. \A n \in 0 .. 0 : n = 0
      OBVIOUS
    <3>2. QED
      BY <3>1
  <2>2. Divided(f, 0, base, t)
    BY <2>1 DEF Divided
  <2>3. QED
    BY <1>2, <2>2
<1>4. j \in Nat /\ j - 1 \in Nat /\ j - 1 \notin Bad
  BY <1>2, <1>3
<1>5. PICK f : Divided(f, j - 1, base, t)
  BY <1>4
<1> DEFINE step(g, n) == IF n = 0 THEN <<>> ELSE <<t[(n % base) + 1]>> \o g[n \div base]
           g == [n \in 0 .. j |-> IF n = j THEN step(f, j) ELSE f[n]]
<1>6. \A n \in 0 .. (j - 1) : f[n] = step(f, n) /\ g[n] = f[n]
  <2>1. SUFFICES ASSUME NEW n \in 0 .. (j - 1) PROVE f[n] = step(f, n) /\ g[n] = f[n]
    OBVIOUS
  <2>2. n \in 0 .. j /\ n # j
    BY <1>4, <2>1
  <2>3. f[n] = step(f, n)
    BY <1>5, <2>1 DEF Divided
  <2>4. g[n] = f[n]
    <3> HIDE DEF step
    <3>1. QED
      BY <2>2
  <2>5. QED
    BY <2>3, <2>4
<1>7. \A n \in 0 .. j : g[n] = step(g, n)
  <2>1. SUFFICES ASSUME NEW n \in 0 .. j PROVE g[n] = step(g, n)
    OBVIOUS
  <2>2. g[n] = step(f, n)
    <3>1. CASE n = j
      <4> HIDE DEF step
      <4>1. QED
        BY <2>1, <3>1
    <3>2. CASE n # j
      <4> HIDE DEF step, g
      <4>1. n \in 0 .. (j - 1)
        BY <1>4, <2>1, <3>2
      <4>2. QED
        BY <1>6, <4>1
    <3>3. QED
      BY <3>1, <3>2
  <2>3. n # 0 => n \div base \in 0 .. (j - 1)
    BY <1>4, <2>1, Quotient
  <2>4. n # 0 => g[n \div base] = f[n \div base]
    BY <1>6, <2>3
  <2> HIDE DEF g
  <2>5. QED
    BY <2>2, <2>4
<1>8. g = [n \in 0 .. j |-> step(g, n)]
  <2>1. g = [n \in 0 .. j |-> g[n]]
    OBVIOUS
  <2> HIDE DEF g
  <2>2. QED
    BY <1>7, <2>1
<1>9. Divided(g, j, base, t)
  <2> HIDE DEF g
  <2>1. QED
    BY <1>8 DEF Divided
<1>10. QED
  BY <1>2, <1>9

\* All of them are sequences of digits.
LEMMA DivisionTyped ==
    ASSUME NEW base \in Bases, NEW t, NEW k \in Nat, NEW V,
           \A i \in 1 .. 16 : t[i] \in V,
           NEW f, Divided(f, k, base, t), NEW n \in 0 .. k
    PROVE  f[n] \in Seq(V)
<1> DEFINE Bad == {j \in 0 .. k : f[j] \notin Seq(V)}
<1>1. SUFFICES ASSUME Bad # {} PROVE FALSE
  OBVIOUS
<1>2. Bad \subseteq Nat
  OBVIOUS
<1>3. PICK j \in Bad : \A m \in Bad : j <= m
  BY <1>1, <1>2, LeastNatural
<1>4. j \in 0 .. k /\ f[j] \notin Seq(V)
  BY <1>3
<1>5. f[j] = IF j = 0 THEN <<>> ELSE <<t[(j % base) + 1]>> \o f[j \div base]
  BY <1>4 DEF Divided
<1>6. j # 0
  BY <1>4, <1>5, EmptySeq
<1>7. j \div base \in 0 .. (j - 1) /\ (j % base) + 1 \in 1 .. 16
  BY <1>4, <1>6, Quotient
<1>8. f[j \div base] \in Seq(V)
  BY <1>3, <1>4, <1>7, SMTT(60)
<1>9. <<t[(j % base) + 1]>> \in Seq(V)
  <2> DEFINE digit == t[(j % base) + 1]
  <2>1. digit \in V
    BY <1>7
  <2> HIDE DEF digit
  <2>2. <<digit>> \in Seq(V)
    BY <2>1
  <2>3. QED
    BY <2>2 DEF digit
<1>10. f[j] \in Seq(V)
  BY <1>5, <1>6, <1>8, <1>9, ConcatProperties
<1>11. QED
  BY <1>4, <1>10

\* tmp[] is what such a division gives.
LEMMA TmpDivides ==
    ASSUME NEW num, NEW base \in Bases, NEW type
    PROVE  \E div : /\ Divided(div, WORD, base, DigitTable(type))
                    /\ Tmp(num, base, type) = IF num = 0 THEN <<"0">> ELSE div[num]
<1> DEFINE Div(f) == f = [n \in 0 .. WORD |->
                            IF n = 0 THEN <<>>
                            ELSE <<DigitTable(type)[(n % base) + 1]>> \o f[n \div base]]
           div == CHOOSE f : Div(f)
<1>1. \E f : Div(f)
  <2>1. PICK f : Divided(f, WORD, base, DigitTable(type))
    BY WordIsNat, DivisionExists
  <2>2. QED
    BY <2>1 DEF Divided
<1>2. Div(div)
  BY <1>1
<1>3. Divided(div, WORD, base, DigitTable(type))
  <2> HIDE DEF div
  <2>1. QED
    BY <1>2 DEF Divided
<1>4. Tmp(num, base, type) = IF num = 0 THEN <<"0">> ELSE div[num]
  BY DEF Tmp
<1>5. QED
  <2> HIDE DEF div
  <2>1. QED
    BY <1>3, <1>4

LEMMA TableTyped ==
    ASSUME NEW type, NEW i \in 1 .. 16
    PROVE  DigitTable(type)[i] \in NumberChars(type)
BY DEF NumberChars

LEMMA TmpTyped ==
    ASSUME NEW num \in 0 .. WORD, NEW base \in Bases, NEW type
    PROVE  Tmp(num, base, type) \in Seq(NumberChars(type))
<1>1. PICK div : /\ Divided(div, WORD, base, DigitTable(type))
                 /\ Tmp(num, base, type) = IF num = 0 THEN <<"0">> ELSE div[num]
  BY TmpDivides
<1>2. \A i \in 1 .. 16 : DigitTable(type)[i] \in NumberChars(type)
  BY TableTyped
<1>3. div[num] \in Seq(NumberChars(type))
  BY <1>1, <1>2, WordIsNat, DivisionTyped
<1>4. <<"0">> \in Seq(NumberChars(type))
  BY DEF NumberChars
<1>5. QED
  BY <1>1, <1>3, <1>4

-----------------------------------------------------------------------------
(***************************************************************************)
(* What number() writes: a sign, which a prefix may follow, the number and *)
(* the fill, in one of three orders.                                       *)
(***************************************************************************)
Blank == " "

Filled(s, m, size, type) ==
    LET fill == size - Len(s) - Len(m)
    IN  CASE "LEFT" \in type -> s \o m \o Repeat(Blank, fill)
          [] "LEFT" \notin type /\ "ZEROPAD" \in type -> s \o Repeat("0", fill) \o m
          [] OTHER -> Repeat(Blank, fill) \o s \o m

LEMMA RepeatTyped ==
    ASSUME NEW V, NEW c \in V, NEW n \in Int
    PROVE  /\ Repeat(c, n) \in Seq(V)
           /\ Len(Repeat(c, n)) = IF n > 0 THEN n ELSE 0
           /\ n <= 0 => Repeat(c, n) = <<>>
<1>1. CASE n > 0
  <2>1. Repeat(c, n) \in [1 .. n -> V]
    BY DEF Repeat
  <2>2. QED
    BY <1>1, <2>1
<1>2. CASE ~ (n > 0)
  <2>1. 1 .. n = {} /\ 1 .. 0 = {}
    BY <1>2
  <2>2. Repeat(c, n) = <<>>
    BY <2>1 DEF Repeat
  <2>3. QED
    BY <1>2, <2>2, EmptySeq
<1>3. QED
  BY <1>1, <1>2

LEMMA ReverseTyped ==
    ASSUME NEW V, NEW s \in Seq(V)
    PROVE  Reverse(s) \in Seq(V)
<1>1. Len(s) \in Nat /\ \A i \in 1 .. Len(s) : s[i] \in V
  BY LenProperties, ElementOfSeq
<1>2. \A i \in 1 .. Len(s) : (Len(s) - i) + 1 \in 1 .. Len(s)
  BY <1>1
<1>3. Reverse(s) \in [1 .. Len(s) -> V]
  BY <1>1, <1>2 DEF Reverse
<1>4. QED
  BY <1>1, <1>3

\* The sign and the prefix, case by case.
LEMMA SignCases ==
    ASSUME NEW num, NEW type
    PROVE  Sign(num, type) = IF IsNegative(num, type) THEN <<"-">>
                             ELSE IF "PLUS" \in type THEN <<"+">>
                             ELSE IF "SPACE" \in type THEN <<Blank>> ELSE <<>>
<1>1. CASE IsNegative(num, type)
  BY <1>1, Zenon DEF Sign
<1>2. CASE ~ IsNegative(num, type) /\ "PLUS" \in type
  BY <1>2, Zenon DEF Sign
<1>3. CASE ~ IsNegative(num, type) /\ "PLUS" \notin type /\ "SPACE" \in type
  BY <1>3, Zenon DEF Sign, Blank
<1>4. CASE ~ IsNegative(num, type) /\ "PLUS" \notin type /\ "SPACE" \notin type
  BY <1>4, Zenon DEF Sign
<1>5. QED
  BY <1>1, <1>2, <1>3, <1>4

LEMMA SpecialCases ==
    ASSUME NEW base, NEW type
    PROVE  Special(base, type) =
               IF "SPECIAL" \in type /\ base = 16
               THEN IF "SMALL" \in type THEN <<"0", "x">> ELSE <<"0", "X">>
               ELSE IF "SPECIAL" \in type /\ base = 8 THEN <<"0">> ELSE <<>>
<1>1. CASE "SPECIAL" \in type /\ base = 16
  <2>1. Special(base, type) = <<"0", IF "SMALL" \in type THEN "x" ELSE "X">>
    <3>1. base # 8
      BY <1>1
    <3>2. QED
      BY <1>1, <3>1, Zenon DEF Special
  <2>2. QED
    BY <1>1, <2>1
<1>2. CASE "SPECIAL" \in type /\ base = 8
  <2>1. base # 16
    BY <1>2
  <2>2. Special(base, type) = <<"0">>
    BY <1>2, <2>1, Zenon DEF Special
  <2>3. QED
    BY <1>2, <2>1, <2>2
<1>3. CASE ~ ("SPECIAL" \in type /\ base = 16) /\ ~ ("SPECIAL" \in type /\ base = 8)
  BY <1>3, Zenon DEF Special
<1>4. QED
  BY <1>1, <1>2, <1>3

LEMMA SignTyped ==
    ASSUME NEW num, NEW base, NEW type
    PROVE  Sign(num, type) \in Seq(NumberChars(type)) /\ Special(base, type) \in Seq(NumberChars(type))
<1> DEFINE V == NumberChars(type)
<1>1. "0" \in V /\ Blank \in V /\ "-" \in V /\ "+" \in V /\ "x" \in V /\ "X" \in V
  BY DEF NumberChars, Blank
<1> HIDE DEF V
<1>2. /\ <<>> \in Seq(V)
      /\ \A a \in V : <<a>> \in Seq(V)
      /\ \A a, b \in V : <<a, b>> \in Seq(V)
  OBVIOUS
<1>3. Sign(num, type) \in {<<>>, <<"-">>, <<"+">>, <<Blank>>}
  BY SignCases
<1>4. Special(base, type) \in {<<>>, <<"0">>, <<"0", "x">>, <<"0", "X">>}
  BY SpecialCases
<1>5. Sign(num, type) \in Seq(V) /\ Special(base, type) \in Seq(V)
  BY <1>1, <1>2, <1>3, <1>4
<1>6. QED
  BY <1>5 DEF V

LEMMA SignedTyped ==
    ASSUME NEW num \in 0 .. WORD - 1
    PROVE  Signed(num) \in Int
<1>1. WORD \div 2 \in Int /\ WORD \in Int /\ num \in Int
  BY WordIsNat
<1>2. QED
  BY <1>1 DEF Signed

LEMMA MagnitudeTyped ==
    ASSUME NEW num \in 0 .. WORD - 1, NEW type
    PROVE  Magnitude(num, type) \in 0 .. WORD
<1>1. WORD \in Nat /\ WORD > 0
  BY FormatAssumption
<1>2. Signed(num) \in Int
  BY SignedTyped
<1> DEFINE n == 0 - Signed(num)
<1>3. n \in Int
  BY <1>2
<1>4. n % WORD \in 0 .. WORD
  <2> HIDE DEF n
  <2>1. QED
    BY <1>1, <1>3, SMTT(30)
<1>5. QED
  BY <1>1, <1>4 DEF Magnitude

InParts(num, base, prec, type) ==
    \E s, m \in Seq(NumberChars(type)) :
        \A z \in Int : Number(num, base, z, prec, type) = Filled(s, m, z, type)

LEMMA NumberIsFilled ==
    ASSUME NEW num \in 0 .. WORD - 1, NEW base \in Bases, NEW prec \in Int, NEW type
    PROVE  InParts(num, base, prec, type)
<1> DEFINE V      == NumberChars(type)
           digits == Reverse(Tmp(Magnitude(num, type), base, type))
           s      == Sign(num, type) \o Special(base, type)
           m      == Repeat("0", prec - Len(digits)) \o digits
<1>1. s \in Seq(V)
  BY SignTyped, ConcatProperties
<1>2. digits \in Seq(V)
  BY MagnitudeTyped, TmpTyped, ReverseTyped
<1>3. m \in Seq(V)
  <2> HIDE DEF digits
  <2>1. "0" \in V
    BY DEF NumberChars
  <2> HIDE DEF V
  <2>2. Len(digits) \in Nat
    BY <1>2, LenProperties
  <2>3. prec - Len(digits) \in Int
    BY <2>2
  <2>4. QED
    BY <1>2, <2>1, <2>3, RepeatTyped, ConcatProperties
<1>4. \A z \in Int : Number(num, base, z, prec, type) = Filled(s, m, z, type)
  BY Zenon DEF Number, Filled, Blank
<1>5. QED
  <2> HIDE DEF s, m
  <2>1. QED
    BY <1>1, <1>3, <1>4 DEF InParts, V

\* The fill makes the field as long as it is meant to be and no longer, and
\* is the only difference a width makes.
FillOnly(long, bare, size, type) ==
    LET fills == Len(long) - Len(bare)
    IN  /\ Len(long) = Max({size, Len(bare)})
        /\ \/ long = bare \o Repeat(Blank, fills) /\ "LEFT" \in type
           \/ long = Repeat(Blank, fills) \o bare /\ "LEFT" \notin type
           \/ /\ {"LEFT", "ZEROPAD"} \cap type = {"ZEROPAD"}
              /\ \E i \in 0 .. Len(bare) :
                    long = SubSeq(bare, 1, i) \o Repeat("0", fills) \o
                             SubSeq(bare, i + 1, Len(bare))

LEMMA MaxOfTwo ==
    ASSUME NEW a \in Int, NEW b \in Int
    PROVE  Max({a, b}) = IF a > b THEN a ELSE b
<1> DEFINE m == IF a > b THEN a ELSE b
<1>1. m \in {a, b} /\ \A y \in {a, b} : m >= y
  OBVIOUS
<1>2. \A x \in {a, b} : (\A y \in {a, b} : x >= y) => x = m
  OBVIOUS
<1> HIDE DEF m
<1>3. Max({a, b}) = m
  BY <1>1, <1>2 DEF Max
<1>4. QED
  BY <1>3 DEF m

\* A sequence of two parts falls into them where the first ends.
LEMMA PartsOf ==
    ASSUME NEW V, NEW s \in Seq(V), NEW m \in Seq(V)
    PROVE  /\ SubSeq(s \o m, 1, Len(s)) = s
           /\ SubSeq(s \o m, Len(s) + 1, Len(s \o m)) = m
<1>1. /\ s \o m \in Seq(V) /\ Len(s \o m) = Len(s) + Len(m)
      /\ \A i \in 1 .. Len(s) + Len(m) :
            (s \o m)[i] = IF i <= Len(s) THEN s[i] ELSE m[i - Len(s)]
      /\ Len(s) \in Nat /\ Len(m) \in Nat
      /\ \A i \in 1 .. Len(s) + Len(m) : (s \o m)[i] \in V
  <2>1. s \o m \in Seq(V) /\ Len(s \o m) = Len(s) + Len(m)
    BY ConcatProperties
  <2>2. \A i \in 1 .. Len(s) + Len(m) :
            (s \o m)[i] = IF i <= Len(s) THEN s[i] ELSE m[i - Len(s)]
    BY ConcatProperties
  <2>3. Len(s) \in Nat /\ Len(m) \in Nat
    BY LenProperties
  <2>4. \A i \in 1 .. Len(s) + Len(m) : (s \o m)[i] \in V
    BY <2>1, ElementOfSeq
  <2>5. QED
    BY <2>1, <2>2, <2>3, <2>4
<1> DEFINE w == s \o m
           a == SubSeq(w, 1, Len(s))
           b == SubSeq(w, Len(s) + 1, Len(w))
<1>2. a \in Seq(V) /\ Len(a) = Len(s) /\ \A i \in 1 .. Len(s) : a[i] = w[i]
  <2> HIDE DEF w
  <2>1. \A i \in 1 .. Len(s) : w[i] \in V
    BY <1>1 DEF w
  <2>2. /\ a \in Seq(V) /\ Len(a) = IF 1 <= Len(s) THEN Len(s) - 1 + 1 ELSE 0
        /\ \A i \in 1 .. Len(s) - 1 + 1 : a[i] = w[1 + i - 1]
    BY <1>1, <2>1, SubSeqProperties
  <2> HIDE DEF a
  <2>3. QED
    BY <1>1, <2>2
<1>3. b \in Seq(V) /\ Len(b) = Len(m) /\ \A i \in 1 .. Len(m) : b[i] = w[Len(s) + i]
  <2> HIDE DEF w
  <2>1. Len(w) = Len(s) + Len(m) /\ \A i \in Len(s) + 1 .. Len(w) : w[i] \in V
    BY <1>1 DEF w
  <2>2. Len(s) + 1 \in Int /\ Len(w) \in Int
    BY <1>1, <2>1
  <2>3. /\ b \in Seq(V)
        /\ Len(b) = IF Len(s) + 1 <= Len(w) THEN Len(w) - (Len(s) + 1) + 1 ELSE 0
        /\ \A i \in 1 .. Len(w) - (Len(s) + 1) + 1 : b[i] = w[(Len(s) + 1) + i - 1]
    BY <2>1, <2>2, SubSeqProperties
  <2> HIDE DEF b
  <2>4. Len(b) = Len(m)
    BY <1>1, <2>1, <2>3
  <2>5. Len(w) - (Len(s) + 1) + 1 = Len(m)
    BY <1>1, <2>1
  <2>6. \A i \in 1 .. Len(m) : b[i] = w[(Len(s) + 1) + i - 1]
    BY <2>3, <2>5
  <2>7. \A i \in 1 .. Len(m) : (Len(s) + 1) + i - 1 = Len(s) + i
    BY <1>1
  <2>8. QED
    BY <2>3, <2>4, <2>6, <2>7
<1>4. \A i \in 1 .. Len(s) : a[i] = s[i]
  <2> HIDE DEF a
  <2>1. QED
    BY <1>1, <1>2
<1>5. \A i \in 1 .. Len(m) : b[i] = m[i]
  <2> HIDE DEF b
  <2>1. QED
    BY <1>1, <1>3
<1>6. a = s /\ b = m
  <2> HIDE DEF a, b
  <2>1. QED
    BY <1>2, <1>3, <1>4, <1>5, SeqEqual
<1>7. QED
  BY <1>6

LEMMA FilledFills ==
    ASSUME NEW V, Blank \in V, "0" \in V, NEW s \in Seq(V), NEW m \in Seq(V),
           NEW size \in Int, NEW type
    PROVE  FillOnly(Filled(s, m, size, type), Filled(s, m, -1, type), size, type)
<1> DEFINE fill   == size - Len(s) - Len(m)
           none   == -1 - Len(s) - Len(m)
           bare   == s \o m
           spaces == Repeat(Blank, fill)
           zeros  == Repeat("0", fill)
           long   == Filled(s, m, size, type)
           fills  == IF fill > 0 THEN fill ELSE 0
<1>1. Len(s) \in Nat /\ Len(m) \in Nat
  BY LenProperties
<1>2. fill \in Int /\ none \in Int /\ none <= 0
  BY <1>1
<1>3. Repeat(Blank, none) = <<>> /\ Repeat("0", none) = <<>>
  BY <1>2, RepeatTyped
<1>4. bare \in Seq(V) /\ Len(bare) = Len(s) + Len(m)
  BY ConcatProperties
<1>5. spaces \in Seq(V) /\ zeros \in Seq(V) /\ Len(spaces) = fills /\ Len(zeros) = fills
  BY <1>2, RepeatTyped
<1>6. s \o <<>> = s /\ <<>> \o s = s /\ bare \o <<>> = bare
  BY <1>4, ConcatEmptySeq
<1>7. "LEFT" \in type => long = bare \o spaces /\ Filled(s, m, -1, type) = bare
  BY <1>3, <1>6, Zenon DEF Filled
<1>8. "LEFT" \notin type /\ "ZEROPAD" \in type =>
          long = (s \o zeros) \o m /\ Filled(s, m, -1, type) = bare
  BY <1>3, <1>6, Zenon DEF Filled
<1>9. "LEFT" \notin type /\ "ZEROPAD" \notin type =>
          long = spaces \o bare /\ Filled(s, m, -1, type) = bare
  <2>1. (spaces \o s) \o m = spaces \o bare
    BY <1>5, ConcatAssociative, SMTT(60)
  <2>2. QED
    BY <1>3, <1>6, <2>1, Zenon DEF Filled
<1>10. Filled(s, m, -1, type) = bare
  BY <1>7, <1>8, <1>9
<1>11. Len(long) = fills + Len(bare)
  <2> HIDE DEF fills, spaces, zeros, long
  <2>1. CASE "LEFT" \in type
    <3>1. Len(bare \o spaces) = Len(bare) + fills
      <4> HIDE DEF bare
      <4>1. Len(bare \o spaces) = Len(bare) + Len(spaces)
        BY <1>4, <1>5, ConcatProperties
      <4>2. QED
        BY <1>5, <4>1
    <3>2. QED
      BY <1>1, <1>4, <1>5, <1>7, <2>1, <3>1, LenProperties
  <2>2. CASE "LEFT" \notin type /\ "ZEROPAD" \in type
    <3>1. s \o zeros \in Seq(V) /\ Len(s \o zeros) = Len(s) + fills
      BY <1>5, ConcatProperties, ZenonT(60)
    <3>2. Len((s \o zeros) \o m) = Len(s \o zeros) + Len(m)
      BY <3>1, ConcatProperties
    <3>3. fills \in Nat
      BY <1>5, LenProperties
    <3>4. QED
      BY <1>1, <1>4, <1>8, <2>2, <3>1, <3>2, <3>3
  <2>3. CASE "LEFT" \notin type /\ "ZEROPAD" \notin type
    <3>1. Len(spaces \o bare) = fills + Len(bare)
      <4> HIDE DEF bare
      <4>1. QED
        BY <1>4, <1>5, ConcatProperties
    <3>2. QED
      BY <1>9, <2>3, <3>1
  <2>4. QED
    BY <2>1, <2>2, <2>3
<1>12. Len(long) - Len(bare) = fills /\ Len(bare) \in Nat /\ fills \in Nat
  <2>1. fills \in Nat /\ Len(bare) \in Nat
    BY <1>1, <1>2, <1>4
  <2> HIDE DEF fills, long, bare
  <2>2. QED
    BY <1>11, <2>1
<1>13. Len(long) = Max({size, Len(bare)})
  <2>1. Max({size, Len(bare)}) = IF size > Len(bare) THEN size ELSE Len(bare)
    BY <1>12, MaxOfTwo
  <2>2. fill = size - Len(bare)
    BY <1>1, <1>4
  <2>3. fills + Len(bare) = IF size > Len(bare) THEN size ELSE Len(bare)
    <3> HIDE DEF bare, fill
    <3>1. QED
      BY <1>2, <1>12, <2>2
  <2> HIDE DEF long, bare, fills
  <2>4. QED
    BY <1>11, <2>1, <2>3
<1>14. Repeat(Blank, fills) = spaces /\ Repeat("0", fills) = zeros
  <2>1. CASE fill > 0
    BY <2>1
  <2>2. CASE ~ (fill > 0)
    <3>1. fills = 0 /\ fill <= 0
      BY <1>2, <2>2
    <3> HIDE DEF fills
    <3>2. spaces = <<>> /\ zeros = <<>>
      BY <1>2, <3>1, RepeatTyped
    <3>3. Repeat(Blank, 0) = <<>> /\ Repeat("0", 0) = <<>>
      <4>1. 0 \in Int /\ 0 <= 0
        OBVIOUS
      <4>2. \A c \in V, n \in Int : n <= 0 => Repeat(c, n) = <<>>
        BY RepeatTyped
      <4>3. QED
        BY <4>1, <4>2
    <3>4. QED
      BY <3>1, <3>2, <3>3
  <2>3. QED
    BY <2>1, <2>2
<1>15. "LEFT" \notin type /\ "ZEROPAD" \in type =>
          \E i \in 0 .. Len(bare) :
             long = SubSeq(bare, 1, i) \o zeros \o SubSeq(bare, i + 1, Len(bare))
  <2>1. SubSeq(bare, 1, Len(s)) = s /\ SubSeq(bare, Len(s) + 1, Len(bare)) = m
    BY PartsOf
  <2>2. Len(s) \in 0 .. Len(bare)
    BY <1>1, <1>4
  <2> HIDE DEF long, bare, zeros
  <2>3. QED
    BY <1>8, <2>1, <2>2
<1>16. {"LEFT", "ZEROPAD"} \cap type = {"ZEROPAD"} <=> "LEFT" \notin type /\ "ZEROPAD" \in type
  OBVIOUS
<1>17. FillOnly(long, bare, size, type)
  <2> HIDE DEF long, bare, zeros, spaces, fills, fill
  <2>1. CASE "LEFT" \in type
    BY <1>7, <1>12, <1>13, <1>14, <2>1 DEF FillOnly
  <2>2. CASE "LEFT" \notin type /\ "ZEROPAD" \in type
    BY <1>12, <1>13, <1>14, <1>15, <1>16, <2>2 DEF FillOnly
  <2>3. CASE "LEFT" \notin type /\ "ZEROPAD" \notin type
    BY <1>9, <1>12, <1>13, <1>14, <2>3 DEF FillOnly
  <2>4. QED
    BY <2>1, <2>2, <2>3
<1>18. QED
  <2> HIDE DEF bare
  <2>1. QED
    BY <1>10, <1>17

-----------------------------------------------------------------------------
(***************************************************************************)
(* The directive in progress, and what number() was called with when a     *)
(* number has been written.                                                *)
(***************************************************************************)
Directives ==
    [flags : SUBSET {"LEFT", "PLUS", "SPACE", "SPECIAL", "ZEROPAD"},
     field_width : Int, precision : Int]

FieldInv ==
    /\ dir \in Directives
    /\ Converted(Numbers) =>
          /\ arg \in 0 .. WORD - 1
          /\ out = Number(arg, Base(fmt), SizeOf(fmt), dir.precision, TypeOf(fmt))

LEMMA DigitValue ==
    ASSUME IsDigit(fmt), NEW n \in Int
    PROVE  Appended(n) \in Int
<1>1. \E d \in 0 .. 9 : Digits[d + 1] = fmt
  <2>1. PICK i \in 1 .. 10 : Digits[i] = fmt
    BY DEF IsDigit, ToSet, Digits
  <2>2. i - 1 \in 0 .. 9 /\ (i - 1) + 1 = i
    OBVIOUS
  <2>3. Digits[(i - 1) + 1] = fmt
    BY <2>1, <2>2
  <2>4. QED
    BY <2>2, <2>3
<1>2. ValueOf(fmt) \in 0 .. 9
  BY <1>1 DEF ValueOf
<1>3. QED
  BY <1>2 DEF Appended

LEMMA FlagIs ==
    ASSUME fmt \in FlagChars
    PROVE  FlagOf(fmt) \in {"LEFT", "PLUS", "SPACE", "SPECIAL", "ZEROPAD"}
<1>1. CASE fmt = "-"
  BY <1>1 DEF FlagOf
<1>2. CASE fmt = "+"
  BY <1>2 DEF FlagOf
<1>3. CASE fmt = " "
  BY <1>3 DEF FlagOf
<1>4. CASE fmt = "#"
  BY <1>4 DEF FlagOf
<1>5. CASE fmt = "0"
  BY <1>5 DEF FlagOf
<1>6. QED
  BY <1>1, <1>2, <1>3, <1>4, <1>5 DEF FlagChars

LEMMA StarsAreNumbers == Stars \subseteq Int
BY FormatAssumption

LEMMA AtLeastZero ==
    ASSUME NEW n \in Int
    PROVE  Max({n, 0}) \in Int
BY MaxOfTwo

\* Every directive keeps its type, whatever it reads.
LEMMA DirectiveTyped ==
    ASSUME dir \in Directives, Next
    PROVE  dir' \in Directives
<1>1. dir.field_width \in Int /\ dir.precision \in Int
  BY DEF Directives
<1>2. NoDirective \in Directives
  BY DEF NoDirective, Directives
<1>3. CASE Flag
  <2>1. dir' = [dir EXCEPT !.flags = dir.flags \cup {FlagOf(fmt)}]
    BY <1>3 DEF Flag
  <2>2. FlagOf(fmt) \in {"LEFT", "PLUS", "SPACE", "SPECIAL", "ZEROPAD"}
    BY <1>3, FlagIs DEF Flag
  <2>3. QED
    BY <2>1, <2>2 DEF Directives
<1>4. CASE WidthDigit
  <2>1. dir' = [dir EXCEPT !.field_width = Appended(dir.field_width)]
    BY <1>4 DEF WidthDigit
  <2>2. Appended(dir.field_width) \in Int
    BY <1>1, <1>4, DigitValue DEF WidthDigit
  <2>3. QED
    BY <2>1, <2>2 DEF Directives
<1>5. CASE WidthStar
  <2>1. PICK n \in Int : dir' = Starred(n)
    BY <1>5, StarsAreNumbers DEF WidthStar
  <2> DEFINE width == IF n < 0 THEN 0 - n ELSE n
             flags == IF n < 0 THEN dir.flags \cup {"LEFT"} ELSE dir.flags
  <2>2. dir' = [dir EXCEPT !.field_width = width, !.flags = flags]
    BY <2>1 DEF Starred
  <2>3. width \in Int
    OBVIOUS
  <2>4. flags \in SUBSET {"LEFT", "PLUS", "SPACE", "SPECIAL", "ZEROPAD"}
    BY DEF Directives
  <2> HIDE DEF width, flags
  <2>5. QED
    BY <2>2, <2>3, <2>4 DEF Directives
<1>6. CASE PrecisionDigit
  <2>1. dir' = [dir EXCEPT !.precision = Appended(dir.precision)]
    BY <1>6 DEF PrecisionDigit
  <2>2. Appended(dir.precision) \in Int
    BY <1>1, <1>6, DigitValue DEF PrecisionDigit
  <2>3. QED
    BY <2>1, <2>2 DEF Directives
<1>7. CASE PrecisionStar \/ PrecisionDone
  <2>1. PICK n \in Int : dir' = [dir EXCEPT !.precision = Max({n, 0})]
    BY <1>1, <1>7, StarsAreNumbers DEF PrecisionStar, PrecisionDone
  <2>2. Max({n, 0}) \in Int
    BY AtLeastZero
  <2>3. QED
    BY <2>1, <2>2 DEF Directives
<1>8. CASE Written
  BY <1>2, <1>8 DEF Written
<1>9. CASE Copy \/ End \/ Directive \/ NoFlag \/ WidthDone \/ Point \/ NoPoint
  BY <1>9 DEF Copy, End, Directive, NoFlag, WidthDone, Point, NoPoint
<1>10. CASE Qualified \/ Unqualified \/ ConvertNumber \/ ConvertText \/ ConvertNothing
            \/ ConvertUnknown
  BY <1>10 DEF Qualified, Unqualified, ConvertNumber, ConvertText, ConvertNothing,
               ConvertUnknown, Convert
<1>11. QED
  BY <1>3, <1>4, <1>5, <1>6, <1>7, <1>8, <1>9, <1>10 DEF Next

\* Only the conversion of a number leaves a number written.
LEMMA NumberWritten ==
    ASSUME Next, Converted(Numbers)'
    PROVE  ConvertNumber
<1>1. pc' = "written" /\ fmt' \in Numbers
  BY DEF Converted
<1>2. ~ (Copy \/ End \/ Directive \/ Flag \/ NoFlag)
  BY <1>1 DEF Copy, End, Directive, Flag, NoFlag, Eat, Peek, Parse
<1>3. ~ (WidthDigit \/ WidthStar \/ WidthDone \/ Point \/ NoPoint)
  BY <1>1 DEF WidthDigit, WidthStar, WidthDone, Point, NoPoint, Eat, Peek, Parse
<1>4. ~ (PrecisionDigit \/ PrecisionStar \/ PrecisionDone)
  BY <1>1 DEF PrecisionDigit, PrecisionStar, PrecisionDone, Eat, Peek, Parse
<1>5. ~ (Qualified \/ Unqualified \/ Written)
  BY <1>1 DEF Qualified, Unqualified, Written, Eat, Peek, Parse
<1>6. ~ (ConvertText \/ ConvertNothing \/ ConvertUnknown)
  <2>1. "s" \notin Numbers /\ "c" \notin Numbers /\ "n" \notin Numbers
    BY DEF Numbers
  <2>2. QED
    BY <1>1, <2>1 DEF ConvertText, ConvertNothing, ConvertUnknown, Convert, Unknown
<1>7. QED
  BY <1>2, <1>3, <1>4, <1>5, <1>6 DEF Next

LEMMA FieldKept == Spec => []FieldInv
<1>1. Init => FieldInv
  BY DEF Init, FieldInv, Converted, NoDirective, Directives
<1>2. FieldInv /\ [Next]_vars => FieldInv'
  <2>1. SUFFICES ASSUME FieldInv, Next PROVE FieldInv'
    <3>1. FieldInv /\ UNCHANGED vars => FieldInv'
      <4>1. SUFFICES ASSUME FieldInv, UNCHANGED vars PROVE FieldInv'
        OBVIOUS
      <4>2. pc' = pc /\ fmt' = fmt /\ dir' = dir /\ arg' = arg /\ out' = out
        BY <4>1 DEF vars
      <4>3. SizeOf(fmt)' = SizeOf(fmt) /\ TypeOf(fmt)' = TypeOf(fmt)
        BY <4>2, Zenon DEF SizeOf, TypeOf
      <4>4. QED
        BY <4>1, <4>2, <4>3 DEF FieldInv, Converted
    <3>2. QED
      BY <3>1
  <2>2. dir' \in Directives
    BY <2>1, DirectiveTyped DEF FieldInv
  <2>3. ASSUME Converted(Numbers)'
        PROVE  /\ arg' \in 0 .. WORD - 1
               /\ out' = Number(arg', Base(fmt'), SizeOf(fmt)', dir'.precision, TypeOf(fmt)')
    <3>1. ConvertNumber
      BY <2>1, <2>3, NumberWritten
    <3>2. /\ fmt' = fmt /\ dir' = dir /\ arg' \in 0 .. WORD - 1
          /\ out' = Number(arg', Base(fmt), SizeOf(fmt), dir.precision, TypeOf(fmt))
      BY <3>1 DEF ConvertNumber, Convert
    <3>3. SizeOf(fmt)' = SizeOf(fmt) /\ TypeOf(fmt)' = TypeOf(fmt)
      BY <3>2, Zenon DEF SizeOf, TypeOf
    <3>4. QED
      BY <3>2, <3>3
  <2>4. QED
    BY <2>2, <2>3 DEF FieldInv
<1>3. QED
  BY <1>1, <1>2, PTL DEF Spec

LEMMA BaseCases ==
    /\ fmt = "o" => Base(fmt) = 8
    /\ fmt = "b" => Base(fmt) = 2
    /\ fmt \in {"d", "i", "u"} => Base(fmt) = 10
    /\ fmt \in {"x", "X", "p"} => Base(fmt) = 16
BY DEF Base

LEMMA BaseIs ==
    ASSUME fmt \in Numbers
    PROVE  Base(fmt) \in Bases
BY BaseCases DEF Numbers, Bases

LEMMA SizeTyped ==
    ASSUME dir \in Directives
    PROVE  SizeOf(fmt) \in Int
BY DEF SizeOf, Directives

\* A directive adds flags of its own, but none for the left.
LEMMA LeftKept == "LEFT" \in TypeOf(fmt) <=> "LEFT" \in dir.flags
<1>1. CASE fmt \in {"d", "i"}
  BY <1>1 DEF TypeOf
<1>2. CASE fmt = "x"
  BY <1>2 DEF TypeOf
<1>3. CASE fmt = "p" /\ dir.field_width = -1
  BY <1>3 DEF TypeOf
<1>4. CASE ~ (fmt \in {"d", "i"}) /\ fmt # "x" /\ ~ (fmt = "p" /\ dir.field_width = -1)
  BY <1>4, Zenon DEF TypeOf
<1>5. QED
  BY <1>1, <1>2, <1>3, <1>4

LEMMA NumberFills ==
    ASSUME NEW num \in 0 .. WORD - 1, NEW base \in Bases, NEW prec \in Int,
           NEW size \in Int, NEW type
    PROVE  FillOnly(Number(num, base, size, prec, type), Number(num, base, -1, prec, type),
                    size, type)
<1>1. InParts(num, base, prec, type)
  BY NumberIsFilled
<1>2. PICK s \in Seq(NumberChars(type)), m \in Seq(NumberChars(type)) :
          \A z \in Int : Number(num, base, z, prec, type) = Filled(s, m, z, type)
  BY <1>1 DEF InParts
<1>3. Blank \in NumberChars(type) /\ "0" \in NumberChars(type)
  BY DEF Blank, NumberChars
<1>4. FillOnly(Filled(s, m, size, type), Filled(s, m, -1, type), size, type)
  BY <1>3, FilledFills
<1>5. -1 \in Int
  OBVIOUS
<1>6. QED
  BY <1>2, <1>4, <1>5

(***************************************************************************)
(* A width only adds the fill, and makes the field exactly as long as it   *)
(* says: for every number of any word, in every base, with any precision   *)
(* and any flags.                                                          *)
(***************************************************************************)
THEOREM FieldsExact == Spec => []FieldFilled
<1>1. FieldInv => FieldFilled
  <2>1. SUFFICES ASSUME FieldInv, Converted(Numbers) PROVE FieldFilled
    BY DEF FieldFilled
  <2> DEFINE bare == Number(arg, Base(fmt), -1, dir.precision, TypeOf(fmt))
  <2>2. /\ fmt \in Numbers /\ arg \in 0 .. WORD - 1 /\ dir \in Directives
        /\ out = Number(arg, Base(fmt), SizeOf(fmt), dir.precision, TypeOf(fmt))
    BY <2>1 DEF FieldInv, Converted
  <2>3. dir.precision \in Int
    BY <2>2 DEF Directives
  <2>4. FillOnly(out, bare, SizeOf(fmt), TypeOf(fmt))
    BY <2>2, <2>3, BaseIs, SizeTyped, NumberFills
  <2> HIDE DEF bare
  <2>5. QED
    BY <2>4, LeftKept, ZenonT(60) DEF FillOnly, FieldFilled, Blank, bare
<1>2. QED
  BY <1>1, FieldKept, PTL

-----------------------------------------------------------------------------
(***************************************************************************)
(* A number and its digits: what is left of it without its last digits.    *)
(***************************************************************************)
\* Repeating a step is possible any number of times.
Iterates(f, k, V, first, step) ==
    /\ f \in [0 .. k -> V]
    /\ \A i \in 0 .. k : f[i] = IF i = 0 THEN first ELSE step[<<i, f[i - 1]>>]

LEMMA IterationExists ==
    ASSUME NEW V, NEW first \in V, NEW step \in [Nat \X V -> V], NEW k \in Nat
    PROVE  \E f : Iterates(f, k, V, first, step)
<1> DEFINE Bad == {j \in Nat : ~ \E f : Iterates(f, j, V, first, step)}
<1>1. SUFFICES ASSUME Bad # {} PROVE FALSE
  OBVIOUS
<1>2. PICK j \in Bad : \A m \in Bad : j <= m
  BY <1>1, LeastNatural
<1>3. j # 0
  <2> DEFINE f == [n \in 0 .. 0 |-> first]
  <2>1. Iterates(f, 0, V, first, step)
    BY DEF Iterates
  <2>2. QED
    BY <1>2, <2>1
<1>4. j \in Nat /\ j - 1 \in Nat /\ j - 1 \notin Bad
  BY <1>2, <1>3
<1>5. PICK f : Iterates(f, j - 1, V, first, step)
  BY <1>4
<1> DEFINE last == step[<<j, f[j - 1]>>]
           g    == [n \in 0 .. j |-> IF n = j THEN last ELSE f[n]]
<1>6. last \in V /\ f[j - 1] \in V
  BY <1>4, <1>5 DEF Iterates
<1>7. g \in [0 .. j -> V]
  <2>1. \A n \in 0 .. j : n # j => n \in 0 .. (j - 1)
    BY <1>4
  <2> HIDE DEF last
  <2>2. QED
    BY <1>5, <1>6, <2>1 DEF Iterates
<1>8. \A i \in 0 .. j : g[i] = IF i = 0 THEN first ELSE step[<<i, g[i - 1]>>]
  <2>1. SUFFICES ASSUME NEW i \in 0 .. j
                 PROVE  g[i] = IF i = 0 THEN first ELSE step[<<i, g[i - 1]>>]
    OBVIOUS
  <2>2. i # 0 => i - 1 \in 0 .. (j - 1) /\ i - 1 \in 0 .. j /\ i - 1 # j
    BY <1>4, <2>1
  <2>3. i # 0 => g[i - 1] = f[i - 1]
    BY <2>2
  <2>4. CASE i = j
    <3>1. g[i] = last
      <4> HIDE DEF last
      <4>1. QED
        BY <2>1, <2>4
    <3> HIDE DEF g
    <3>2. QED
      BY <1>3, <2>3, <2>4, <3>1
  <2>5. CASE i # j
    <3>1. i \in 0 .. (j - 1)
      BY <1>4, <2>1, <2>5
    <3>2. g[i] = f[i]
      <4> HIDE DEF last
      <4>1. QED
        BY <2>1, <2>5
    <3>3. f[i] = IF i = 0 THEN first ELSE step[<<i, f[i - 1]>>]
      BY <1>5, <3>1 DEF Iterates
    <3> HIDE DEF g
    <3>4. QED
      BY <2>3, <3>2, <3>3
  <2>6. QED
    BY <2>4, <2>5
<1>9. Iterates(g, j, V, first, step)
  <2> HIDE DEF g
  <2>1. QED
    BY <1>7, <1>8 DEF Iterates
<1>10. QED
  BY <1>2, <1>9

\* q[k] is num without its last k digits.
Shifted(q, num, base) ==
    q = [k \in 0 .. WORD |-> IF k = 0 THEN num ELSE q[k - 1] \div base]

LEMMA ShiftExists ==
    ASSUME NEW num \in Nat, NEW base \in Bases
    PROVE  \E q : Shifted(q, num, base)
<1> DEFINE step == [p \in Nat \X Nat |-> p[2] \div base]
<1>1. step \in [Nat \X Nat -> Nat]
  <2>1. \A n \in Nat : n \div base \in Nat
    <3>1. \A n \in Nat : n \div 2 \in Nat /\ n \div 8 \in Nat /\ n \div 10 \in Nat /\ n \div 16 \in Nat
      OBVIOUS
    <3>2. QED
      BY <3>1 DEF Bases
  <2>2. QED
    BY <2>1
<1>2. \A i, n \in Nat : step[<<i, n>>] = n \div base
  OBVIOUS
<1> HIDE DEF step
<1>3. PICK q : Iterates(q, WORD, Nat, num, step)
  BY <1>1, WordIsNat, IterationExists
<1>4. \A i \in 0 .. WORD : q[i] = IF i = 0 THEN num ELSE q[i - 1] \div base
  <2>1. SUFFICES ASSUME NEW i \in 0 .. WORD, i # 0 PROVE q[i] = q[i - 1] \div base
    BY <1>3 DEF Iterates
  <2>2. i \in Nat /\ i - 1 \in 0 .. WORD
    BY <2>1, WordIsNat
  <2>3. q[i - 1] \in Nat
    BY <1>3, <2>2 DEF Iterates
  <2>4. QED
    BY <1>2, <1>3, <2>1, <2>2, <2>3 DEF Iterates
<1>5. q = [k \in 0 .. WORD |-> q[k]]
  BY <1>3 DEF Iterates
<1>6. QED
  BY <1>4, <1>5 DEF Shifted

\* k is how many digits the number has that q shifts.
IsLength(k, q) ==
    k \in 1 .. WORD /\ q[k] = 0 /\ \A j \in 1 .. k - 1 : q[j] # 0

DigitOf(n, base, t) == t[(n % base) + 1]

\* s is one digit, that of n, and the sequence rest.
DigitThen(s, n, base, t, rest) ==
    /\ Len(s) = 1 + Len(rest)
    /\ s[1] = DigitOf(n, base, t)
    /\ \A i \in 1 .. Len(rest) : s[1 + i] = rest[i]

\* The first of the digits is the last of the number, and the rest are those
\* of what is left of it.
LEMMA DivisionStep ==
    ASSUME NEW base \in Bases, NEW t, NEW V, \A i \in 1 .. 16 : t[i] \in V,
           NEW f, Divided(f, WORD, base, t), NEW n \in 1 .. WORD
    PROVE  /\ n \div base \in 0 .. n - 1
           /\ f[n \div base] \in Seq(V)
           /\ f[n] \in Seq(V)
           /\ DigitThen(f[n], n, base, t, f[n \div base])
<1>1. n \in 0 .. WORD /\ n # 0 /\ n \in Nat
  BY WordIsNat
<1>2. n \div base \in 0 .. (n - 1) /\ (n % base) + 1 \in 1 .. 16
  BY <1>1, Quotient
<1>3. n \div base \in 0 .. WORD
  BY <1>1, <1>2, WordIsNat
<1> DEFINE digit == DigitOf(n, base, t)
           rest  == f[n \div base]
<1>4. digit \in V
  BY <1>2 DEF DigitOf
<1>5. rest \in Seq(V) /\ f[n] \in Seq(V)
  BY <1>1, <1>3, WordIsNat, DivisionTyped
<1>6. f[n] = <<digit>> \o rest
  BY <1>1 DEF Divided, DigitOf
<1> HIDE DEF digit, rest
<1>7. <<digit>> \in Seq(V) /\ Len(<<digit>>) = 1 /\ <<digit>>[1] = digit
  BY <1>4
<1>8. /\ Len(f[n]) = 1 + Len(rest)
      /\ f[n][1] = digit
      /\ \A i \in 1 .. Len(rest) : f[n][1 + i] = rest[i]
  <2>1. Len(rest) \in Nat
    BY <1>5, LenProperties
  <2>2. QED
    BY <1>5, <1>6, <1>7, <2>1
<1>9. QED
  BY <1>2, <1>5, <1>8 DEF digit, rest, DigitThen

\* All but the first k of the digits are those of what q leaves after k.
Remains(f, num, q, k, V) ==
    /\ k <= WORD /\ q[k] \in 0 .. WORD - k
    /\ f[q[k]] \in Seq(V)
    /\ Len(f[q[k]]) = Len(f[num]) - k
    /\ \A i \in 1 .. Len(f[num]) - k : f[q[k]][i] = f[num][k + i]

\* Dividing on and on is taking off the last digits one by one.
LEMMA DivisionShifts ==
    ASSUME NEW base \in Bases, NEW t, NEW V, \A i \in 1 .. 16 : t[i] \in V,
           NEW f, Divided(f, WORD, base, t), NEW num \in 1 .. WORD,
           NEW q, Shifted(q, num, base), NEW k \in 0 .. Len(f[num])
    PROVE  Remains(f, num, q, k, V)
<1> DEFINE L == Len(f[num])
           Bad == {j \in 0 .. L : ~ Remains(f, num, q, j, V)}
<1>1. f[num] \in Seq(V) /\ L \in Nat
  BY DivisionStep, LenProperties
<1>2. SUFFICES ASSUME Bad # {} PROVE FALSE
  OBVIOUS
<1> HIDE DEF L
<1>3. Bad \subseteq Nat
  BY <1>1
<1>4. PICK j \in Bad : \A m \in Bad : j <= m
  BY <1>2, <1>3, LeastNatural
<1>5. j \in 0 .. L /\ ~ Remains(f, num, q, j, V)
  BY <1>4
<1>6. q[0] = num /\ num \in Nat
  BY WordIsNat DEF Shifted
<1>7. j # 0
  <2>1. Remains(f, num, q, 0, V)
    <3>1. q[0] \in 0 .. WORD - 0 /\ 0 <= WORD
      BY <1>6, WordIsNat
    <3>2. f[q[0]] \in Seq(V) /\ Len(f[q[0]]) = L - 0
      BY <1>1, <1>6 DEF L
    <3>3. \A i \in 1 .. L - 0 : f[q[0]][i] = f[num][0 + i]
      BY <1>1, <1>6
    <3>4. QED
      BY <3>1, <3>2, <3>3 DEF Remains, L
  <2>2. QED
    BY <1>5, <2>1
<1>8. j - 1 \in 0 .. L /\ j - 1 \notin Bad
  BY <1>1, <1>4, <1>5, <1>7
<1>9. Remains(f, num, q, j - 1, V)
  BY <1>8
<1> DEFINE n == q[j - 1]
<1>10. /\ j - 1 <= WORD /\ n \in 0 .. WORD - (j - 1) /\ f[n] \in Seq(V)
       /\ Len(f[n]) = L - (j - 1)
       /\ \A i \in 1 .. L - (j - 1) : f[n][i] = f[num][(j - 1) + i]
  BY <1>9 DEF Remains, L
<1> HIDE DEF n, Bad
<1>11. n # 0
  <2>1. f[0] = <<>>
    BY WordIsNat DEF Divided
  <2>2. Len(f[n]) > 0
    BY <1>1, <1>5, <1>10
  <2>3. QED
    BY <2>1, <2>2
<1>12. n \in 1 .. WORD /\ j \in 1 .. WORD
  <2>1. j \in Nat /\ j >= 1 /\ n \in 0 .. WORD - (j - 1)
    BY <1>1, <1>5, <1>7, <1>10
  <2>2. QED
    BY <1>11, <2>1, WordIsNat, SMTT(60)
<1>13. q[j] = n \div base
  <2>1. j \in 0 .. WORD
    BY <1>12, WordIsNat
  <2>2. QED
    BY <1>7, <2>1 DEF Shifted, n
<1> DEFINE m == n \div base
<1>14. m \in 0 .. n - 1 /\ f[m] \in Seq(V) /\ DigitThen(f[n], n, base, t, f[m])
  BY <1>12, DivisionStep
<1>15. q[j] = m
  BY <1>13
<1>16. /\ m \in 0 .. n - 1 /\ f[m] \in Seq(V) /\ Len(f[n]) = 1 + Len(f[m])
       /\ \A i \in 1 .. Len(f[m]) : f[n][1 + i] = f[m][i]
  BY <1>14 DEF DigitThen
<1> HIDE DEF m
<1>17. Len(f[m]) = L - j
  <2>1. Len(f[m]) \in Nat
    BY <1>16, LenProperties
  <2>2. Len(f[n]) = L - (j - 1) /\ Len(f[n]) = 1 + Len(f[m])
    BY <1>10, <1>16
  <2>3. L \in Nat /\ j \in 0 .. L
    BY <1>1, <1>5
  <2>4. L - (j - 1) = (L - j) + 1
    BY <2>3
  <2> DEFINE a == Len(f[m])
  <2>5. a \in Nat /\ 1 + a = (L - j) + 1
    BY <2>1, <2>2, <2>4
  <2> HIDE DEF a
  <2>6. a = L - j
    BY <2>3, <2>5
  <2>7. QED
    BY <2>6 DEF a
<1>18. \A i \in 1 .. L - j : f[m][i] = f[num][j + i]
  <2>1. SUFFICES ASSUME NEW i \in 1 .. L - j PROVE f[m][i] = f[num][j + i]
    OBVIOUS
  <2>2. f[m][i] = f[n][1 + i]
    BY <1>16, <1>17
  <2>3. 1 + i \in 1 .. L - (j - 1) /\ (j - 1) + (1 + i) = j + i
    BY <1>1, <1>5, <2>1
  <2>4. f[n][1 + i] = f[num][(j - 1) + (1 + i)]
    BY <1>10, <2>3
  <2>5. QED
    BY <2>2, <2>3, <2>4
<1>19. m \in 0 .. WORD - j /\ j <= WORD
  BY <1>10, <1>12, <1>16, WordIsNat
<1>20. Remains(f, num, q, j, V)
  BY <1>15, <1>16, <1>17, <1>18, <1>19 DEF Remains, L
<1>21. QED
  BY <1>5, <1>20

IsNumeral(digits, k, q, base, t) ==
    /\ IsLength(k, q)
    /\ digits = [i \in 1 .. k |-> DigitOf(q[k - i], base, t)]

\* What number() writes of a number's magnitude is its numeral: as many
\* digits as it has, none of them left out and none of them in front.
LEMMA TmpIsNumeral ==
    ASSUME NEW num \in 0 .. WORD, NEW base \in Bases, NEW type,
           NEW q, Shifted(q, num, base)
    PROVE  \E k : IsNumeral(Reverse(Tmp(num, base, type)), k, q, base, DigitTable(type))
<1> DEFINE t == DigitTable(type)
           V == NumberChars(type)
           T == Tmp(num, base, type)
           k == Len(T)
<1>1. PICK div : /\ Divided(div, WORD, base, t)
                 /\ T = IF num = 0 THEN <<"0">> ELSE div[num]
  BY TmpDivides
<1>2. \A i \in 1 .. 16 : t[i] \in V
  BY TableTyped
<1>3. T \in Seq(V) /\ k \in Nat
  BY TmpTyped, LenProperties
<1>4. t[1] = "0"
  BY DEF DigitTable, UpperCase, LowerCase
<1>5. q[0] = num /\ WORD > 0 /\ WORD \in Nat
  BY FormatAssumption DEF Shifted
<1> HIDE DEF t, V, T
<1>6. IsLength(k, q) /\ \A i \in 1 .. k : T[i] = DigitOf(q[i - 1], base, t)
  <2>1. CASE num = 0
    <3>1. k = 1 /\ T[1] = "0"
      BY <1>1, <2>1
    <3>2. 0 \div base = 0 /\ 0 % base = 0
      BY DEF Bases
    <3>3. q[1] = 0
      <4>1. q[1] = q[0] \div base
        BY <1>5 DEF Shifted
      <4>2. QED
        BY <1>5, <2>1, <3>2, <4>1
    <3>4. DigitOf(q[0], base, t) = "0"
      BY <1>4, <1>5, <2>1, <3>2 DEF DigitOf
    <3> HIDE DEF k
    <3>5. IsLength(k, q)
      BY <1>5, <3>1, <3>3 DEF IsLength
    <3>6. QED
      BY <3>1, <3>4, <3>5
  <2>2. CASE num # 0
    <3>1. num \in 1 .. WORD /\ T = div[num]
      BY <1>1, <1>5, <2>2
    <3>2. \A j \in 0 .. k : Remains(div, num, q, j, V)
      BY <1>1, <1>2, <3>1, DivisionShifts
    <3> HIDE DEF k
    <3>3. div[0] = <<>>
      BY <1>1, <1>5 DEF Divided
    <3>4. \A j \in 0 .. k - 1 : q[j] \in 1 .. WORD /\ T[j + 1] = DigitOf(q[j], base, t)
      <4>1. SUFFICES ASSUME NEW j \in 0 .. k - 1
                     PROVE  q[j] \in 1 .. WORD /\ T[j + 1] = DigitOf(q[j], base, t)
        OBVIOUS
      <4>2. j \in 0 .. k /\ 1 \in 1 .. k - j
        BY <1>3, <4>1
      <4>3. q[j] \in 0 .. WORD - j /\ Len(div[q[j]]) = k - j /\ div[q[j]][1] = T[j + 1]
        BY <3>1, <3>2, <4>2 DEF Remains, k
      <4>4. q[j] # 0
        BY <1>3, <3>3, <4>2, <4>3
      <4>5. q[j] \in 1 .. WORD
        BY <1>5, <4>1, <4>3, <4>4
      <4>6. DigitThen(div[q[j]], q[j], base, t, div[q[j] \div base])
        BY <1>1, <1>2, <4>5, DivisionStep
      <4>7. QED
        BY <4>3, <4>5, <4>6 DEF DigitThen
    <3>5. q[k] = 0
      <4>1. k \in 0 .. k
        BY <1>3
      <4>2. q[k] \in 0 .. WORD /\ Len(div[q[k]]) = 0 /\ k <= WORD
        <5>1. q[k] \in 0 .. WORD - k /\ Len(div[q[k]]) = Len(div[num]) - k /\ k <= WORD
          BY <3>2, <4>1 DEF Remains
        <5>2. Len(div[num]) = k
          BY <3>1 DEF k
        <5>3. QED
          BY <1>3, <1>5, <5>1, <5>2
      <4>3. ASSUME q[k] \in 1 .. WORD PROVE FALSE
        <5> DEFINE m == q[k] \div base
        <5>1. div[m] \in Seq(V) /\ DigitThen(div[q[k]], q[k], base, t, div[m])
          BY <1>1, <1>2, <4>3, DivisionStep
        <5> HIDE DEF m
        <5>2. Len(div[m]) \in Nat /\ Len(div[q[k]]) = 1 + Len(div[m])
          BY <5>1, LenProperties DEF DigitThen
        <5>3. QED
          BY <4>2, <5>2
      <4>4. QED
        BY <1>5, <4>2, <4>3
    <3>6. k # 0
      BY <1>5, <2>2, <3>5
    <3>7. k <= WORD
      BY <1>3, <3>2 DEF Remains
    <3>8. IsLength(k, q)
      BY <1>3, <3>4, <3>5, <3>6, <3>7 DEF IsLength
    <3>9. \A i \in 1 .. k : T[i] = DigitOf(q[i - 1], base, t)
      <4>1. SUFFICES ASSUME NEW i \in 1 .. k PROVE T[i] = DigitOf(q[i - 1], base, t)
        OBVIOUS
      <4>2. i - 1 \in 0 .. k - 1 /\ (i - 1) + 1 = i
        BY <1>3, <4>1
      <4>3. QED
        BY <3>4, <4>2
    <3>10. QED
      BY <3>8, <3>9
  <2>3. QED
    BY <2>1, <2>2
<1>7. Reverse(T) = [i \in 1 .. k |-> DigitOf(q[k - i], base, t)]
  <2>1. Reverse(T) = [i \in 1 .. k |-> T[(k - i) + 1]]
    BY DEF Reverse
  <2> HIDE DEF k
  <2>2. \A i \in 1 .. k : T[(k - i) + 1] = DigitOf(q[k - i], base, t)
    <3>1. SUFFICES ASSUME NEW i \in 1 .. k
                   PROVE  T[(k - i) + 1] = DigitOf(q[k - i], base, t)
      OBVIOUS
    <3>2. (k - i) + 1 \in 1 .. k /\ ((k - i) + 1) - 1 = k - i
      BY <1>3, <3>1
    <3>3. T[(k - i) + 1] = DigitOf(q[((k - i) + 1) - 1], base, t)
      BY <1>6, <3>2
    <3>4. QED
      BY <3>2, <3>3
  <2>3. QED
    BY <2>1, <2>2
<1>8. QED
  BY <1>6, <1>7 DEF t, T, IsNumeral

-----------------------------------------------------------------------------
(***************************************************************************)
(* Reading a text back, character by character.                            *)
(***************************************************************************)
\* No two digits look the same.
LEMMA DigitsApart ==
    ASSUME NEW type, NEW d \in 0 .. 15, NEW n \in 0 .. 15,
           DigitTable(type)[d + 1] \in {UpperCase[n + 1], LowerCase[n + 1]}
    PROVE  n = d
BY DEF DigitTable, UpperCase, LowerCase

LEMMA DigitReads ==
    ASSUME NEW type, NEW d \in 0 .. 15, NEW n, NEW base
    PROVE  Read(n, DigitTable(type)[d + 1], base) = n * base + d
<1> DEFINE c == DigitTable(type)[d + 1]
<1>1. c = UpperCase[d + 1] \/ c = LowerCase[d + 1]
  BY DEF DigitTable
<1>2. DOMAIN UpperCase = 1 .. 16 /\ DOMAIN LowerCase = 1 .. 16
  BY DEF UpperCase, LowerCase
<1>3. c \in HexDigits
  <2>1. d + 1 \in 1 .. 16
    OBVIOUS
  <2> HIDE DEF c
  <2>2. QED
    BY <1>1, <1>2, <2>1 DEF HexDigits, ToSet
<1>4. HexValue(c) = d
  <2>1. \A n_1 \in 0 .. 15 : c \in {UpperCase[n_1 + 1], LowerCase[n_1 + 1]} => n_1 = d
    BY DigitsApart
  <2> HIDE DEF c
  <2>2. QED
    BY <1>1, <2>1 DEF HexValue
<1>5. QED
  BY <1>3, <1>4 DEF Read

\* What stands around the digits of a number.
Around == {"0", Blank, "-", "+", "x", "X"}

LEMMA NoDigits ==
    /\ Blank \notin HexDigits /\ "-" \notin HexDigits /\ "+" \notin HexDigits
    /\ "x" \notin HexDigits /\ "X" \notin HexDigits
<1>1. HexDigits = {UpperCase[i] : i \in 1 .. 16} \cup {LowerCase[i] : i \in 1 .. 16}
  BY DEF HexDigits, ToSet, UpperCase, LowerCase
<1>2. \A i \in 1 .. 16 : /\ UpperCase[i] \notin {"-", "+", "x", "X"}
                          /\ LowerCase[i] \notin {"-", "+", "x", "X"}
  BY DEF UpperCase, LowerCase
<1>3. \A i \in 1 .. 16 : UpperCase[i] # Blank /\ LowerCase[i] # Blank
  <2> DEFINE S == {"0", "1", "2", "3", "4", "5", "6", "7", "8", "9", "A", "B", "C", "D", "E", "F",
                   "a", "b", "c", "d", "e", "f"}
  <2>1. \A i \in 1 .. 16 : UpperCase[i] \in S /\ LowerCase[i] \in S
    BY DEF UpperCase, LowerCase
  <2>2. Blank \notin S
    BY Zenon DEF Blank
  <2> HIDE DEF S
  <2>3. QED
    BY <2>1, <2>2
<1>4. QED
  BY <1>1, <1>2, <1>3

LEMMA AroundReads ==
    ASSUME NEW c \in Around, NEW base \in Bases
    PROVE  Read(0, c, base) = 0
<1>1. CASE c = "0"
  <2>1. DigitTable({})[0 + 1] = "0"
    BY DEF DigitTable, UpperCase
  <2>2. Read(0, DigitTable({})[0 + 1], base) = 0 * base + 0
    <3>1. 0 \in 0 .. 15
      OBVIOUS
    <3>2. QED
      BY <3>1, DigitReads
  <2>3. 0 * base + 0 = 0
    BY DEF Bases
  <2>4. QED
    BY <1>1, <2>1, <2>2, <2>3
<1>2. CASE c # "0"
  BY <1>2, NoDigits DEF Read, Around
<1>3. QED
  BY <1>1, <1>2

LEMMA Remainder ==
    ASSUME NEW n \in Nat, NEW base \in Bases
    PROVE  /\ n \div base \in Nat /\ n % base \in 0 .. 15
           /\ (n \div base) * base + (n % base) = n
<1>1. CASE base = 2
  BY <1>1
<1>2. CASE base = 8
  BY <1>2
<1>3. CASE base = 10
  BY <1>3
<1>4. CASE base = 16
  BY <1>4
<1>5. QED
  BY <1>1, <1>2, <1>3, <1>4 DEF Bases

LEMMA ShiftTyped ==
    ASSUME NEW num \in Nat, NEW base \in Bases, NEW q, Shifted(q, num, base),
           NEW k \in 0 .. WORD
    PROVE  q[k] \in Nat
<1> DEFINE Bad == {j \in 0 .. WORD : q[j] \notin Nat}
<1>1. SUFFICES ASSUME Bad # {} PROVE FALSE
  OBVIOUS
<1>2. Bad \subseteq Nat
  OBVIOUS
<1>3. PICK j \in Bad : \A m \in Bad : j <= m
  BY <1>1, <1>2, LeastNatural
<1>4. j \in 0 .. WORD /\ q[j] \notin Nat
  BY <1>3
<1>5. q[j] = IF j = 0 THEN num ELSE q[j - 1] \div base
  BY <1>4 DEF Shifted
<1>6. j # 0
  BY <1>4, <1>5
<1>7. j - 1 \in 0 .. WORD /\ j - 1 < j
  BY <1>4, <1>6, WordIsNat
<1>8. q[j - 1] \in Nat
  BY <1>3, <1>4, <1>7
<1>9. QED
  BY <1>4, <1>5, <1>6, <1>8, Remainder

\* r is the number read from s, character by character.
ReadOn(r, s, base) ==
    r = [i \in 0 .. Len(s) |-> IF i = 0 THEN 0 ELSE Read(r[i - 1], s[i], base)]

LEMMA ReadTyped ==
    ASSUME NEW n \in Nat, NEW c, NEW base \in Bases
    PROVE  Read(n, c, base) \in Nat
<1>1. c \in HexDigits => HexValue(c) \in 0 .. 15
  <2>1. c \in HexDigits => \E i \in 1 .. 16 : c \in {UpperCase[i], LowerCase[i]}
    BY DEF HexDigits, ToSet, UpperCase, LowerCase
  <2>2. \A i \in 1 .. 16 : i - 1 \in 0 .. 15 /\ (i - 1) + 1 = i
    OBVIOUS
  <2>3. c \in HexDigits => \E m \in 0 .. 15 : c \in {UpperCase[m + 1], LowerCase[m + 1]}
    BY <2>1, <2>2
  <2>4. QED
    BY <2>3, Zenon DEF HexValue
<1>2. n * base \in Nat
  BY DEF Bases
<1>3. QED
  BY <1>1, <1>2 DEF Read

LEMMA ReadExists ==
    ASSUME NEW s, Len(s) \in Nat, NEW base \in Bases
    PROVE  \E r : ReadOn(r, s, base)
<1> DEFINE step == [p \in Nat \X Nat |-> Read(p[2], s[p[1]], base)]
<1>1. step \in [Nat \X Nat -> Nat]
  BY ReadTyped
<1>2. \A i, n \in Nat : step[<<i, n>>] = Read(n, s[i], base)
  OBVIOUS
<1> HIDE DEF step
<1>3. PICK r : Iterates(r, Len(s), Nat, 0, step)
  BY <1>1, IterationExists
<1>4. \A i \in 0 .. Len(s) : r[i] = IF i = 0 THEN 0 ELSE Read(r[i - 1], s[i], base)
  <2>1. SUFFICES ASSUME NEW i \in 0 .. Len(s), i # 0 PROVE r[i] = Read(r[i - 1], s[i], base)
    BY <1>3 DEF Iterates
  <2>2. i \in Nat /\ i - 1 \in 0 .. Len(s)
    BY <2>1
  <2>3. r[i - 1] \in Nat
    BY <1>3, <2>2 DEF Iterates
  <2>4. r[i] = step[<<i, r[i - 1]>>]
    BY <1>3, <2>1 DEF Iterates
  <2>5. QED
    BY <1>2, <2>2, <2>3, <2>4
<1>5. r = [i \in 0 .. Len(s) |-> r[i]]
  BY <1>3 DEF Iterates
<1>6. QED
  BY <1>4, <1>5 DEF ReadOn

\* The text s is the digits of the number that q shifts, behind p characters
\* that may stand around them, and blanks.
Holds(s, p, k, q, base, type) ==
    /\ Len(s) \in Nat /\ p \in Nat /\ p + k <= Len(s)
    /\ \A i \in 1 .. p : s[i] \in Around
    /\ \A i \in 1 .. k : s[p + i] = DigitOf(q[k - i], base, DigitTable(type))
    /\ \A i \in p + k + 1 .. Len(s) : s[i] = Blank

\* Such a text reads as the number.
LEMMA NumberReads ==
    ASSUME NEW num \in 0 .. WORD, NEW base \in Bases, NEW type,
           NEW q, Shifted(q, num, base), NEW k, IsLength(k, q),
           NEW s, NEW p, Holds(s, p, k, q, base, type),
           NEW r, ReadOn(r, s, base)
    PROVE  r[Len(s)] = num
<1> DEFINE Value(i) == IF i <= p THEN 0 ELSE IF i <= p + k THEN q[k - (i - p)] ELSE num
           L        == Len(s)
           Bad      == {i \in 0 .. L : r[i] # Value(i)}
<1>1. /\ p \in Nat /\ L \in Nat /\ k \in 1 .. WORD /\ k \in Nat /\ p + k <= L
      /\ q[k] = 0 /\ q[0] = num
  BY WordIsNat DEF Holds, IsLength, Shifted
<1>2. \A i \in 0 .. L : r[i] = IF i = 0 THEN 0 ELSE Read(r[i - 1], s[i], base)
  BY DEF ReadOn
<1>3. Bad = {}
  <2>1. SUFFICES ASSUME Bad # {} PROVE FALSE
    OBVIOUS
  <2> HIDE DEF Value, L
  <2>2. Bad \subseteq Nat
    BY <1>1
  <2>3. PICK i \in Bad : \A m \in Bad : i <= m
    BY <2>1, <2>2, LeastNatural
  <2>4. i \in 0 .. L /\ r[i] # Value(i)
    BY <2>3
  <2>5. i # 0
    <3>1. Value(0) = 0
      BY <1>1 DEF Value
    <3>2. QED
      BY <1>1, <1>2, <2>4, <3>1
  <2>6. i - 1 \in 0 .. L /\ i \in Nat /\ i >= 1
    BY <1>1, <2>4, <2>5
  <2>7. r[i - 1] = Value(i - 1)
    BY <2>3, <2>6
  <2>8. r[i] = Read(Value(i - 1), s[i], base)
    BY <1>2, <2>4, <2>5, <2>7
  <2>9. CASE i <= p
    <3>1. Value(i - 1) = 0 /\ Value(i) = 0
      BY <1>1, <2>6, <2>9 DEF Value
    <3>2. s[i] \in Around
      BY <1>1, <2>6, <2>9 DEF Holds
    <3>3. QED
      BY <2>4, <2>8, <3>1, <3>2, AroundReads
  <2>10. CASE ~ (i <= p) /\ i <= p + k
    <3> DEFINE j == i - p
               n == q[k - j]
               v == q[(k - j) + 1]
    <3>1. j \in 1 .. k /\ p + j = i
      BY <1>1, <2>6, <2>10
    <3>2. Value(i) = n
      BY <2>10 DEF Value
    <3>3. Value(i - 1) = v
      <4>1. CASE j = 1
        <5>1. i - 1 <= p /\ (k - j) + 1 = k
          BY <1>1, <2>6, <4>1
        <5>2. QED
          BY <1>1, <5>1 DEF Value
      <4>2. CASE j # 1
        <5>1. ~ (i - 1 <= p) /\ i - 1 <= p + k /\ k - ((i - 1) - p) = (k - j) + 1
          BY <1>1, <2>6, <2>10, <3>1, <4>2
        <5>2. QED
          BY <5>1 DEF Value
      <4>3. QED
        BY <4>1, <4>2
    <3>4. k - j \in 0 .. WORD /\ (k - j) + 1 \in 0 .. WORD /\ (k - j) + 1 # 0
          /\ ((k - j) + 1) - 1 = k - j
      BY <1>1, <3>1, WordIsNat
    <3>5. v = n \div base
      BY <3>4 DEF Shifted
    <3>6. n \in Nat
      BY <3>4, WordIsNat, ShiftTyped
    <3>7. s[i] = DigitOf(n, base, DigitTable(type))
      <4>1. s[p + j] = DigitOf(n, base, DigitTable(type))
        BY <3>1 DEF Holds
      <4>2. QED
        BY <3>1, <4>1
    <3> HIDE DEF j, n, v
    <3>8. n % base \in 0 .. 15 /\ v * base + (n % base) = n
      BY <3>5, <3>6, Remainder
    <3>9. Read(v, s[i], base) = v * base + (n % base)
      <4> DEFINE d == n % base
      <4>1. d \in 0 .. 15 /\ s[i] = DigitTable(type)[d + 1]
        BY <3>7, <3>8 DEF DigitOf
      <4> HIDE DEF d
      <4>2. Read(v, s[i], base) = v * base + d
        BY <4>1, DigitReads
      <4>3. QED
        BY <4>2 DEF d
    <3>10. QED
      BY <2>4, <2>8, <3>2, <3>3, <3>8, <3>9
  <2>11. CASE ~ (i <= p + k)
    <3>1. Value(i) = num
      BY <1>1, <2>6, <2>11 DEF Value
    <3>2. Value(i - 1) = num
      <4>1. CASE i - 1 = p + k
        <5>1. ~ (i - 1 <= p) /\ i - 1 <= p + k /\ k - ((i - 1) - p) = 0
          BY <1>1, <4>1
        <5>2. QED
          BY <1>1, <5>1 DEF Value
      <4>2. CASE i - 1 # p + k
        <5>1. ~ (i - 1 <= p) /\ ~ (i - 1 <= p + k)
          BY <1>1, <2>6, <2>11, <4>2
        <5>2. QED
          BY <5>1 DEF Value
      <4>3. QED
        BY <4>1, <4>2
    <3>3. s[i] = Blank
      BY <1>1, <2>4, <2>6, <2>11 DEF Holds, L
    <3>4. Read(num, s[i], base) = num
      BY <3>3, NoDigits DEF Read
    <3>5. QED
      BY <2>4, <2>8, <3>1, <3>2, <3>4
  <2>12. QED
    BY <1>1, <2>6, <2>9, <2>10, <2>11
<1>4. r[L] = Value(L)
  BY <1>1, <1>3
<1>5. Value(L) = num
  <2>1. CASE L = p + k
    <3>1. ~ (L <= p) /\ L <= p + k /\ k - (L - p) = 0
      BY <1>1, <2>1
    <3> HIDE DEF L
    <3>2. QED
      BY <1>1, <3>1
  <2>2. CASE L # p + k
    <3>1. ~ (L <= p) /\ ~ (L <= p + k)
      BY <1>1, <2>2
    <3> HIDE DEF L
    <3>2. QED
      BY <3>1
  <2>3. QED
    BY <2>1, <2>2
<1>6. QED
  BY <1>4, <1>5

-----------------------------------------------------------------------------
(***************************************************************************)
(* The digits in the field that number() writes.                           *)
(***************************************************************************)
LEMMA ToSetOfConcat ==
    ASSUME NEW V, NEW a \in Seq(V), NEW b \in Seq(V)
    PROVE  ToSet(a \o b) = ToSet(a) \cup ToSet(b)
<1> DEFINE s == a \o b
<1>1. /\ s \in Seq(V) /\ Len(s) = Len(a) + Len(b) /\ Len(a) \in Nat /\ Len(b) \in Nat
      /\ \A i \in 1 .. Len(a) : s[i] = a[i]
      /\ \A i \in 1 .. Len(b) : s[Len(a) + i] = b[i]
  <2>1. Len(a) \in Nat /\ Len(b) \in Nat
    BY LenProperties
  <2>2. QED
    BY <2>1
<1>2. DOMAIN s = 1 .. Len(s) /\ DOMAIN a = 1 .. Len(a) /\ DOMAIN b = 1 .. Len(b)
  BY <1>1, LenProperties
<1> HIDE DEF s
<1>3. \A i \in 1 .. Len(s) : s[i] \in ToSet(a) \cup ToSet(b)
  <2>1. SUFFICES ASSUME NEW i \in 1 .. Len(s) PROVE s[i] \in ToSet(a) \cup ToSet(b)
    OBVIOUS
  <2>2. CASE i <= Len(a)
    <3>1. i \in 1 .. Len(a)
      BY <1>1, <2>2
    <3>2. QED
      BY <1>1, <1>2, <3>1 DEF ToSet
  <2>3. CASE ~ (i <= Len(a))
    <3>1. i - Len(a) \in 1 .. Len(b) /\ Len(a) + (i - Len(a)) = i
      BY <1>1, <2>3
    <3>2. s[i] = b[i - Len(a)]
      BY <1>1, <3>1
    <3>3. QED
      BY <1>2, <3>1, <3>2 DEF ToSet
  <2>4. QED
    BY <2>2, <2>3
<1>4. ToSet(s) \subseteq ToSet(a) \cup ToSet(b)
  BY <1>2, <1>3 DEF ToSet
<1>5. ToSet(a) \subseteq ToSet(s)
  <2>1. \A i \in 1 .. Len(a) : i \in 1 .. Len(s)
    BY <1>1
  <2>2. QED
    BY <1>1, <1>2, <2>1 DEF ToSet
<1>6. ToSet(b) \subseteq ToSet(s)
  <2>1. \A i \in 1 .. Len(b) : Len(a) + i \in 1 .. Len(s)
    BY <1>1
  <2>2. QED
    BY <1>1, <1>2, <2>1, ZenonT(60) DEF ToSet
<1>7. QED
  BY <1>4, <1>5, <1>6 DEF s

\* What is in front of the digits and behind them does not change them.
LEMMA BetweenHolds ==
    ASSUME NEW V, NEW front \in Seq(V), NEW digits \in Seq(V), NEW back \in Seq(V),
           ToSet(front) \subseteq Around, ToSet(back) \subseteq {Blank},
           NEW k \in Nat, NEW q, NEW base, NEW type,
           digits = [i \in 1 .. k |-> DigitOf(q[k - i], base, DigitTable(type))]
    PROVE  Holds((front \o digits) \o back, Len(front), k, q, base, type)
<1> DEFINE fd == front \o digits
           s  == fd \o back
           p  == Len(front)
           b  == Len(back)
<1>1. p \in Nat /\ b \in Nat /\ Len(digits) = k
  BY LenProperties
<1>2. /\ fd \in Seq(V) /\ Len(fd) = p + k
      /\ \A i \in 1 .. p : fd[i] = front[i]
      /\ \A i \in 1 .. k : fd[p + i] = digits[i]
  <2> HIDE DEF p
  <2>1. fd \in Seq(V) /\ Len(fd) = Len(front) + Len(digits)
    BY ConcatProperties
  <2>2. QED
    BY <1>1, <2>1 DEF p
<1> HIDE DEF fd
<1>3. /\ s \in Seq(V) /\ Len(s) = (p + k) + b
      /\ \A i \in 1 .. p + k : s[i] = fd[i]
      /\ \A i \in 1 .. b : s[(p + k) + i] = back[i]
  <2>1. s \in Seq(V) /\ Len(s) = Len(fd) + Len(back)
    BY <1>2, ConcatProperties
  <2>2. /\ \A i \in 1 .. Len(fd) : s[i] = fd[i]
        /\ \A i \in 1 .. Len(back) : s[Len(fd) + i] = back[i]
    BY <1>1, <1>2, ConcatProperties, SMTT(60)
  <2> HIDE DEF p, s, b
  <2>3. QED
    BY <1>1, <1>2, <2>1, <2>2 DEF b
<1> HIDE DEF s, p, b
<1>4. \A i \in 1 .. p : s[i] \in Around
  <2>1. SUFFICES ASSUME NEW i \in 1 .. p PROVE s[i] \in Around
    OBVIOUS
  <2>2. i \in 1 .. p + k /\ i \in DOMAIN front
    BY <1>1, <2>1, LenProperties DEF p
  <2>3. s[i] = front[i] /\ front[i] \in ToSet(front)
    BY <1>2, <1>3, <2>1, <2>2 DEF ToSet
  <2>4. QED
    BY <2>3
<1>5. \A i \in 1 .. k : s[p + i] = DigitOf(q[k - i], base, DigitTable(type))
  <2>1. SUFFICES ASSUME NEW i \in 1 .. k
                 PROVE  s[p + i] = DigitOf(q[k - i], base, DigitTable(type))
    OBVIOUS
  <2>2. p + i \in 1 .. p + k
    BY <1>1, <2>1
  <2>3. s[p + i] = digits[i]
    BY <1>2, <1>3, <2>1, <2>2
  <2>4. QED
    BY <2>3
<1>6. \A i \in p + k + 1 .. Len(s) : s[i] = Blank
  <2>1. SUFFICES ASSUME NEW i \in p + k + 1 .. Len(s) PROVE s[i] = Blank
    OBVIOUS
  <2> DEFINE j == i - (p + k)
  <2>2. j \in 1 .. b /\ (p + k) + j = i
    BY <1>1, <1>3, <2>1
  <2> HIDE DEF j
  <2>3. s[i] = back[j] /\ j \in DOMAIN back
    BY <1>3, <2>2, LenProperties DEF b
  <2>4. back[j] \in ToSet(back)
    BY <2>3 DEF ToSet
  <2>5. QED
    BY <2>3, <2>4
<1>7. QED
  BY <1>1, <1>3, <1>4, <1>5, <1>6 DEF Holds, s, fd, p

LEMMA ToSetOfRepeat ==
    ASSUME NEW c, NEW n \in Int
    PROVE  ToSet(Repeat(c, n)) \subseteq {c}
BY DEF ToSet, Repeat

\* The minus is written for negative numbers and for no other.
LEMMA SignIs ==
    ASSUME NEW num, NEW base, NEW type
    PROVE  /\ ToSet(Sign(num, type) \o Special(base, type)) \subseteq Around
           /\ "-" \in ToSet(Sign(num, type) \o Special(base, type)) <=> IsNegative(num, type)
<1> DEFINE a == Sign(num, type)
           b == Special(base, type)
<1>1. /\ a \in Seq(Around) /\ ToSet(a) \subseteq Around
      /\ "-" \in ToSet(a) <=> IsNegative(num, type)
  <2>1. Around = {"0", Blank, "-", "+", "x", "X"} /\ Blank # "-"
    <3>1. Blank # "-"
      BY Zenon DEF Blank
    <3>2. QED
      BY <3>1 DEF Around
  <2>2. /\ <<>> \in Seq(Around) /\ ToSet(<<>>) = {}
        /\ \A c \in Around : <<c>> \in Seq(Around) /\ ToSet(<<c>>) = {c}
    BY DEF ToSet
  <2>3. a = IF IsNegative(num, type) THEN <<"-">> ELSE IF "PLUS" \in type THEN <<"+">>
            ELSE IF "SPACE" \in type THEN <<Blank>> ELSE <<>>
    BY SignCases
  <2>4. "-" \in Around /\ "+" \in Around /\ Blank \in Around
    BY DEF Around
  <2> HIDE DEF a
  <2>5. ToSet(a) = IF IsNegative(num, type) THEN {"-"} ELSE IF "PLUS" \in type THEN {"+"}
                   ELSE IF "SPACE" \in type THEN {Blank} ELSE {}
    BY <2>2, <2>3, <2>4
  <2>6. a \in Seq(Around)
    BY <2>2, <2>3, <2>4
  <2>7. QED
    BY <2>1, <2>4, <2>5, <2>6
<1>2. b \in Seq(Around) /\ ToSet(b) \subseteq {"0", "x", "X"}
  <2>1. /\ <<>> \in Seq(Around) /\ <<"0">> \in Seq(Around)
        /\ <<"0", "x">> \in Seq(Around) /\ <<"0", "X">> \in Seq(Around)
    BY DEF Around
  <2>2. /\ ToSet(<<>>) = {} /\ ToSet(<<"0">>) = {"0"}
        /\ ToSet(<<"0", "x">>) = {"0", "x"} /\ ToSet(<<"0", "X">>) = {"0", "X"}
    BY DEF ToSet
  <2>3. b \in {<<>>, <<"0">>, <<"0", "x">>, <<"0", "X">>}
    BY SpecialCases
  <2>4. QED
    BY <2>1, <2>2, <2>3
<1>3. ToSet(a \o b) = ToSet(a) \cup ToSet(b)
  BY <1>1, <1>2, ToSetOfConcat
<1>4. {"0", "x", "X"} \subseteq Around /\ "-" \notin {"0", "x", "X"}
  BY DEF Around
<1>5. QED
  BY <1>1, <1>2, <1>3, <1>4

\* The three parts of what number() writes, whatever fills the field.
Split(s, digits, V, minus) ==
    \E front, back \in Seq(V) :
        /\ s = (front \o digits) \o back
        /\ ToSet(front) \subseteq Around /\ ToSet(back) \subseteq {Blank}
        /\ "-" \in ToSet(front) <=> minus

LEMMA FilledSplits ==
    ASSUME NEW V, Blank \in V, "0" \in V, NEW sign \in Seq(V), NEW digits \in Seq(V),
           ToSet(sign) \subseteq Around, NEW zeros \in Int, NEW size \in Int, NEW type
    PROVE  Split(Filled(sign, Repeat("0", zeros) \o digits, size, type), digits, V,
                 "-" \in ToSet(sign))
<1> DEFINE z      == Repeat("0", zeros)
           m      == z \o digits
           fill   == size - Len(sign) - Len(m)
           spaces == Repeat(Blank, fill)
           more   == Repeat("0", fill)
           s      == Filled(sign, m, size, type)
<1>1. z \in Seq(V) /\ m \in Seq(V)
  BY RepeatTyped, ConcatProperties
<1>2. fill \in Int
  <2>1. Len(sign) \in Nat /\ Len(m) \in Nat
    BY <1>1, LenProperties
  <2> HIDE DEF m
  <2>2. QED
    BY <2>1
<1>3. spaces \in Seq(V) /\ more \in Seq(V)
  BY <1>2, RepeatTyped
<1>4. ToSet(z) \subseteq {"0"} /\ ToSet(more) \subseteq {"0"} /\ ToSet(spaces) \subseteq {Blank}
  BY <1>2, ToSetOfRepeat
<1>5. "0" \in Around /\ Blank \in Around /\ "-" # "0" /\ "-" # Blank
  <2>1. "-" # Blank
    BY Zenon DEF Blank
  <2>2. QED
    BY <2>1 DEF Around
<1>6. /\ <<>> \in Seq(V) /\ ToSet(<<>>) \subseteq {Blank}
  BY DEF ToSet
<1>7. /\ "LEFT" \in type => s = sign \o m \o spaces
      /\ "LEFT" \notin type /\ "ZEROPAD" \in type => s = sign \o more \o m
      /\ "LEFT" \notin type /\ "ZEROPAD" \notin type => s = spaces \o sign \o m
  BY Zenon DEF Filled
<1> HIDE DEF z, fill, spaces, more, s
<1>8. CASE "LEFT" \in type
  <2> DEFINE front == sign \o z
  <2>1. front \in Seq(V) /\ ToSet(front) = ToSet(sign) \cup ToSet(z)
    BY <1>1, ToSetOfConcat, ConcatProperties
  <2>2. sign \o m = front \o digits
    BY <1>1, ConcatAssociative, SMTT(60)
  <2>3. s = (front \o digits) \o spaces
    BY <1>7, <1>8, <2>2
  <2> HIDE DEF front, m
  <2>4. QED
    BY <1>3, <1>4, <1>5, <2>1, <2>3 DEF Split, s, m, z
<1>9. CASE "LEFT" \notin type
  <2> DEFINE a     == IF "ZEROPAD" \in type THEN sign \o more ELSE spaces \o sign
             front == a \o z
  <2>1. a \in Seq(V) /\ ToSet(a) = ToSet(sign) \cup (IF "ZEROPAD" \in type THEN ToSet(more) ELSE ToSet(spaces))
    <3>1. CASE "ZEROPAD" \in type
      BY <1>3, <3>1, ToSetOfConcat, ConcatProperties
    <3>2. CASE "ZEROPAD" \notin type
      BY <1>3, <3>2, ToSetOfConcat, ConcatProperties
    <3>3. QED
      BY <3>1, <3>2
  <2>2. s = a \o m
    BY <1>7, <1>9
  <2> HIDE DEF a
  <2>3. front \in Seq(V) /\ ToSet(front) = ToSet(a) \cup ToSet(z)
    BY <1>1, <2>1, ToSetOfConcat, ConcatProperties
  <2>4. s = front \o digits
    <3>1. (a \o z) \o digits = a \o (z \o digits)
      <4> HIDE DEF m, front
      <4>1. a \in Seq(V) /\ z \in Seq(V) /\ digits \in Seq(V)
        BY <1>1, <2>1
      <4>2. QED
        BY <4>1, ConcatAssociative, SMTT(60)
    <3>2. QED
      BY <2>2, <3>1
  <2> HIDE DEF front, m
  <2>5. s = (front \o digits) \o <<>>
    <3>1. front \o digits \in Seq(V)
      BY <2>3, ConcatProperties
    <3>2. QED
      BY <2>4, <3>1, ConcatEmptySeq
  <2>6. ToSet(front) \subseteq Around /\ ("-" \in ToSet(front) <=> "-" \in ToSet(sign))
    BY <1>4, <1>5, <2>1, <2>3
  <2>7. QED
    BY <1>6, <2>3, <2>5, <2>6 DEF Split, s, m, z
<1>10. QED
  BY <1>8, <1>9

\* s is the numeral of the number that q shifts, with a minus or without.
NumberText(s, q, base, type, minus) ==
    /\ \E k, p : IsLength(k, q) /\ Holds(s, p, k, q, base, type)
    /\ "-" \in ToSet(s) <=> minus

LEMMA NumberHolds ==
    ASSUME NEW num \in 0 .. WORD - 1, NEW base \in Bases, NEW size \in Int, NEW prec \in Int,
           NEW type, NEW q, Shifted(q, Magnitude(num, type), base)
    PROVE  NumberText(Number(num, base, size, prec, type), q, base, type, IsNegative(num, type))
<1> DEFINE V      == NumberChars(type)
           t      == DigitTable(type)
           digits == Reverse(Tmp(Magnitude(num, type), base, type))
           sign   == Sign(num, type) \o Special(base, type)
           s      == Number(num, base, size, prec, type)
           minus  == IsNegative(num, type)
<1>1. Magnitude(num, type) \in 0 .. WORD
  BY MagnitudeTyped
<1>2. PICK k : /\ IsLength(k, q)
               /\ digits = [i \in 1 .. k |-> DigitOf(q[k - i], base, t)]
  <2>1. \E k : IsNumeral(digits, k, q, base, t)
    BY <1>1, TmpIsNumeral
  <2> HIDE DEF digits, t
  <2>2. QED
    BY <2>1 DEF IsNumeral
<1>3. digits \in Seq(V) /\ Len(digits) \in Nat
  BY <1>1, TmpTyped, ReverseTyped, LenProperties
<1>4. sign \in Seq(V) /\ ToSet(sign) \subseteq Around /\ ("-" \in ToSet(sign) <=> minus)
  BY SignTyped, SignIs, ConcatProperties
<1>5. Blank \in V /\ "0" \in V
  BY DEF Blank, NumberChars
<1>6. s = Filled(sign, Repeat("0", prec - Len(digits)) \o digits, size, type)
  BY Zenon DEF Number, Filled, Blank
<1>7. \A i \in 1 .. 16 : t[i] \in V /\ t[i] # "-" /\ t[i] # Blank
  <2>1. \A i \in 1 .. 16 : t[i] \in HexDigits
    BY DEF HexDigits, ToSet, DigitTable, UpperCase, LowerCase
  <2>2. QED
    BY <2>1, NoDigits, TableTyped
<1>8. "-" \notin ToSet(digits)
  <2>1. \A i \in 1 .. k : k - i \in 0 .. WORD /\ k - i \in Nat
    BY <1>2, WordIsNat DEF IsLength
  <2>2. \A i \in 1 .. k : q[k - i] \in Nat
    BY <1>1, <2>1, ShiftTyped, WordIsNat
  <2>3. \A i \in 1 .. k : (q[k - i] % base) + 1 \in 1 .. 16
    <3>1. \A n \in Nat : n % base \in 0 .. 15
      BY Remainder
    <3>2. \A n \in Nat : (n % base) + 1 \in 1 .. 16
      BY <3>1
    <3>3. QED
      BY <2>2, <3>2
  <2>4. \A i \in 1 .. k : DigitOf(q[k - i], base, t) # "-"
    BY <1>7, <2>3 DEF DigitOf
  <2>5. \A i \in DOMAIN digits : digits[i] # "-"
    BY <1>2, <2>4
  <2> HIDE DEF digits
  <2>6. QED
    BY <2>5 DEF ToSet
<1> HIDE DEF V, t, digits, sign, s, minus
<1>9. Split(s, digits, V, "-" \in ToSet(sign))
  <2>1. prec - Len(digits) \in Int
    BY <1>3
  <2>2. QED
    BY <1>3, <1>4, <1>5, <1>6, <2>1, FilledSplits
<1>10. PICK front \in Seq(V), back \in Seq(V) :
          /\ s = (front \o digits) \o back
          /\ ToSet(front) \subseteq Around /\ ToSet(back) \subseteq {Blank}
          /\ "-" \in ToSet(front) <=> "-" \in ToSet(sign)
  BY <1>9 DEF Split
<1>11. k \in Nat
  BY <1>2, WordIsNat DEF IsLength
<1>12. Holds(s, Len(front), k, q, base, type)
  BY <1>2, <1>3, <1>10, <1>11, BetweenHolds DEF t
<1>13. ToSet(s) = (ToSet(front) \cup ToSet(digits)) \cup ToSet(back)
  <2> DEFINE fd == front \o digits
  <2>1. fd \in Seq(V) /\ s = fd \o back
    BY <1>3, <1>10, ConcatProperties
  <2>2. ToSet(fd) = ToSet(front) \cup ToSet(digits)
    BY <1>3, <1>10, ToSetOfConcat
  <2> HIDE DEF fd
  <2>3. ToSet(fd \o back) = ToSet(fd) \cup ToSet(back)
    BY <1>10, <2>1, ToSetOfConcat
  <2>4. QED
    BY <2>1, <2>2, <2>3
<1>14. "-" # Blank
  BY Zenon DEF Blank
<1>15. "-" \in ToSet(s) <=> minus
  BY <1>4, <1>8, <1>10, <1>13, <1>14
<1>16. QED
  BY <1>2, <1>12, <1>15 DEF NumberText, s, minus

\* The magnitude is what it is called, also of the most negative number.
LEMMA MagnitudeIs ==
    ASSUME NEW num \in 0 .. WORD - 1, NEW type
    PROVE  /\ Magnitude(num, type) =
                  IF IsNegative(num, type) THEN 0 - Signed(num) ELSE num
           /\ IsNegative(num, type) => "SIGN" \in type /\ Signed(num) < 0
           /\ ~ IsNegative(num, type) /\ "SIGN" \in type => Signed(num) = num
<1>1. WORD \in Nat /\ WORD > 0 /\ WORD \div 2 \in Nat /\ WORD \div 2 > 0
  <2>1. PICK n \in 1 .. WORD : WORD = 2 * n
    BY FormatAssumption
  <2>2. WORD \in Nat /\ n \in Nat /\ n > 0
    BY <2>1, WordIsNat
  <2>3. WORD \div 2 = n
    BY <2>1, <2>2
  <2>4. QED
    BY <2>1, <2>2, <2>3
<1> DEFINE half == WORD \div 2
<1>2. Signed(num) = IF num >= half THEN num - WORD ELSE num
  BY DEF Signed
<1> HIDE DEF half
<1>3. half \in Nat /\ half > 0
  BY <1>1 DEF half
<1>4. \A x \in 0 .. WORD - 1 : x % WORD = x
  <2>1. SUFFICES ASSUME NEW x \in 0 .. WORD - 1 PROVE x % WORD = x
    OBVIOUS
  <2>2. x \in Nat /\ x < WORD /\ WORD \in Nat /\ WORD > 0
    BY <1>1
  <2>3. QED
    BY <2>2, SMTT(60)
<1>5. CASE IsNegative(num, type)
  <2>1. "SIGN" \in type /\ Signed(num) < 0
    BY <1>5 DEF IsNegative
  <2>2. Signed(num) = num - WORD /\ num >= half
    BY <1>1, <1>2, <1>3, <2>1
  <2> DEFINE x == 0 - Signed(num)
  <2>3. x \in 0 .. WORD - 1
    BY <1>1, <1>3, <2>2
  <2> HIDE DEF x
  <2>4. x % WORD = x
    BY <1>4, <2>3
  <2>5. QED
    BY <1>5, <2>1, <2>4 DEF Magnitude, x
<1>6. CASE ~ IsNegative(num, type)
  <2>1. Magnitude(num, type) = num
    BY <1>6 DEF Magnitude
  <2>2. "SIGN" \in type => ~ (Signed(num) < 0)
    BY <1>6 DEF IsNegative
  <2>3. "SIGN" \in type => Signed(num) = num
    BY <1>1, <1>2, <1>3, <2>2
  <2>4. QED
    BY <1>6, <2>1, <2>3
<1>7. QED
  BY <1>5, <1>6

\* Only d and i take their argument as a number with a sign.
LEMMA SignFlag ==
    ASSUME dir \in Directives
    PROVE  "SIGN" \in TypeOf(fmt) <=> fmt \in {"d", "i"}
<1>1. "SIGN" \notin dir.flags
  BY DEF Directives
<1>2. CASE fmt \in {"d", "i"}
  BY <1>2 DEF TypeOf
<1>3. CASE fmt = "x"
  BY <1>1, <1>3 DEF TypeOf
<1>4. CASE fmt = "p" /\ dir.field_width = -1
  BY <1>1, <1>4 DEF TypeOf
<1>5. CASE ~ (fmt \in {"d", "i"}) /\ fmt # "x" /\ ~ (fmt = "p" /\ dir.field_width = -1)
  <2>1. TypeOf(fmt) = dir.flags
    BY <1>5, Zenon DEF TypeOf
  <2>2. QED
    BY <1>1, <1>5, <2>1
<1>6. QED
  BY <1>2, <1>3, <1>4, <1>5

LEMMA ReadBackIs ==
    ASSUME NEW base \in Bases, base = Base(fmt), Len(out) \in Nat
    PROVE  \E r : /\ ReadOn(r, out, base)
                  /\ ReadBack = IF "-" \in ToSet(out) THEN 0 - r[Len(out)] ELSE r[Len(out)]
<1> DEFINE Reads(f) == f = [i \in 0 .. Len(out) |->
                              IF i = 0 THEN 0 ELSE Read(f[i - 1], out[i], Base(fmt))]
           r == CHOOSE f : Reads(f)
<1>1. \E f : Reads(f)
  <2>1. PICK f : ReadOn(f, out, base)
    BY ReadExists
  <2>2. QED
    BY <2>1 DEF ReadOn
<1>2. Reads(r)
  BY <1>1
<1>3. ReadOn(r, out, base)
  <2> HIDE DEF r
  <2>1. QED
    BY <1>2 DEF ReadOn
<1>4. ReadBack = IF "-" \in ToSet(out) THEN 0 - r[Len(out)] ELSE r[Len(out)]
  BY DEF ReadBack
<1>5. QED
  <2> HIDE DEF r
  <2>1. QED
    BY <1>3, <1>4

(***************************************************************************)
(* What is written reads back as the argument, with its sign: every value  *)
(* of an int of any width, in every base, among any fill.                  *)
(***************************************************************************)
THEOREM NumbersReadBack == Spec => []ReadsBack
<1>1. FieldInv => ReadsBack
  <2>1. SUFFICES ASSUME FieldInv, Converted(Numbers)
                 PROVE  ReadBack = IF fmt \in {"d", "i"} THEN Signed(arg) ELSE arg
    BY DEF ReadsBack, Meant
  <2> DEFINE base == Base(fmt)
             type == TypeOf(fmt)
             mag  == Magnitude(arg, type)
  <2>2. /\ fmt \in Numbers /\ arg \in 0 .. WORD - 1 /\ dir \in Directives
        /\ out = Number(arg, base, SizeOf(fmt), dir.precision, type)
        /\ base \in Bases /\ SizeOf(fmt) \in Int /\ dir.precision \in Int
    <3>1. /\ fmt \in Numbers /\ arg \in 0 .. WORD - 1 /\ dir \in Directives
          /\ out = Number(arg, base, SizeOf(fmt), dir.precision, type)
      BY <2>1 DEF FieldInv, Converted
    <3>2. QED
      BY <3>1, BaseIs, SizeTyped DEF Directives
  <2>3. "SIGN" \in type <=> fmt \in {"d", "i"}
    BY <2>2, SignFlag
  <2> HIDE DEF base, type
  <2>4. mag \in 0 .. WORD /\ mag \in Nat
    BY <2>2, MagnitudeTyped, WordIsNat
  <2>5. PICK q : Shifted(q, mag, base)
    BY <2>2, <2>4, ShiftExists
  <2>6. NumberText(out, q, base, type, IsNegative(arg, type))
    BY <2>2, <2>5, NumberHolds
  <2>7. PICK k, p : IsLength(k, q) /\ Holds(out, p, k, q, base, type)
    BY <2>6 DEF NumberText
  <2>8. Len(out) \in Nat
    BY <2>7 DEF Holds
  <2>9. PICK r : /\ ReadOn(r, out, base)
                 /\ ReadBack = IF "-" \in ToSet(out) THEN 0 - r[Len(out)] ELSE r[Len(out)]
    BY <2>2, <2>8, ReadBackIs DEF base
  <2>10. r[Len(out)] = mag
    BY <2>2, <2>4, <2>5, <2>7, <2>9, NumberReads
  <2>11. ReadBack = IF IsNegative(arg, type) THEN 0 - mag ELSE mag
    BY <2>6, <2>9, <2>10 DEF NumberText
  <2>12. /\ mag = IF IsNegative(arg, type) THEN 0 - Signed(arg) ELSE arg
         /\ IsNegative(arg, type) => "SIGN" \in type /\ Signed(arg) < 0
         /\ ~ IsNegative(arg, type) /\ "SIGN" \in type => Signed(arg) = arg
    BY <2>2, MagnitudeIs
  <2>13. Signed(arg) \in Int
    BY <2>2, SignedTyped
  <2> HIDE DEF mag
  <2>14. QED
    BY <2>2, <2>3, <2>11, <2>12, <2>13
<1>2. QED
  BY <1>1, FieldKept, PTL

-----------------------------------------------------------------------------
(***************************************************************************)
(* What C asks for.                                                        *)
(***************************************************************************)
\* A numeral is the digits that number() writes, behind the same zeros.
LEMMA NumeralIs ==
    ASSUME NEW num \in 0 .. WORD, NEW base \in Bases, NEW type, NEW least \in Int
    PROVE  LET digits == Reverse(Tmp(num, base, type))
           IN  Numeral(num, base, least, DigitTable(type)) =
                   Repeat("0", least - Len(digits)) \o digits
<1> DEFINE digits == Reverse(Tmp(num, base, type))
           t      == DigitTable(type)
           High(f) == f = [k \in 0 .. WORD |-> IF k = 0 THEN num ELSE f[k - 1] \div base]
           high   == CHOOSE f : High(f)
           length == CHOOSE k \in 1 .. WORD : high[k] = 0 /\ \A j \in 1 .. k - 1 : high[j] # 0
           shown  == [i \in 1 .. length |-> t[(high[length - i] % base) + 1]]
<1>1. num \in Nat
  BY WordIsNat
<1>2. \E f : High(f)
  <2>1. PICK f : Shifted(f, num, base)
    BY <1>1, ShiftExists
  <2>2. QED
    BY <2>1 DEF Shifted
<1>3. High(high)
  BY <1>2
<1>4. Shifted(high, num, base)
  <2> HIDE DEF high
  <2>1. QED
    BY <1>3 DEF Shifted
<1>5. Numeral(num, base, least, t) = Repeat("0", least - length) \o shown
  BY Zenon DEF Numeral
<1> HIDE DEF high
<1>6. PICK k : /\ IsLength(k, high)
               /\ digits = [i \in 1 .. k |-> DigitOf(high[k - i], base, t)]
  <2>1. \E k : IsNumeral(digits, k, high, base, t)
    BY <1>4, TmpIsNumeral
  <2> HIDE DEF digits, t
  <2>2. QED
    BY <2>1 DEF IsNumeral
<1> HIDE DEF digits, t
<1>7. k \in 1 .. WORD /\ high[k] = 0 /\ (\A j \in 1 .. k - 1 : high[j] # 0)
  BY <1>6 DEF IsLength
<1>8. length \in 1 .. WORD /\ high[length] = 0 /\ (\A j \in 1 .. length - 1 : high[j] # 0)
  BY <1>7, Zenon
<1> HIDE DEF length
<1>9. length = k
  BY <1>7, <1>8, WordIsNat
<1>10. digits = shown
  BY <1>6, <1>9 DEF DigitOf
<1>11. Len(digits) = k
  BY <1>6, <1>7, WordIsNat
<1> HIDE DEF shown
<1>12. QED
  BY <1>5, <1>9, <1>10, <1>11 DEF digits, t

\* Zeros up to the width are what the flag 0 fills with.
InLayout(mark, digits, width, prec, type) ==
    LET least  == IF "ZEROPAD" \in type /\ "LEFT" \notin type THEN width - Len(mark) ELSE prec
        text   == mark \o (Repeat("0", least - Len(digits)) \o digits)
        spaces == Repeat(Blank, width - Len(text))
    IN  IF "LEFT" \in type THEN text \o spaces ELSE spaces \o text

LEMMA LayoutsAgree ==
    ASSUME NEW V, Blank \in V, "0" \in V, NEW mark \in Seq(V), NEW digits \in Seq(V),
           NEW width \in Int, NEW prec \in Int, NEW type,
           "ZEROPAD" \in type => prec = -1
    PROVE  Filled(mark, Repeat("0", prec - Len(digits)) \o digits, width, type) =
               InLayout(mark, digits, width, prec, type)
<1> DEFINE a == Len(mark)
           d == Len(digits)
<1>1. a \in Nat /\ d \in Nat
  BY LenProperties
<1>2. \A n \in Int : /\ Repeat("0", n) \in Seq(V) /\ Repeat(Blank, n) \in Seq(V)
                     /\ Len(Repeat("0", n)) = IF n > 0 THEN n ELSE 0
                     /\ n <= 0 => Repeat("0", n) = <<>> /\ Repeat(Blank, n) = <<>>
  BY RepeatTyped
<1> HIDE DEF a, d
<1>3. CASE "ZEROPAD" \in type /\ "LEFT" \notin type
  <2> DEFINE n == width - a - d
             z == Repeat("0", n)
             text == mark \o (z \o digits)
  <2>1. n \in Int /\ (width - a) - d = n
    BY <1>1
  <2>2. z \in Seq(V) /\ Len(z) = IF n > 0 THEN n ELSE 0
    BY <1>2, <2>1
  <2>3. Repeat("0", prec - d) = <<>>
    BY <1>1, <1>2, <1>3
  <2>4. <<>> \o digits = digits
    BY ConcatEmptySeq
  <2>5. Filled(mark, digits, width, type) = (mark \o z) \o digits
    BY <1>3, Zenon DEF Filled, a, d
  <2>6. (mark \o z) \o digits = text
    BY <2>2, ConcatAssociative, SMTT(60)
  <2>7. text \in Seq(V) /\ Len(text) = a + (Len(z) + d)
    <3> HIDE DEF z
    <3>1. z \o digits \in Seq(V) /\ Len(z \o digits) = Len(z) + d
      BY <2>2, ConcatProperties DEF d
    <3> DEFINE zd == z \o digits
    <3> HIDE DEF zd
    <3>2. mark \o zd \in Seq(V) /\ Len(mark \o zd) = a + Len(zd)
      BY <3>1, ConcatProperties DEF a, zd
    <3>3. QED
      BY <3>1, <3>2 DEF zd
  <2> HIDE DEF text, z
  <2>8. width - Len(text) <= 0 /\ width - Len(text) \in Int
    BY <1>1, <2>1, <2>2, <2>7
  <2>9. Repeat(Blank, width - Len(text)) = <<>>
    BY <1>2, <2>8
  <2>10. InLayout(mark, digits, width, prec, type) = Repeat(Blank, width - Len(text)) \o text
    <3>1. Repeat("0", (width - a) - d) = z
      BY <2>1 DEF z
    <3>2. QED
      BY <1>3, <3>1 DEF InLayout, a, d, text
  <2>11. <<>> \o text = text
    BY <2>7, ConcatEmptySeq
  <2>12. QED
    BY <2>3, <2>4, <2>5, <2>6, <2>9, <2>10, <2>11 DEF d
<1>4. CASE ~ ("ZEROPAD" \in type /\ "LEFT" \notin type)
  <2> DEFINE m      == Repeat("0", prec - d) \o digits
             text   == mark \o m
             fill   == width - a - Len(m)
             spaces == Repeat(Blank, fill)
  <2>1. m \in Seq(V) /\ Len(m) \in Nat
    <3>1. prec - d \in Int
      BY <1>1
    <3>2. Repeat("0", prec - d) \in Seq(V)
      BY <1>2, <3>1
    <3> DEFINE z == Repeat("0", prec - d)
    <3> HIDE DEF z
    <3>3. QED
      BY <3>2, ConcatProperties, LenProperties DEF z
  <2> HIDE DEF m
  <2>2. text \in Seq(V) /\ Len(text) = a + Len(m)
    BY <2>1, ConcatProperties DEF a
  <2>3. width - Len(text) = fill /\ fill \in Int
    <3> HIDE DEF text
    <3>1. QED
      BY <1>1, <2>1, <2>2
  <2>4. spaces \in Seq(V)
    BY <1>2, <2>3
  <2>5. (spaces \o mark) \o m = spaces \o text
    <3> HIDE DEF spaces
    <3>1. QED
      BY <2>1, <2>4, ConcatAssociative, SMTT(60)
  <2>6. InLayout(mark, digits, width, prec, type) =
            IF "LEFT" \in type THEN text \o Repeat(Blank, width - Len(text))
            ELSE Repeat(Blank, width - Len(text)) \o text
    BY <1>4 DEF InLayout, d, m
  <2>7. /\ "LEFT" \in type => Filled(mark, m, width, type) = text \o spaces
        /\ "LEFT" \notin type => Filled(mark, m, width, type) = (spaces \o mark) \o m
    BY <1>4, Zenon DEF Filled, a
  <2> HIDE DEF text, spaces, fill
  <2>8. QED
    BY <2>3, <2>5, <2>6, <2>7 DEF m, d, spaces
<1>5. QED
  BY <1>3, <1>4

\* What the directive adds to its flags.
LEMMA TypeCases ==
    /\ fmt \in {"d", "i"} => TypeOf(fmt) = dir.flags \cup {"SIGN"}
    /\ fmt = "x" => TypeOf(fmt) = dir.flags \cup {"SMALL"}
    /\ fmt \in {"u", "o", "X"} => TypeOf(fmt) = dir.flags
<1>1. fmt \in {"d", "i"} => TypeOf(fmt) = dir.flags \cup {"SIGN"}
  BY DEF TypeOf
<1>2. fmt = "x" => TypeOf(fmt) = dir.flags \cup {"SMALL"}
  BY DEF TypeOf
<1>3. fmt \in {"u", "o", "X"} => TypeOf(fmt) = dir.flags
  <2>1. SUFFICES ASSUME fmt \in {"u", "o", "X"} PROVE TypeOf(fmt) = dir.flags
    OBVIOUS
  <2>2. fmt \notin {"d", "i"} /\ fmt # "x" /\ fmt # "p"
    BY <2>1
  <2>3. QED
    BY <2>2, Zenon DEF TypeOf
<1>4. QED
  BY <1>1, <1>2, <1>3

LEMMA MarkIs ==
    ASSUME dir \in Directives, arg \in 0 .. WORD - 1,
           fmt \in {"d", "i", "u", "o", "x", "X"}, InsideC
    PROVE  Sign(arg, TypeOf(fmt)) \o Special(Base(fmt), TypeOf(fmt)) = MarkInC(fmt)
<1> DEFINE type == TypeOf(fmt)
<1>1. dir.flags \subseteq {"LEFT", "PLUS", "SPACE", "SPECIAL", "ZEROPAD"}
  BY DEF Directives
<1>2. Signed(arg) \in Int /\ arg \in Int /\ arg >= 0
  BY SignedTyped, WordIsNat
<1>3. CASE fmt \in {"d", "i"}
  <2>1. type = dir.flags \cup {"SIGN"} /\ Base(fmt) = 10
    BY <1>3, TypeCases, BaseCases
  <2>2. Special(10, type) = <<>>
    BY SpecialCases
  <2>3. IsNegative(arg, type) <=> Signed(arg) < 0
    BY <2>1 DEF IsNegative
  <2>4. Meant(fmt) = Signed(arg)
    BY <1>3 DEF Meant
  <2>5. ("PLUS" \in type <=> "PLUS" \in dir.flags) /\ ("SPACE" \in type <=> "SPACE" \in dir.flags)
    BY <2>1
  <2> DEFINE minus == Meant(fmt) < 0
             plus  == "PLUS" \in dir.flags
             space == "SPACE" \in dir.flags
  <2>6. MarkInC(fmt) = IF minus THEN <<"-">> ELSE IF plus THEN <<"+">>
                       ELSE IF space THEN <<Blank>> ELSE <<>>
    <3>1. ~ minus <=> Meant(fmt) >= 0
      BY <1>2, <2>4
    <3>2. dir.flags \cap {"PLUS", "SPACE"} = {"SPACE"} <=> ~ plus /\ space
      OBVIOUS
    <3>3. fmt \notin {"x", "X"}
      BY <1>3
    <3>4. CASE minus
      BY <3>1, <3>3, <3>4, Zenon DEF MarkInC
    <3>5. CASE ~ minus /\ plus
      BY <1>3, <3>1, <3>2, <3>3, <3>5, Zenon DEF MarkInC
    <3>6. CASE ~ minus /\ ~ plus /\ space
      BY <1>3, <3>1, <3>2, <3>3, <3>6, Zenon DEF MarkInC, Blank
    <3>7. CASE ~ minus /\ ~ plus /\ ~ space
      BY <3>1, <3>2, <3>3, <3>7, Zenon DEF MarkInC
    <3>8. QED
      BY <3>4, <3>5, <3>6, <3>7
  <2>7. Sign(arg, type) = MarkInC(fmt)
    <3> HIDE DEF type
    <3>1. Sign(arg, type) = IF IsNegative(arg, type) THEN <<"-">>
                            ELSE IF "PLUS" \in type THEN <<"+">>
                            ELSE IF "SPACE" \in type THEN <<Blank>> ELSE <<>>
      BY SignCases
    <3>2. QED
      BY <2>3, <2>4, <2>5, <2>6, <3>1
  <2>8. Sign(arg, type) \in Seq(NumberChars(type))
    BY SignTyped
  <2> HIDE DEF type
  <2>9. Sign(arg, type) \o <<>> = Sign(arg, type)
    BY <2>8, ConcatEmptySeq
  <2>10. QED
    BY <2>1, <2>2, <2>7, <2>9 DEF type
<1>4. CASE fmt \in {"u", "o", "x", "X"}
  <2>1. "PLUS" \notin dir.flags /\ "SPACE" \notin dir.flags /\ "SIGN" \notin dir.flags
        /\ "SMALL" \notin dir.flags /\ fmt \notin {"d", "i"}
    BY <1>1, <1>4 DEF InsideC
  <2>2. /\ "PLUS" \notin type /\ "SPACE" \notin type /\ "SIGN" \notin type
        /\ "SMALL" \in type <=> fmt = "x"
        /\ "SPECIAL" \in type <=> "SPECIAL" \in dir.flags
    BY <1>4, <2>1, TypeCases
  <2>3. Sign(arg, type) = <<>>
    BY <2>2, SignCases DEF IsNegative
  <2>4. Meant(fmt) = arg
    BY <2>1 DEF Meant
  <2>5. ~ (Meant(fmt) < 0)
    BY <1>2, <2>4
  <2> HIDE DEF type
  <2>6. MarkInC(fmt) = IF fmt \in {"x", "X"} /\ "SPECIAL" \in dir.flags THEN <<"0", fmt>> ELSE <<>>
    <3>1. CASE fmt \in {"x", "X"} /\ "SPECIAL" \in dir.flags
      BY <2>1, <2>5, <3>1, Zenon DEF MarkInC
    <3>2. CASE ~ (fmt \in {"x", "X"} /\ "SPECIAL" \in dir.flags)
      BY <2>1, <2>5, <3>2, Zenon DEF MarkInC
    <3>3. QED
      BY <3>1, <3>2
  <2>7. Special(Base(fmt), type) = MarkInC(fmt)
    <3>1. CASE fmt \in {"x", "X"}
      BY <2>2, <2>6, <3>1, SpecialCases, BaseCases
    <3>2. CASE fmt = "u"
      <4>1. Base(fmt) = 10 /\ MarkInC(fmt) = <<>>
        BY <2>6, <3>2, BaseCases
      <4>2. QED
        BY <4>1, SpecialCases
    <3>3. CASE fmt = "o"
      <4>1. "SPECIAL" \notin type /\ MarkInC(fmt) = <<>>
        BY <2>2, <2>6, <3>3 DEF InsideC
      <4>2. QED
        BY <4>1, SpecialCases
    <3>4. QED
      BY <1>4, <3>1, <3>2, <3>3
  <2>8. Special(Base(fmt), type) \in Seq(NumberChars(type))
    BY SignTyped
  <2>9. <<>> \o Special(Base(fmt), type) = Special(Base(fmt), type)
    BY <2>8, ConcatEmptySeq
  <2>10. QED
    BY <2>3, <2>7, <2>9 DEF type
<1>5. QED
  BY <1>3, <1>4

(***************************************************************************)
(* Where number() is meant to do what C's printf() does, it does, for any  *)
(* width of an int, any number, any width and precision: the sign and the  *)
(* prefix, the digits, and where zeros and spaces go.                      *)
(***************************************************************************)
THEOREM WritesAsInC == Spec => []AgreesWithC
<1>1. FieldInv => AgreesWithC
  <2>1. SUFFICES ASSUME FieldInv, Converted({"d", "i", "u", "o", "x", "X"}), InsideC
                 PROVE  out = InC(fmt)
    BY DEF AgreesWithC
  <2> DEFINE base   == Base(fmt)
             type   == TypeOf(fmt)
             mag    == Magnitude(arg, type)
             digits == Reverse(Tmp(mag, base, type))
             mark   == MarkInC(fmt)
             width  == dir.field_width
             prec   == dir.precision
             V      == NumberChars(type)
  <2>2. fmt \in {"d", "i", "u", "o", "x", "X"} /\ fmt \in Numbers
    BY <2>1 DEF Converted, Numbers
  <2>3. /\ arg \in 0 .. WORD - 1 /\ dir \in Directives
        /\ out = Number(arg, base, SizeOf(fmt), prec, type)
    BY <2>1, <2>2 DEF FieldInv, Converted
  <2>4. base \in Bases /\ width \in Int /\ prec \in Int /\ SizeOf(fmt) = width
    <3>1. SizeOf(fmt) = width
      <4>1. fmt # "p"
        BY <2>2
      <4>2. QED
        BY <4>1 DEF SizeOf
    <3>2. QED
      BY <2>2, <2>3, <3>1, BaseIs DEF Directives
  <2>5. Sign(arg, type) \o Special(base, type) = mark
    BY <2>1, <2>2, <2>3, MarkIs
  <2>6. mark \in Seq(V)
    <3>1. Sign(arg, type) \o Special(base, type) \in Seq(V)
      BY SignTyped, ConcatProperties
    <3>2. QED
      BY <2>5, <3>1
  <2>7. mag \in 0 .. WORD
    BY <2>3, MagnitudeTyped
  <2>8. digits \in Seq(V)
    BY <2>4, <2>7, TmpTyped, ReverseTyped
  <2>9. ("LEFT" \in type <=> "LEFT" \in dir.flags) /\ ("ZEROPAD" \in type <=> "ZEROPAD" \in dir.flags)
    BY <2>2, TypeCases
  <2>10. "ZEROPAD" \in type => prec = -1
    BY <2>1, <2>9 DEF InsideC
  <2>11. Blank \in V /\ "0" \in V
    BY DEF Blank, NumberChars
  <2>12. out = Filled(mark, Repeat("0", prec - Len(digits)) \o digits, width, type)
    <3> DEFINE sign == Sign(arg, type) \o Special(base, type)
    <3>1. out = Filled(sign, Repeat("0", prec - Len(digits)) \o digits, width, type)
      BY <2>3, <2>4, Zenon DEF Number, Filled, Blank
    <3> HIDE DEF sign, mark, digits
    <3>2. QED
      BY <2>5, <3>1 DEF sign
  <2>13. out = InLayout(mark, digits, width, prec, type)
    <3> HIDE DEF mark, digits, width, prec, type, V
    <3>1. QED
      BY <2>4, <2>6, <2>8, <2>10, <2>11, <2>12, LayoutsAgree
  <2>14. DigitTable(type) = IF fmt = "x" THEN LowerCase ELSE UpperCase
    <3>1. "SMALL" \notin dir.flags
      BY <2>3 DEF Directives
    <3>2. QED
      BY <2>2, <3>1, TypeCases DEF DigitTable
  <2>15. mag = IF Meant(fmt) < 0 THEN 0 - Meant(fmt) ELSE Meant(fmt)
    <3>1. "SIGN" \in type <=> fmt \in {"d", "i"}
      BY <2>3, SignFlag
    <3>2. /\ mag = IF IsNegative(arg, type) THEN 0 - Signed(arg) ELSE arg
          /\ IsNegative(arg, type) => "SIGN" \in type /\ Signed(arg) < 0
          /\ ~ IsNegative(arg, type) /\ "SIGN" \in type => Signed(arg) = arg
      BY <2>3, MagnitudeIs
    <3>3. Signed(arg) \in Int /\ arg \in Nat
      BY <2>3, SignedTyped, WordIsNat
    <3> HIDE DEF mag, type
    <3>4. QED
      BY <3>1, <3>2, <3>3 DEF Meant
  <2> DEFINE least == IF "ZEROPAD" \in dir.flags /\ "LEFT" \notin dir.flags THEN width - Len(mark) ELSE prec
  <2>16. least \in Int
    <3> HIDE DEF mark, width, prec, V
    <3>1. Len(mark) \in Int
      BY <2>6, LenProperties
    <3>2. QED
      BY <2>4, <3>1
  <2>17. Numeral(mag, base, least, DigitTable(type)) = Repeat("0", least - Len(digits)) \o digits
    <3> HIDE DEF least, mag
    <3>1. QED
      BY <2>4, <2>7, <2>16, NumeralIs
  <2>18. InC(fmt) = LET text   == mark \o Numeral(mag, base, least, DigitTable(type))
                        spaces == Repeat(Blank, width - Len(text))
                    IN  IF "LEFT" \in type THEN text \o spaces ELSE spaces \o text
    <3> DEFINE number == IF Meant(fmt) < 0 THEN 0 - Meant(fmt) ELSE Meant(fmt)
               table  == IF fmt = "x" THEN LowerCase ELSE UpperCase
               form(n, t) == LET text   == mark \o Numeral(n, base, least, t)
                                 spaces == Repeat(Blank, width - Len(text))
                             IN  IF "LEFT" \in dir.flags THEN text \o spaces ELSE spaces \o text
    <3>1. InC(fmt) = form(number, table)
      BY Zenon DEF InC, Blank
    <3>2. mag = number /\ DigitTable(type) = table
      BY <2>14, <2>15
    <3> HIDE DEF mag, number, table, type
    <3>3. InC(fmt) = form(mag, DigitTable(type))
      BY <3>1, <3>2
    <3>4. QED
      BY <2>9, <3>3
  <2> HIDE DEF digits, mark, width, prec, mag, type
  <2>19. QED
    BY <2>9, <2>13, <2>17, <2>18 DEF InLayout
<1>2. QED
  BY <1>1, FieldKept, PTL
=============================================================================
