----------------------------- MODULE MCVsPrintf -----------------------------
(***************************************************************************)
(* An instance of VsPrintf for TLC: words of four bits, so that every base *)
(* but 16 has numbers of two digits.                                       *)
(***************************************************************************)
EXTENDS VsPrintf

\* Every character the code tells apart, one of those that only stand for
\* themselves, and digits for fields of one and of two.
MCChars == {NUL, "%", "-", "+", " ", "#", "0", "1", "3", ".", "*", "l",
            "c", "s", "d", "u", "o", "x", "X", "b", "p", "n", "z"}

\* Of the directive's fields, the longest is wider than any number.
MCField == 11

MCStrings == {<<>>, <<"t">>, <<"t", "u", "v">>}

MCStars == {-3, 3}
=============================================================================
