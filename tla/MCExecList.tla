----------------------------- MODULE MCExecList -----------------------------
(***************************************************************************)
(* An instance of ExecList for TLC.                                        *)
(***************************************************************************)
EXTENDS ExecList, TLC

CONSTANTS n1, n2, n3, x, y      \* the nodes and the characters

\* Two nodes of one priority and one that outranks them.
MCPri == n1 :> 0 @@ n2 :> 0 @@ n3 :> 5

\* Names of one length that differ in the last character, and one of which
\* another is the beginning.
MCName == n1 :> <<x, y>> @@ n2 :> <<x, x>> @@ n3 :> <<x, y, x>>

\* These, names that differ from them in the first or in a middle character,
\* and names nobody has.
MCNames == {<<x>>, <<x, y>>, <<y, y>>, <<x, x, x>>, <<x, y, x>>}
=============================================================================
