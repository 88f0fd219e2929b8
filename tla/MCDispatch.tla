----------------------------- MODULE MCDispatch -----------------------------
(***************************************************************************)
(* An instance of Dispatch for TLC.                                        *)
(***************************************************************************)
EXTENDS Dispatch, TLC

CONSTANTS k, d, a, m1   \* the threads and the message block

\* The shipped priorities, and an application between them.
MCPri == k :> 0 @@ d :> 15 @@ a :> 5

MCWaitFlags == {{}}

MCGarbage == {{}}
=============================================================================
