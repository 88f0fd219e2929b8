--------------------------- MODULE MCKryptonKernel ---------------------------
(***************************************************************************)
(* Instances of KryptonKernel for TLC.                                     *)
(***************************************************************************)
EXTENDS KryptonKernelInv

CONSTANTS k, d, a, b, m1, m2    \* the threads and the message blocks

\* init(): the kernel thread has priority 0, keyboard.device 15.
ShippedPri == k :> 0 @@ d :> 15

\* Two applications of one priority.
TwoAppsPri == k :> 0 @@ d :> 15 @@ a :> 5 @@ b :> 5

AppPri == k :> 0 @@ d :> 15 @@ a :> 5

NoWaits   == {}
ForEver   == {{}}
AnyWait   == {{}, Signals}

\* What the memory of the kernel thread's descriptor held before.
Zeroed     == {{}}
AnyGarbage == {{}, Signals}

(***************************************************************************)
(* The assumptions under which a ready driver runs: it is not ready in the *)
(* middle of a forbid() when the second and last tick that announces the   *)
(* end of the slice has passed, and no key is pressed in the window of     *)
(* DriverFindable.                                                         *)
(***************************************************************************)
Unheard ==
    /\ \E t \in Threads : InForbid(t)
    /\ Driver \in ToSet(thread_ready)
    /\ ts_curr_count < -1

HeardSpec == Init /\ [][Next /\ ~ Unheard' /\ ~ KeyPanic]_vars /\ Fairness
=============================================================================
