----------------------------- MODULE Multitasking -----------------------------
(***************************************************************************)
(* What the kernel promises its threads: one processor that goes from      *)
(* thread to thread by priority.  A thread is ready, blocked or has the    *)
(* processor; it gets it only from the ready threads, only when it is free *)
(* and only if no ready thread outranks it; it is blocked by its own act   *)
(* and unblocked into the ready threads.                                   *)
(***************************************************************************)
EXTENDS Integers

CONSTANTS Threads, KernelThread, Pri, NULL

VARIABLES
    cpu,        \* the thread that has the processor, or NULL
    ready,      \* the threads that could use it
    blocked     \* the threads that wait for a signal

vars == <<cpu, ready, blocked>>

Init == cpu = KernelThread /\ ready = {} /\ blocked = {}

Create(t) ==
    /\ t \notin {cpu} \cup ready \cup blocked
    /\ ready' = ready \cup {t}
    /\ UNCHANGED <<cpu, blocked>>

\* The thread that has the processor loses it to a ready one ...
Preempt ==
    /\ cpu # NULL
    /\ ready # {}
    /\ ready' = ready \cup {cpu}
    /\ cpu' = NULL
    /\ UNCHANGED blocked

\* ... or gives it up.
Block ==
    /\ cpu # NULL
    /\ blocked' = blocked \cup {cpu}
    /\ cpu' = NULL
    /\ UNCHANGED ready

Unblock(t) ==
    /\ t \in blocked
    /\ blocked' = blocked \ {t}
    /\ ready' = ready \cup {t}
    /\ UNCHANGED cpu

Dispatch(t) ==
    /\ cpu = NULL
    /\ t \in ready
    /\ \A u \in ready : Pri[u] <= Pri[t]
    /\ cpu' = t
    /\ ready' = ready \ {t}
    /\ UNCHANGED blocked

Next ==
    \/ \E t \in Threads : Create(t) \/ Unblock(t) \/ Dispatch(t)
    \/ Preempt
    \/ Block

Spec == Init /\ [][Next]_vars
=============================================================================
