------------------------------- MODULE Mailbox -------------------------------
(***************************************************************************)
(* What a message port promises its owner: messages are read in the order  *)
(* they were posted, each is read and disposed of once, and the one being  *)
(* read stays valid until its reader disposes of it.                       *)
(***************************************************************************)
EXTENDS Integers, Sequences

CONSTANTS Messages, NULL

VARIABLES
    queue,      \* the messages posted and not disposed of, oldest first
    reading     \* the message the owner of the port works on, or NULL

vars == <<queue, reading>>

Init == queue = <<>> /\ reading = NULL

Post(m) ==
    /\ \A i \in 1 .. Len(queue) : queue[i] # m
    /\ queue' = Append(queue, m)
    /\ UNCHANGED reading

Read ==
    /\ reading = NULL
    /\ queue # <<>>
    /\ reading' = Head(queue)
    /\ UNCHANGED queue

Dispose ==
    /\ reading # NULL
    /\ queue' = Tail(queue)
    /\ reading' = NULL

Next == (\E m \in Messages : Post(m)) \/ Read \/ Dispose

Spec == Init /\ [][Next]_vars
=============================================================================
