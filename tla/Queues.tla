------------------------------- MODULE Queues -------------------------------
(***************************************************************************)
(* What the functions of list.c promise: every list is a sequence of nodes *)
(* and every function changes one list in one step.                        *)
(***************************************************************************)
EXTENDS ExecQueue

CONSTANT Lists

VARIABLE content    \* the nodes of every list, from head to tail

Init == content = [l \in Lists |-> <<>>]

\* add_head(), add_tail() and enqueue() of a node that is in no list.
Linked(s, n) == {AddHead(s, n), AddTail(s, n), Enqueue(s, n)}

\* What the list s may become: remove_head(), remove_tail() and remove()
\* take a node from it.
Changed(s, free) ==
    (UNION {Linked(s, n) : n \in free}) \cup {Unlink(s, n) : n \in ToSet(s)}

Successors(c) ==
    LET free == Threads \ UNION {ToSet(c[l]) : l \in Lists}
    IN  UNION {{[c EXCEPT ![l] = s] : s \in Changed(c[l], free)} : l \in Lists}

Next == content' \in Successors(content)

Spec == Init /\ [][Next]_content
=============================================================================
