------------------------------ MODULE ExecQueue ------------------------------
(***************************************************************************)
(* The exec-style lists of list.c, seen as what they hold: the sequence of *)
(* their nodes from head to tail.  The kernel keeps its ready queue, its   *)
(* wait queue and the message queue of every port in such lists.           *)
(***************************************************************************)
EXTENDS Integers, SequencesExt

CONSTANTS
    Threads,    \* the nodes: only thread descriptors are ever queued by priority
    Pri         \* node->pri

ASSUME PriAssumption == Pri \in [Threads -> Int]

\* Mutant: enqueue() appends without a look at the priorities.
InsertionPointLast(s, n) == Len(s) + 1

(***************************************************************************)
(* enqueue() walks the list from its head and stops at the first node that *)
(* does not outrank the new one; with no such node it appends.  Among      *)
(* nodes of one priority the newcomer therefore goes first.                *)
(***************************************************************************)
InsertionPoint(s, n) ==
    CHOOSE k \in 1 .. (Len(s) + 1) :
        /\ \A j \in 1 .. (k - 1) : Pri[n] < Pri[s[j]]
        /\ k <= Len(s) => Pri[n] >= Pri[s[k]]

Enqueue(s, n) == InsertAt(s, InsertionPoint(s, n), n)

\* Mutant: the node goes in front.
AddHead(s, n) == <<n>> \o s

AddTail(s, n) == Append(s, n)

\* remove() unlinks a node from wherever in the list it stands.
Position(s, n) == CHOOSE k \in 1 .. Len(s) : s[k] = n

Unlink(s, n) == RemoveAt(s, Position(s, n))

\* Mutant: the other end is removed.
RemoveTail(s) == Front(s)

\* remove_head() on a list that is not empty; get_head() is Head.
RemoveHead(s) == Tail(s)

-----------------------------------------------------------------------------
\* What the users of a list rely on.

\* No node is linked twice.
Distinct(s) == \A j, k \in 1 .. Len(s) : s[j] = s[k] => j = k

\* The nodes stand in order of falling priority.
Sorted(s) == \A j, k \in 1 .. Len(s) : j < k => Pri[s[j]] >= Pri[s[k]]
=============================================================================
