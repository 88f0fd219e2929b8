------------------------------ MODULE ExecList ------------------------------
(***************************************************************************)
(* list.c on the memory it works on.  A list head is three pointers, laid  *)
(* out so that the first two form a node without contents at the front of  *)
(* the list and the last two one at its back:                              *)
(*                                                                         *)
(*       list->head        next of the front                               *)
(*       list->tail        prev of the front, next of the back: NULL       *)
(*       list->tailPrev    prev of the back                                *)
(*                                                                         *)
(* remove() is two stores.  switch_threads() calls it with interrupts on   *)
(* when it has been idle, so an interrupt may search the lists between the *)
(* two.  It changes none of them there: the one thread an interrupt        *)
(* readies is then the one being removed (RequestInv of KryptonKernelInv). *)
(*                                                                         *)
(* Nodes carry the names by which find_thread() tells threads apart with   *)
(* strcmp() of common.c.                                                   *)
(***************************************************************************)
EXTENDS Integers, SequencesExt

\* The two lists of threads, in the order find_thread() searches them.
SearchOrder == <<"thread_wait", "thread_ready">>

Lists == ToSet(SearchOrder)

CONSTANTS
    Nodes,
    Pri,            \* node->pri
    name,           \* node->name, as the sequence of its characters
    Names,          \* the names find_thread() is given
    NULL

\* The addresses of nodes, among them those that begin at &list->head and at
\* &list->tail.
Addresses == Nodes \cup (Lists \X {"head", "tail"})

ASSUME ListAssumption ==
    /\ IsFiniteSet(Nodes)
    /\ Pri \in [Nodes -> Int]
    /\ NULL \notin Addresses \cup Names
    /\ Nodes \cap (Lists \X {"head", "tail"}) = {}
    /\ DOMAIN name = Nodes
    /\ \A s \in Names \cup {name[n] : n \in Nodes} : s \in Seq(ToSet(s))

VARIABLES
    mem,        \* what is stored in each cell
    removing,   \* the node between the two stores of a remove(), or NULL
    sought,     \* the name the last find_thread() was given, NULL after
                \* any other step
    found       \* what it returned

vars == <<mem, removing, sought, found>>

-----------------------------------------------------------------------------
(***************************************************************************)
(* Addresses of nodes, and the cells behind them.  &list->head and         *)
(* &list->tail are cells, and the addresses of the nodes that begin there. *)
(***************************************************************************)
AtFront(l) == <<l, "head">>
AtBack(l)  == <<l, "tail">>

Cells     == (Nodes \X {"next", "prev"}) \cup (Lists \X {"head", "tail", "tailPrev"})

\* &p->next and &p->prev
NextOf(p) == IF p \in Nodes THEN <<p, "next">> ELSE p
PrevOf(p) ==
    IF p \in Nodes THEN <<p, "prev">>
    ELSE IF p[2] = "head" THEN AtBack(p[1]) ELSE <<p[1], "tailPrev">>

next(m, p) == m[NextOf(p)]
prev(m, p) == m[PrevOf(p)]

\* The node at the back is nobody's successor: its own next is NULL.
GetHead(m, l) == LET h == next(m, AtFront(l)) IN IF next(m, h) # NULL THEN h ELSE NULL

GetNext(m, p) == LET n == next(m, p) IN IF n # NULL /\ next(m, n) # NULL THEN n ELSE NULL

GetTail(m, l) == IF GetHead(m, l) # NULL THEN m[<<l, "tailPrev">>] ELSE NULL

UntilNull(at) ==
    LET stop == {i \in DOMAIN at : at[i] = NULL}
    IN  IF stop = {} THEN at ELSE SubSeq(at, 1, Min(stop) - 1)

\* What a loop over get_head() and get_next() visits: all of the list, or
\* one node more than there are if it goes round in circles.
Forth(m, l) ==
    LET at[i \in 1 .. Cardinality(Nodes) + 1] ==
            IF i = 1 THEN GetHead(m, l)
            ELSE IF at[i - 1] = NULL THEN NULL ELSE GetNext(m, at[i - 1])
    IN  at

Walk(m, l) == UntilNull(Forth(m, l))

\* The prev pointers from the back on.
PrevNode(m, p) == IF p # NULL /\ prev(m, p) \in Nodes THEN prev(m, p) ELSE NULL

Back(m, l) ==
    LET at[i \in 1 .. Cardinality(Nodes) + 1] ==
            PrevNode(m, IF i = 1 THEN AtBack(l) ELSE at[i - 1])
    IN  at

WalkBack(m, l) == UntilNull(Back(m, l))

-----------------------------------------------------------------------------
(***************************************************************************)
(* The functions of list.c: the memory after each, store by store.         *)
(***************************************************************************)
NewList(m, l) ==
    [m EXCEPT ![AtFront(l)] = AtBack(l), ![AtBack(l)] = NULL, ![<<l, "tailPrev">>] = AtFront(l)]

AddHead(m, l, n) ==
    [m EXCEPT ![NextOf(n)] = m[AtFront(l)],
              ![PrevOf(n)] = AtFront(l),
              ![PrevOf(m[AtFront(l)])] = n,
              ![AtFront(l)] = n]

InsertBefore(m, n, p) ==
    [m EXCEPT ![NextOf(n)] = p,
              ![PrevOf(n)] = prev(m, p),
              ![NextOf(prev(m, p))] = n,
              ![PrevOf(p)] = n]

\* Mutant: the back pointer of the list is not moved.
AddTailOneWay(m, l, n) ==
    [m EXCEPT ![NextOf(n)] = AtBack(l),
              ![PrevOf(n)] = prev(m, AtBack(l)),
              ![NextOf(prev(m, AtBack(l)))] = n]

AddTail(m, l, n) == InsertBefore(m, n, AtBack(l))

\* Mutant: equals are passed, and the search takes the last node it may.
EnqueueLate(m, l, n) ==
    LET list == Walk(m, l)
        stop == {i \in 1 .. Len(list) : Pri[n] >= Pri[list[i]]}
    IN  IF stop = {} THEN AddTail(m, l, n) ELSE InsertBefore(m, n, list[Max(stop)])

\* The loop stops at the first node that does not outrank the new one.
Enqueue(m, l, n) ==
    LET list == Walk(m, l)
        stop == {i \in 1 .. Len(list) : Pri[n] >= Pri[list[i]]}
    IN  IF stop = {} THEN AddTail(m, l, n) ELSE InsertBefore(m, n, list[Min(stop)])

\* remove(): the first store takes the node out of the walk from the head,
\* the second out of the one from the tail.
Store1(m, n) == [m EXCEPT ![NextOf(prev(m, n))] = next(m, n)]
Store2(m, n) == [m EXCEPT ![PrevOf(next(m, n))] = prev(m, n)]

\* Mutant: an empty list is not noticed.
RemoveHeadUnchecked(m, l) == [m EXCEPT ![AtFront(l)] = next(m, m[AtFront(l)])]

RemoveHead(m, l) ==
    IF GetHead(m, l) = NULL THEN m
    ELSE [m EXCEPT ![PrevOf(next(m, m[AtFront(l)]))] = AtFront(l),
                   ![AtFront(l)] = next(m, m[AtFront(l)])]

\* For a list that is not empty; it takes the header of an empty one.
RemoveTail(m, l) == LET n == m[<<l, "tailPrev">>] IN Store2(Store1(m, n), n)

-----------------------------------------------------------------------------
(***************************************************************************)
(* strcmp() compares and steps in one expression, so it has passed the two *)
(* characters that differ when it looks for the end of both strings.       *)
(***************************************************************************)

\* Mutant: the strings are equal as soon as one of them ends.
StrCmpPrefix(s, t) ==
    IF \A i \in 1 .. Min({Len(s), Len(t)}) : s[i] = t[i] THEN 0 ELSE 1

StrCmp(s, t) ==
    LET shared == 1 .. Min({Len(s), Len(t)})
        differ == {i \in shared : s[i] # t[i]}
        stop   == IF differ = {} THEN Min({Len(s), Len(t)}) + 1 ELSE Min(differ) + 1
    IN  CASE stop > Len(s) /\ stop > Len(t) -> 0
          [] stop > Len(s) /\ stop <= Len(t) -> -1
          [] OTHER -> 1

\* find_thread() in the two lists: the first node whose name compares equal.
Search(m, s) ==
    LET list == Walk(m, SearchOrder[1]) \o Walk(m, SearchOrder[2])
        hits == {i \in 1 .. Len(list) : StrCmp(name[list[i]], s) = 0}
    IN  IF hits = {} THEN NULL ELSE list[Min(hits)]

-----------------------------------------------------------------------------
Linked(l) == ToSet(Walk(mem, l))

Init ==
    /\ mem = NewList(NewList([c \in Cells |-> NULL], "thread_wait"), "thread_ready")
    /\ removing = NULL
    /\ sought = NULL
    /\ found = NULL

\* A step that is no search; none but remove() itself is in its middle.
Change(m) ==
    /\ removing = NULL
    /\ mem' = m
    /\ sought' = NULL
    /\ found' = NULL
    /\ UNCHANGED removing

\* A node is linked that is in no list ...
Insert(l, n) ==
    /\ \A k \in Lists : n \notin Linked(k)
    /\ \/ Change(AddHead(mem, l, n))
       \/ Change(AddTail(mem, l, n))
       \/ Change(Enqueue(mem, l, n))

\* ... and unlinked from an end ...
TakeHead(l) == Change(RemoveHead(mem, l))

TakeTail(l) == GetHead(mem, l) # NULL /\ Change(RemoveTail(mem, l))

\* ... or, in two steps, from wherever it is.
UnlinkForward(n) ==
    /\ removing = NULL
    /\ \E l \in Lists : n \in Linked(l)
    /\ mem' = Store1(mem, n)
    /\ removing' = n
    /\ sought' = NULL
    /\ found' = NULL

UnlinkBackward ==
    /\ removing # NULL
    /\ mem' = Store2(mem, removing)
    /\ removing' = NULL
    /\ sought' = NULL
    /\ found' = NULL

\* Also from an interrupt in the middle of a remove().
FindThread(s) ==
    /\ sought = NULL
    /\ sought' = s
    /\ found' = Search(mem, s)
    /\ UNCHANGED <<mem, removing>>

Next ==
    \/ \E l \in Lists, n \in Nodes : Insert(l, n)
    \/ \E l \in Lists : TakeHead(l) \/ TakeTail(l)
    \/ \E n \in Nodes : UnlinkForward(n)
    \/ UnlinkBackward
    \/ \E s \in Names : FindThread(s)

Spec == Init /\ [][Next]_vars

-----------------------------------------------------------------------------
TypeOK ==
    /\ mem \in [Cells -> Addresses \cup {NULL}]
    /\ \A l \in Lists : /\ mem[AtFront(l)] # NULL
                       /\ mem[AtBack(l)] = NULL
                       /\ mem[<<l, "tailPrev">>] # NULL
    /\ removing \in Nodes \cup {NULL}
    /\ sought \in Names \cup {NULL}
    /\ found \in Nodes \cup {NULL}

(***************************************************************************)
(* Both walks over a list end and visit the same nodes, each once, in      *)
(* opposite orders, no node is in two lists, and get_tail() agrees with    *)
(* the walk from the head.  In the middle of a remove() the node is out of *)
(* the walk from the head already, and nobody walks from the tail.         *)
(***************************************************************************)
Rest(l) == RemoveFirst(WalkBack(mem, l), removing)

WellLinked ==
    /\ \A l \in Lists :
          /\ IsInjective(Walk(mem, l))
          /\ IsInjective(WalkBack(mem, l))
          /\ Rest(l) = Reverse(Walk(mem, l))
          /\ removing = NULL /\ Walk(mem, l) # <<>> => GetTail(mem, l) = Last(Walk(mem, l))
    /\ \A k, l \in Lists : k # l => Linked(k) \cap Linked(l) = {}

(***************************************************************************)
(* find_thread() returns a thread of the name it was given if there is one *)
(* in the lists, and NULL if there is none; in the middle of a remove() as *)
(* well.  That needs names of which no two have one length and differ only *)
(* in the last character: strcmp() takes those for equal.                  *)
(***************************************************************************)
LastDiffers(s, t) ==
    /\ s # t
    /\ Len(s) = Len(t)
    /\ \A i \in 1 .. Len(s) - 1 : s[i] = t[i]

FindsTheNamed ==
    sought # NULL =>
        LET linked == UNION {Linked(l) : l \in Lists}
            namesakes == {n \in linked : name[n] = sought}
        IN  (\A n \in linked : ~ LastDiffers(name[n], sought)) =>
                IF namesakes = {} THEN found = NULL ELSE found \in namesakes

\* The memory implements lists that are sequences, changed in one step each.
Ideal == INSTANCE Queues WITH Threads <- Nodes,
                              content <- [l \in Lists |-> Walk(mem, l)]

ListsAreSequences == Ideal!Spec
=============================================================================
