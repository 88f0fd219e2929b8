------------------------------ MODULE KernelHeap ------------------------------
(***************************************************************************)
(* The kernel heap of pmm.c: a list of chunks, each with its header in     *)
(* front of it, in the pages mapped from SH_HEAP_START to sh_heap_max.     *)
(* kmalloc() and kfree() run with interrupts off.                          *)
(*                                                                         *)
(* A store through a NULL link goes to page 0, which is mapped and where   *)
(* nobody reads: it changes nothing here.  What callers store into blocks  *)
(* that overlap is not modelled, so that the model is that of the code up  *)
(* to the first overlap.                                                   *)
(***************************************************************************)
EXTENDS Integers, FiniteSetsExt, SequencesExt

CONSTANTS
    SH_HEAP_START,  \* where the heap begins
    HEADER,         \* sizeof(heap_header_t)
    PAGE,           \* the length of a page
    Sizes,          \* the lengths asked for
    MaxLive,        \* the blocks held at a time (a bound)
    MaxPages,       \* the pages the heap may grow to (a bound)
    NULL

ASSUME HeapAssumption ==
    /\ SH_HEAP_START \in Nat
    /\ {HEADER, PAGE, MaxLive, MaxPages} \subseteq Nat \ {0}
    /\ Sizes \subseteq Nat
    /\ NULL \notin Int

VARIABLES
    sh_heap,        \* the first chunk
    sh_heap_max,    \* where the mapped part of the heap ends
    header,         \* the headers in memory, by address
    live            \* the blocks the callers hold, in order of allocation

vars == <<sh_heap, sh_heap_max, header, live>>

HeapLimit == SH_HEAP_START + MaxPages * PAGE

PageEnds == {SH_HEAP_START + i * PAGE : i \in 0 .. MaxPages}

Addresses == SH_HEAP_START .. HeapLimit

Links == Addresses \cup {NULL}

Headers == [next : Links, prev : Links, allocated : BOOLEAN, length : Nat]

TypeOK ==
    /\ sh_heap \in Links
    /\ sh_heap_max \in PageEnds
    /\ DOMAIN header \subseteq Addresses
    /\ \A a \in DOMAIN header : header[a] \in Headers
    /\ live \in Seq([addr : Addresses, size : Sizes])

Init ==
    /\ sh_heap = NULL
    /\ sh_heap_max = SH_HEAP_START
    /\ header = [a \in {} |-> NULL]
    /\ live = <<>>

-----------------------------------------------------------------------------
SetNext(h, c, n) == IF c = NULL THEN h ELSE [h EXCEPT ![c].next = n]
SetPrev(h, c, p) == IF c = NULL THEN h ELSE [h EXCEPT ![c].prev = p]

\* A header is written at c.
WithHeader(h, c, r) == [a \in DOMAIN h \cup {c} |-> IF a = c THEN r ELSE h[a]]

\* The chunks from the first on: Chunk[i] is NULL behind the last.
Steps == 0 .. (HeapLimit - SH_HEAP_START)

Chunk[i \in Steps] ==
    IF i = 0 THEN sh_heap
    ELSE IF Chunk[i - 1] = NULL THEN NULL ELSE header[Chunk[i - 1]].next

Chunks == {Chunk[i] : i \in Steps} \ {NULL}

\* Mutant: a chunk that is in use fits as well.
FitsInUse(c, l) == c # NULL /\ header[c].length >= l

Fits(c, l) == c # NULL /\ ~ header[c].allocated /\ header[c].length >= l

\* The first chunk of the list that fits; the last chunk of the list.
FirstFit(l) == Chunk[CHOOSE i \in Steps : /\ Fits(Chunk[i], l)
                                          /\ \A j \in 0 .. (i - 1) : ~ Fits(Chunk[j], l)]

Tailmost == IF Chunks = {} THEN NULL ELSE CHOOSE c \in Chunks : header[c].next = NULL

\* split_chunk(): the rest gets its header behind the end of the chunk, where
\* the next chunk begins, and the link to that chunk is dropped.
Splits(h, c, l) == h[c].length - l > HEADER

Split(h, c, l) ==
    LET rest == c + h[c].length
    IN  IF ~ Splits(h, c, l) THEN h
        ELSE [WithHeader(h, rest, [next |-> NULL, prev |-> c, allocated |-> FALSE,
                                   length |-> h[c].length - l])
                 EXCEPT ![c].next = rest, ![c].length = l]

RoundUp(x) == Min({m \in PageEnds : m >= x})

\* Mutant: the heap grows by the bytes that are missing.
GrownToTheByte(end) == IF end > sh_heap_max THEN end ELSE sh_heap_max

\* alloc_chunk() maps pages until the heap reaches as far as end.
Grown(end) == IF end > sh_heap_max THEN RoundUp(end) ELSE sh_heap_max

Hand(c, n) == live' = Append(live, [addr |-> c + HEADER, size |-> n])

\* kmalloc() finds a chunk ...
Reuse(n) ==
    LET l == n + HEADER
        c == FirstFit(l)
    IN  /\ \E d \in Chunks : Fits(d, l)
        /\ header' = [Split(header, c, l) EXCEPT ![c].allocated = TRUE]
        /\ Hand(c, n)
        /\ UNCHANGED <<sh_heap, sh_heap_max>>

\* ... or makes one behind the last.
Extend(n) ==
    LET l     == n + HEADER
        start == IF Tailmost = NULL THEN SH_HEAP_START ELSE Tailmost + header[Tailmost].length
    IN  /\ ~ \E d \in Chunks : Fits(d, l)
        /\ start + l <= HeapLimit
        /\ sh_heap' = IF Tailmost = NULL THEN start ELSE sh_heap
        /\ sh_heap_max' = Grown(start + l)
        /\ header' = SetNext(WithHeader(header, start,
                                        [next |-> NULL, prev |-> Tailmost, allocated |-> TRUE,
                                         length |-> l]),
                             Tailmost, start)
        /\ Hand(start, n)

KMalloc(n) == Len(live) < MaxLive /\ (Reuse(n) \/ Extend(n))

-----------------------------------------------------------------------------
Free(h, c) == c # NULL /\ ~ h[c].allocated

\* Mutant: the chunk behind does not learn of its new neighbour.
MergeNextHalf(h, c) ==
    LET n == h[c].next
    IN  IF ~ Free(h, n) THEN h
        ELSE [h EXCEPT ![c].length = @ + h[n].length, ![c].next = h[n].next]

\* glue_chunk(): a free chunk takes in the free chunk behind it ...
MergeNext(h, c) ==
    LET n == h[c].next
    IN  IF ~ Free(h, n) THEN h
        ELSE SetPrev([h EXCEPT ![c].length = @ + h[n].length, ![c].next = h[n].next],
                     h[n].next, c)

\* ... and is taken in by the free chunk in front of it.
MergePrev(h, c) ==
    LET p == h[c].prev
    IN  IF ~ Free(h, p) THEN h
        ELSE SetPrev([h EXCEPT ![p].length = @ + h[c].length, ![p].next = h[c].next],
                     h[c].next, p)

\* Mutant: a page that begins with the freed chunk is kept.
ShrunkTooLittle(c) == IF sh_heap_max - PAGE > c THEN RoundUp(c + 1) ELSE sh_heap_max

\* free_chunk() unmaps the pages that begin at the freed chunk or behind it.
Shrunk(c) == IF sh_heap_max - PAGE >= c THEN RoundUp(c) ELSE sh_heap_max

\* kfree(): the chunk is glued to its free neighbours, and given up if it is
\* then the last.
KFree(i) ==
    LET c  == live[i].addr - HEADER
        h1 == MergeNext([header EXCEPT ![c].allocated = FALSE], c)
        h2 == MergePrev(h1, c)
        f  == IF Free(h1, h1[c].prev) THEN h1[c].prev ELSE c
    IN  /\ live' = RemoveAt(live, i)
        /\ IF h2[f].next # NULL
           THEN header' = h2 /\ UNCHANGED <<sh_heap, sh_heap_max>>
           ELSE /\ header' = SetNext(h2, h2[f].prev, NULL)
                /\ sh_heap' = IF h2[f].prev = NULL THEN NULL ELSE sh_heap
                /\ sh_heap_max' = Shrunk(f)

Next == (\E n \in Sizes : KMalloc(n)) \/ (\E i \in 1 .. Len(live) : KFree(i))

Spec == Init /\ [][Next]_vars

(***************************************************************************)
(* The heap as long as no chunk is split.                                  *)
(***************************************************************************)
NeverSplits ==
    \A n \in Sizes :
        Reuse(n) => ~ Splits(header, FirstFit(n + HEADER), n + HEADER)

UnsplitSpec == Init /\ [][Next /\ NeverSplits]_vars

\* The heap used as message.c does: the oldest message is freed first.
OldestFirst == \A i \in 2 .. Len(live) : ~ KFree(i)

FifoSpec == Init /\ [][Next /\ OldestFirst]_vars

-----------------------------------------------------------------------------
(***************************************************************************)
(* No two callers are given the same memory.                               *)
(***************************************************************************)
Block(b) == b.addr .. (b.addr + b.size - 1)

BlocksDisjoint ==
    \A i, j \in 1 .. Len(live) : i # j => Block(live[i]) \cap Block(live[j]) = {}

(***************************************************************************)
(* The list is the heap: its chunks lie one behind the other, linked both  *)
(* ways, the blocks the callers hold are those marked allocated, no free   *)
(* chunk has a free neighbour and none is the last.                        *)
(***************************************************************************)
ChunksTileHeap ==
    /\ sh_heap \in {NULL, SH_HEAP_START}
    /\ {c + HEADER : c \in {d \in Chunks : header[d].allocated}}
          = {live[i].addr : i \in 1 .. Len(live)}
    /\ \A c \in Chunks :
          /\ header[c].prev = NULL <=> c = sh_heap
          /\ header[c].next = NULL => header[c].allocated
          /\ header[c].next # NULL =>
                /\ header[c].next = c + header[c].length
                /\ header[header[c].next].prev = c
                /\ header[c].allocated \/ header[header[c].next].allocated

(***************************************************************************)
(* alloc_chunk() and free_chunk() keep mapped the pages the list reaches   *)
(* into, and no others.                                                    *)
(***************************************************************************)
PagesExact ==
    LET end == IF Tailmost = NULL THEN SH_HEAP_START ELSE Tailmost + header[Tailmost].length
    IN  end <= sh_heap_max /\ sh_heap_max < end + PAGE

(***************************************************************************)
(* The heap implements a store of blocks that keeps no memory it does not  *)
(* need: at most a header, which is not worth a split, and less than a     *)
(* page behind the last block.                                             *)
(***************************************************************************)
Store == INSTANCE BlockStore WITH Base <- SH_HEAP_START,
                                  Slack <- HEADER + PAGE,
                                  blocks <- live,
                                  top <- sh_heap_max

StoresBlocks == Store!Spec
=============================================================================
