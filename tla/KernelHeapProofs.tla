--------------------------- MODULE KernelHeapProofs ---------------------------
(***************************************************************************)
(* The heap of pmm.c hands out no memory twice, keeps the list of its      *)
(* chunks and maps the pages the list needs, for every length asked for,   *)
(* every number of blocks held and every size of header and page, as long  *)
(* as no chunk is split.                                                   *)
(***************************************************************************)
EXTENDS KernelHeap, SequenceTheorems, WellFoundedInduction, TLAPS

(***************************************************************************)
(* What the headers h say of the chunks C, whatever is marked allocated:   *)
(* the chunks lie one behind the other, linked both ways.                  *)
(***************************************************************************)
Typed(h) == DOMAIN h \subseteq Addresses /\ \A a \in DOMAIN h : h[a] \in Headers

ForwardLinks(h, C) ==
    /\ \A c \in C :
          /\ h[c].next = NULL => \A d \in C : d <= c
          /\ h[c].next # NULL =>
                /\ h[c].next \in C
                /\ h[c].next = c + h[c].length
                /\ h[h[c].next].prev = c
    /\ C # {} => \E t \in C : h[t].next = NULL

BackwardLinks(h, C) ==
    \A c \in C :
        /\ h[c].prev = NULL <=> c = SH_HEAP_START
        /\ h[c].prev # NULL => h[c].prev \in C /\ h[h[c].prev].next = c

Rows(h, C) ==
    \A c \in C :
        /\ h[c].length >= HEADER
        /\ \A d \in C : c < d => c + h[c].length <= d

Linked(h, C) ==
    /\ C \subseteq DOMAIN h
    /\ C # {} => SH_HEAP_START \in C
    /\ ForwardLinks(h, C)
    /\ BackwardLinks(h, C)
    /\ Rows(h, C)

\* Free chunks are apart, and none is the last.
Glued(h, C) ==
    \A c \in C : \/ h[c].allocated
                 \/ h[c].next # NULL /\ h[h[c].next].allocated

\* The blocks bs are the allocated chunks, less their headers and at most the
\* bytes that were not worth a chunk of their own.
Held(h, C, bs) ==
    /\ \A i \in 1 .. Len(bs) :
          LET c == bs[i].addr - HEADER
          IN  /\ c \in C
              /\ h[c].allocated
              /\ bs[i].size + HEADER <= h[c].length
              /\ h[c].length <= bs[i].size + 2 * HEADER
    /\ \A i, j \in 1 .. Len(bs) : bs[i].addr = bs[j].addr => i = j
    /\ \A c \in C : h[c].allocated => \E i \in 1 .. Len(bs) : bs[i].addr = c + HEADER

\* Memory is mapped to the end of the page in which the last chunk ends.
Mapped(h, C, max) ==
    /\ C = {} => max = SH_HEAP_START
    /\ \A c \in C :
          h[c].next = NULL =>
              c + h[c].length <= max /\ max < c + h[c].length + PAGE

Tiled(C) ==
    /\ sh_heap = IF C = {} THEN NULL ELSE SH_HEAP_START
    /\ Linked(header, C)
    /\ Glued(header, C)
    /\ Held(header, C, live)
    /\ Mapped(header, C, sh_heap_max)

HeapInv == TypeOK /\ \E C \in SUBSET Addresses : Tiled(C)

-----------------------------------------------------------------------------
(***************************************************************************)
(* Induction: a set of natural numbers that is not empty has a least       *)
(* element, and a step can be repeated any number of times.                *)
(***************************************************************************)
LEMMA LeastNatural ==
    ASSUME NEW S, S \subseteq Nat, S # {}
    PROVE  \E k \in S : \A m \in S : k <= m
<1> DEFINE Less == {ss \in Nat \X Nat : ss[1] < ss[2]}
<1>1. IsWellFoundedOn(Less, Nat)
  BY NatLessThanWellFounded DEF OpToRel
<1> HIDE DEF Less
<1>2. PICK k \in S : \A m \in S : ~ (<<m, k>> \in Less)
  BY <1>1, WFMin
<1>3. \A m \in S : k <= m
  <2>1. SUFFICES ASSUME NEW m \in S, ~ (k <= m)
                 PROVE  FALSE
    OBVIOUS
  <2>2. m \in Nat /\ k \in Nat /\ m < k
    BY <2>1
  <2>3. <<m, k>> \in Less
    BY <2>2 DEF Less
  <2>4. QED
    BY <1>2, <2>3
<1>4. QED
  BY <1>3

Maps(g, V) == g \in [V -> V]

Iterates(f, N, g, v, V) ==
    /\ f \in [0 .. N -> V]
    /\ f[0] = v
    /\ \A i \in 0 .. (N - 1) : f[i + 1] = g[f[i]]

LEMMA Iteration ==
    ASSUME NEW V, NEW v \in V, NEW g, Maps(g, V), NEW N \in Nat
    PROVE  \E f : Iterates(f, N, g, v, V)
<1> DEFINE Goes(f, n) == Iterates(f, n, g, v, V)
           Missing == {n \in Nat : ~ \E f : Goes(f, n)}
<1> USE DEF Maps, Iterates
<1>1. SUFFICES ASSUME Missing # {}
               PROVE  FALSE
  BY DEF Missing
<1>2. PICK n \in Missing : \A m \in Missing : n <= m
  <2> HIDE DEF Missing
  <2>1. Missing \subseteq Nat
    BY DEF Missing
  <2>2. QED
    BY <1>1, <2>1, LeastNatural
<1>3. n \in Nat /\ n # 0
  <2>1. n \in Nat
    OBVIOUS
  <2>2. Goes([i \in 0 .. 0 |-> v], 0)
    OBVIOUS
  <2>3. 0 \notin Missing
    BY <2>2
  <2>4. QED
    BY <2>1, <2>3
<1>4. n - 1 \notin Missing /\ n - 1 \in Nat
  <2>1. n - 1 \in Nat /\ ~ (n <= n - 1)
    BY <1>3
  <2>2. QED
    <3> HIDE DEF Missing
    <3>1. QED
      BY <1>2, <2>1
<1>5. PICK f : Goes(f, n - 1)
  BY <1>4
<1> DEFINE h == [i \in 0 .. n |-> IF i = n THEN g[f[n - 1]] ELSE f[i]]
<1>6. h \in [0 .. n -> V]
  BY <1>3, <1>5
<1>7. Goes(h, n)
  <2>1. h[0] = v
    BY <1>3, <1>5
  <2>2. ASSUME NEW i \in 0 .. (n - 1)
        PROVE  h[i + 1] = g[h[i]]
    <3>1. CASE i = n - 1
      BY <1>3, <3>1
    <3>2. CASE i # n - 1
      <4>1. i \in 0 .. (n - 1 - 1)
        BY <1>3, <3>2
      <4>2. f[i + 1] = g[f[i]]
        BY <1>5, <4>1
      <4>3. h[i + 1] = f[i + 1] /\ h[i] = f[i]
        BY <1>3, <4>1
      <4>4. QED
        BY <4>2, <4>3
    <3>3. QED
      BY <3>1, <3>2
  <2>3. QED
    BY <1>6, <2>1, <2>2
<1>8. n \notin Missing
  BY <1>7
<1>9. QED
  BY <1>8

-----------------------------------------------------------------------------
(***************************************************************************)
(* The constants, as numbers.                                              *)
(***************************************************************************)
LEMMA Numbers ==
    /\ SH_HEAP_START \in Nat
    /\ HEADER \in Nat \ {0}
    /\ PAGE \in Nat \ {0}
    /\ MaxPages \in Nat \ {0}
    /\ HeapLimit \in Nat
    /\ SH_HEAP_START <= HeapLimit
    /\ HeapLimit - SH_HEAP_START \in Nat
    /\ Addresses \subseteq Nat
    /\ NULL \notin Addresses
<1>1. /\ SH_HEAP_START \in Nat
      /\ HEADER \in Nat \ {0}
      /\ PAGE \in Nat \ {0}
      /\ MaxPages \in Nat \ {0}
      /\ NULL \notin Int
  BY HeapAssumption
<1>2. MaxPages * PAGE \in Nat
  BY <1>1
<1>3. /\ HeapLimit \in Nat
      /\ SH_HEAP_START <= HeapLimit
      /\ HeapLimit - SH_HEAP_START \in Nat
  BY <1>1, <1>2 DEF HeapLimit
<1>4. Addresses \subseteq Nat
  BY <1>1, <1>3 DEF Addresses
<1>5. NULL \notin Addresses
  <2>1. ASSUME NULL \in Addresses
        PROVE  NULL \in Int
    BY <1>4, <2>1
  <2>2. QED
    BY <1>1, <2>1
<1>6. QED
  BY <1>1, <1>3, <1>4, <1>5

LEMMA HeaderTyped ==
    ASSUME NEW C \in SUBSET Addresses, NEW h, Typed(h), C \subseteq DOMAIN h, NEW c \in C
    PROVE  /\ h[c] \in Headers
           /\ h[c].length \in Nat
           /\ h[c].next \in Links
           /\ h[c].prev \in Links
           /\ h[c].allocated \in BOOLEAN
  BY DEF Typed, Headers

(***************************************************************************)
(* The walk along the list is defined, stays in the list and goes from     *)
(* chunk to chunk.                                                         *)
(***************************************************************************)
LEMMA ChunkEquation ==
    ASSUME NEW C \in SUBSET Addresses, Tiled(C)
    PROVE  /\ Chunk[0] = sh_heap
           /\ \A i \in Steps :
                 i # 0 => Chunk[i] = IF Chunk[i - 1] = NULL THEN NULL
                                     ELSE header[Chunk[i - 1]].next
<1> DEFINE V == C \cup {NULL}
           N == HeapLimit - SH_HEAP_START
           g == [c \in V |-> IF c = NULL THEN NULL ELSE header[c].next]
           Walks(f) == f = [i \in Steps |->
                               IF i = 0 THEN sh_heap
                               ELSE IF f[i - 1] = NULL THEN NULL ELSE header[f[i - 1]].next]
<1>1. sh_heap \in V
  BY DEF Tiled, Linked
<1>2. g \in [V -> V]
  BY DEF Tiled, Linked, ForwardLinks
<1>3. N \in Nat /\ Steps = 0 .. N
  BY Numbers DEF Steps
<1>4. PICK f : Iterates(f, N, g, sh_heap, V)
  <2>1. Maps(g, V) /\ N \in Nat
    BY <1>2, <1>3 DEF Maps
  <2> HIDE DEF N, V, g
  <2>2. QED
    BY <1>1, <2>1, Iteration
<1>5. Walks(f)
  <2>1. ASSUME NEW i \in Steps, i # 0
        PROVE  f[i] = IF f[i - 1] = NULL THEN NULL ELSE header[f[i - 1]].next
    <3> HIDE DEF N
    <3>1. i - 1 \in 0 .. (N - 1) /\ i - 1 \in 0 .. N /\ (i - 1) + 1 = i
      BY <1>3, <2>1
    <3>2. f[i] = g[f[i - 1]] /\ f[i - 1] \in V
      BY <1>4, <3>1 DEF Iterates
    <3>3. QED
      BY <3>2
  <2>2. f = [i \in Steps |-> f[i]]
    BY <1>3, <1>4 DEF Iterates
  <2>3. QED
    BY <1>4, <2>1, <2>2 DEF Iterates
<1>6. Walks(Chunk)
  <2>1. \E h : Walks(h)
    BY <1>5
  <2>2. Chunk = CHOOSE h : Walks(h)
    BY DEF Chunk
  <2>3. QED
    <3> HIDE DEF Walks
    <3>1. QED
      BY <2>1, <2>2
<1>7. QED
  BY <1>3, <1>6

LEMMA ChunksListed ==
    ASSUME NEW C \in SUBSET Addresses, Tiled(C), Typed(header)
    PROVE  /\ Chunks = C
           /\ \A i \in Steps : Chunk[i] \in C \cup {NULL}
<1> DEFINE N == HeapLimit - SH_HEAP_START
<1>1. N \in Nat /\ Steps = 0 .. N
  BY Numbers DEF Steps
<1> HIDE DEF N
<1>2. \A i \in Steps : Chunk[i] \in C \cup {NULL}
  <2> DEFINE Stray == {i \in Steps : Chunk[i] \notin C \cup {NULL}}
  <2>1. SUFFICES ASSUME Stray # {}
                 PROVE  FALSE
    OBVIOUS
  <2>2. Stray \subseteq Nat
    BY <1>1
  <2>3. PICK i \in Stray : \A j \in Stray : i <= j
    <3> HIDE DEF Stray
    <3>1. QED
      BY <2>1, <2>2, LeastNatural
  <2>4. i # 0
    BY ChunkEquation DEF Tiled, Linked
  <2>5. i - 1 \in Steps /\ ~ (i <= i - 1)
    BY <1>1, <2>4
  <2>6. Chunk[i - 1] \in C \cup {NULL}
    BY <2>3, <2>5
  <2>7. Chunk[i] \in C \cup {NULL}
    BY <2>4, <2>6, ChunkEquation DEF Tiled, Linked, ForwardLinks
  <2>8. QED
    BY <2>7
<1>3. C \subseteq Nat /\ NULL \notin C
  BY Numbers
\* The walk passes a byte of the heap at least with every chunk.
<1>4. \A i \in Steps : Chunk[i] # NULL => Chunk[i] >= SH_HEAP_START + i
  <2> DEFINE Slow == {i \in Steps : Chunk[i] # NULL /\ ~ (Chunk[i] >= SH_HEAP_START + i)}
  <2>1. SUFFICES ASSUME Slow # {}
                 PROVE  FALSE
    OBVIOUS
  <2>2. Slow \subseteq Nat
    BY <1>1
  <2>3. PICK i \in Slow : \A j \in Slow : i <= j
    <3> HIDE DEF Slow
    <3>1. QED
      BY <2>1, <2>2, LeastNatural
  <2>4. i # 0
    BY ChunkEquation, Numbers DEF Tiled
  <2>5. i - 1 \in Steps /\ ~ (i <= i - 1) /\ i \in Nat
    BY <1>1, <2>4
  <2>6. i - 1 \notin Slow
    BY <2>3, <2>5
  <2>7. Chunk[i] = header[Chunk[i - 1]].next /\ Chunk[i - 1] # NULL
    BY <2>4, ChunkEquation
  <2>8. Chunk[i - 1] \in C /\ Chunk[i - 1] \in Nat
    BY <1>2, <1>3, <2>5, <2>7
  <2>9. Chunk[i - 1] >= SH_HEAP_START + (i - 1)
    BY <2>5, <2>6, <2>7
  <2>10. Chunk[i] \in C /\ Chunk[i] = Chunk[i - 1] + header[Chunk[i - 1]].length
         /\ header[Chunk[i - 1]].length >= HEADER
    BY <2>7, <2>8 DEF Tiled, Linked, ForwardLinks, Rows
  <2>11. header[Chunk[i - 1]].length \in Nat /\ HEADER \in Nat \ {0} /\ SH_HEAP_START \in Nat
    BY <2>8, HeaderTyped, Numbers DEF Tiled, Linked
  <2>12. Chunk[i] >= SH_HEAP_START + i
    BY <2>5, <2>8, <2>9, <2>10, <2>11
  <2>13. QED
    BY <2>12
<1>5. C \subseteq Chunks
  <2> DEFINE Missed == {c \in C : c \notin Chunks}
  <2>1. SUFFICES ASSUME Missed # {}
                 PROVE  FALSE
    OBVIOUS
  <2>2. Missed \subseteq Nat
    BY <1>3
  <2>3. PICK c \in Missed : \A d \in Missed : c <= d
    <3> HIDE DEF Missed
    <3>1. QED
      BY <2>1, <2>2, LeastNatural
  <2>4. c # SH_HEAP_START
    <3>1. 0 \in Steps
      BY <1>1
    <3>2. Chunk[0] = SH_HEAP_START
      BY ChunkEquation DEF Tiled
    <3>3. QED
      BY <1>3, <3>1, <3>2 DEF Chunks
  <2> DEFINE p == header[c].prev
  <2>5. p \in C /\ p # NULL /\ header[p].next = c
    BY <1>3, <2>4 DEF Tiled, Linked, BackwardLinks
  <2>6. p < c
    <3>1. header[p].next # NULL /\ c \in Nat /\ p \in Nat
      BY <1>3, <2>5
    <3>2. c = p + header[p].length /\ header[p].length >= HEADER
      BY <2>5, <3>1 DEF Tiled, Linked, ForwardLinks, Rows
    <3>3. header[p].length \in Nat
      BY <2>5, HeaderTyped DEF Tiled, Linked
    <3>4. QED
      BY <3>1, <3>2, <3>3, Numbers
  <2>7. p \notin Missed
    <3>1. p \in Nat /\ c \in Nat
      BY <1>3, <2>5
    <3>2. ~ (c <= p)
      BY <2>6, <3>1
    <3>3. QED
      BY <2>3, <3>2
  <2>8. PICK i \in Steps : Chunk[i] = p
    BY <2>5, <2>7 DEF Chunks
  <2>9. c <= HeapLimit /\ p >= SH_HEAP_START + i
    <3>1. c <= HeapLimit
      BY DEF Addresses
    <3>2. p >= SH_HEAP_START + i
      BY <1>4, <2>5, <2>8
    <3>3. QED
      BY <3>1, <3>2
  <2>10. i + 1 \in Steps /\ i + 1 # 0 /\ (i + 1) - 1 = i
    <3>1. i \in Nat /\ p \in Nat /\ c \in Nat
      <4>1. i \in Nat
        BY <1>1
      <4>2. p \in Nat /\ c \in Nat
        BY <1>3, <2>5
      <4>3. QED
        BY <4>1, <4>2
    <3>2. HeapLimit \in Nat /\ SH_HEAP_START \in Nat
      BY Numbers
    <3>3. i + 1 <= HeapLimit - SH_HEAP_START
      BY <2>6, <2>9, <3>1, <3>2
    <3>4. QED
      BY <3>1, <3>2, <3>3 DEF Steps
  <2>11. Chunk[i + 1] = c
    BY <2>5, <2>8, <2>10, ChunkEquation
  <2>12. QED
    BY <1>3, <2>10, <2>11 DEF Chunks
<1>6. Chunks \subseteq C
  BY <1>2 DEF Chunks
<1>7. QED
  BY <1>2, <1>5, <1>6

(***************************************************************************)
(* What the searches along the list find.                                  *)
(***************************************************************************)
LEMMA TailmostIsLast ==
    ASSUME NEW C \in SUBSET Addresses, Tiled(C), Typed(header)
    PROVE  /\ C = {} => Tailmost = NULL
           /\ C # {} => Tailmost \in C /\ Tailmost # NULL /\ header[Tailmost].next = NULL
<1>1. Chunks = C /\ NULL \notin C
  BY ChunksListed, Numbers
<1>2. C # {} => \E t \in C : header[t].next = NULL
  BY DEF Tiled, Linked, ForwardLinks
<1>3. QED
  BY <1>1, <1>2 DEF Tailmost

LEMMA FirstFitFits ==
    ASSUME NEW C \in SUBSET Addresses, Tiled(C), Typed(header), NEW l,
           \E d \in Chunks : Fits(d, l)
    PROVE  /\ FirstFit(l) \in C
           /\ ~ header[FirstFit(l)].allocated
           /\ header[FirstFit(l)].length >= l
<1> DEFINE Fitting == {i \in Steps : Fits(Chunk[i], l)}
           First(i) == Fits(Chunk[i], l) /\ \A j \in 0 .. (i - 1) : ~ Fits(Chunk[j], l)
<1>1. HeapLimit - SH_HEAP_START \in Nat
  BY Numbers
<1>2. Fitting \subseteq Nat /\ Fitting # {}
  BY <1>1 DEF Chunks, Steps
<1>3. PICK i \in Fitting : \A j \in Fitting : i <= j
  <2> HIDE DEF Fitting
  <2>1. QED
    BY <1>2, LeastNatural
<1>4. \A j \in 0 .. (i - 1) : ~ Fits(Chunk[j], l)
  <2>1. ASSUME NEW j \in 0 .. (i - 1), Fits(Chunk[j], l)
        PROVE  FALSE
    <3>1. j \in Steps /\ ~ (i <= j)
      BY <1>1, <1>2 DEF Steps
    <3>2. j \in Fitting
      BY <2>1, <3>1
    <3>3. QED
      BY <1>3, <3>1, <3>2
  <2>2. QED
    BY <2>1
<1>5. \E k \in Steps : First(k)
  BY <1>4
<1> DEFINE k == CHOOSE m \in Steps : First(m)
<1>6. k \in Steps /\ First(k)
  <2> HIDE DEF First
  <2>1. QED
    BY <1>5
<1>7. FirstFit(l) = Chunk[k]
  BY DEF FirstFit
<1> HIDE DEF k
<1>8. Chunk[k] \in C \cup {NULL} /\ Fits(Chunk[k], l)
  BY <1>6, ChunksListed
<1>9. QED
  BY <1>7, <1>8 DEF Fits

\* The end of the page in which the byte in front of x lies.
LEMMA RoundUpIsNear ==
    ASSUME NEW x \in Addresses
    PROVE  /\ RoundUp(x) \in PageEnds
           /\ RoundUp(x) \in Nat
           /\ x <= RoundUp(x)
           /\ RoundUp(x) < x + PAGE
           /\ x = SH_HEAP_START => RoundUp(x) = SH_HEAP_START
<1> DEFINE end(i) == SH_HEAP_START + i * PAGE
           Far == {i \in 0 .. MaxPages : end(i) >= x}
<1>1. /\ SH_HEAP_START \in Nat /\ PAGE \in Nat \ {0} /\ MaxPages \in Nat \ {0}
      /\ x \in Nat /\ SH_HEAP_START <= x /\ x <= end(MaxPages)
  BY Numbers DEF Addresses, HeapLimit
<1>2. \A i \in 0 .. MaxPages : i * PAGE \in Nat
  BY <1>1
<1>3. Far # {} /\ Far \subseteq Nat
  <2>1. MaxPages \in Far
    BY <1>1
  <2>2. 0 .. MaxPages \subseteq Nat
    BY <1>1
  <2>3. QED
    BY <2>1, <2>2
<1>4. PICK i \in Far : \A j \in Far : i <= j
  <2> HIDE DEF Far
  <2>1. QED
    BY <1>3, LeastNatural
<1>5. i \in 0 .. MaxPages /\ i \in Nat /\ end(i) >= x /\ end(i) \in Nat
  BY <1>1, <1>2
<1>6. end(i) < x + PAGE
  <2>1. CASE i = 0
    BY <1>1, <2>1
  <2>2. CASE i # 0
    <3>1. i - 1 \in 0 .. MaxPages /\ ~ (i <= i - 1)
      BY <1>1, <1>5, <2>2
    <3>2. ~ (end(i - 1) >= x)
      BY <1>4, <3>1
    <3>3. (i - 1) * PAGE = i * PAGE - PAGE
      BY <1>1, <1>5
    <3>4. i * PAGE \in Nat
      BY <1>2, <1>5
    <3>5. QED
      BY <1>1, <3>2, <3>3, <3>4
  <2>3. QED
    BY <2>1, <2>2
<1>7. \A j \in 0 .. MaxPages : end(j) >= x => end(i) <= end(j)
  <2>1. ASSUME NEW j \in 0 .. MaxPages, end(j) >= x
        PROVE  end(i) <= end(j)
    <3>1. i <= j /\ j \in Nat
      BY <1>1, <1>4, <2>1
    <3>2. i * PAGE <= j * PAGE
      <4>1. j - i \in Nat /\ (j - i) * PAGE \in Nat
        BY <1>1, <1>5, <3>1
      <4>2. (j - i) * PAGE = j * PAGE - i * PAGE
        BY <1>1, <1>5, <3>1
      <4>3. QED
        BY <1>2, <1>5, <4>1, <4>2
    <3>3. QED
      BY <1>1, <1>2, <1>5, <3>2
  <2>2. QED
    BY <2>1
<1> DEFINE Ends == {m \in PageEnds : m >= x}
<1>8. end(i) \in Ends /\ \A m \in Ends : end(i) <= m
  BY <1>5, <1>7 DEF PageEnds
<1>9. \A m \in Ends : m \in Int
  BY <1>1, <1>2 DEF PageEnds
<1>10. RoundUp(x) = end(i)
  <2>1. RoundUp(x) = CHOOSE m \in Ends : \A k \in Ends : m <= k
    BY DEF RoundUp, Min
  <2> HIDE DEF Ends
  <2>2. \A m \in Ends : (\A k \in Ends : m <= k) => m = end(i)
    BY <1>8, <1>9
  <2>3. QED
    BY <1>8, <2>1, <2>2
<1>11. x = SH_HEAP_START => end(i) = SH_HEAP_START
  <2>1. ASSUME x = SH_HEAP_START
        PROVE  i = 0
    <3>1. 0 \in Far
      BY <1>1, <2>1
    <3>2. QED
      BY <1>4, <1>5, <3>1
  <2>2. QED
    BY <1>1, <2>1
<1>12. QED
  BY <1>5, <1>6, <1>8, <1>10, <1>11

-----------------------------------------------------------------------------
(***************************************************************************)
(* The invariant says what the runs check.                                 *)
(***************************************************************************)
LEMMA LiveTyped ==
    ASSUME TypeOK
    PROVE  /\ Len(live) \in Nat
           /\ DOMAIN live = 1 .. Len(live)
           /\ Typed(header)
           /\ \A i \in 1 .. Len(live) :
                 /\ live[i] \in [addr : Addresses, size : Sizes]
                 /\ live[i].addr \in Nat
                 /\ live[i].size \in Nat
<1>1. live \in Seq([addr : Addresses, size : Sizes])
  BY DEF TypeOK
<1>2. Sizes \subseteq Nat /\ Addresses \subseteq Nat
  BY HeapAssumption, Numbers
<1>3. \A i \in 1 .. Len(live) : live[i] \in [addr : Addresses, size : Sizes]
  BY <1>1, ElementOfSeq
<1>4. Len(live) \in Nat /\ DOMAIN live = 1 .. Len(live)
  BY <1>1, LenProperties
<1>5. QED
  BY <1>2, <1>3, <1>4 DEF TypeOK, Typed

LEMMA BlockInChunk ==
    ASSUME NEW a \in Nat, NEW s \in Nat, NEW l \in Nat, NEW b \in Nat,
           a - HEADER + l <= b - HEADER, s + HEADER <= l
    PROVE  a + s <= b
  BY Numbers

LEMMA InBlock ==
    ASSUME NEW a \in Nat, NEW s \in Nat, NEW x \in a .. (a + s - 1)
    PROVE  a <= x /\ x < a + s /\ x \in Int
  OBVIOUS

LEMMA BlocksApart == HeapInv => BlocksDisjoint
<1>1. SUFFICES ASSUME HeapInv, NEW i \in 1 .. Len(live), NEW j \in 1 .. Len(live), i # j,
                      NEW x \in Block(live[i]), x \in Block(live[j])
               PROVE  FALSE
  BY DEF BlocksDisjoint
<1>2. PICK C \in SUBSET Addresses : Tiled(C)
  BY <1>1 DEF HeapInv
<1> DEFINE c == live[i].addr - HEADER
           d == live[j].addr - HEADER
<1>3. /\ live[i].addr \in Nat /\ live[i].size \in Nat
      /\ live[j].addr \in Nat /\ live[j].size \in Nat
      /\ HEADER \in Nat
      /\ Typed(header)
  BY <1>1, LiveTyped, Numbers DEF HeapInv
<1>4. /\ c \in C /\ live[i].size + HEADER <= header[c].length
      /\ d \in C /\ live[j].size + HEADER <= header[d].length
      /\ live[i].addr # live[j].addr
  BY <1>1, <1>2 DEF Tiled, Held
<1>5. header[c].length \in Nat /\ header[d].length \in Nat
  BY <1>2, <1>3, <1>4, HeaderTyped DEF Tiled, Linked
<1>6. c \in Nat /\ d \in Nat /\ (c < d \/ d < c)
  <2>1. C \subseteq Nat
    BY Numbers
  <2>2. c \in Nat /\ d \in Nat
    BY <1>4, <2>1
  <2>3. c # d
    BY <1>3, <1>4, SMTT(60)
  <2>4. QED
    BY <2>2, <2>3
<1>7. c < d => c + header[c].length <= d
  BY <1>2, <1>4 DEF Tiled, Linked, Rows
<1>8. d < c => d + header[d].length <= c
  BY <1>2, <1>4 DEF Tiled, Linked, Rows
<1>9. /\ live[i].addr <= x /\ x < live[i].addr + live[i].size
      /\ live[j].addr <= x /\ x < live[j].addr + live[j].size
      /\ x \in Int
  <2>1. x \in live[i].addr .. (live[i].addr + live[i].size - 1)
    BY <1>1 DEF Block
  <2>2. x \in live[j].addr .. (live[j].addr + live[j].size - 1)
    BY <1>1 DEF Block
  <2>3. live[i].addr <= x /\ x < live[i].addr + live[i].size /\ x \in Int
    BY <1>3, <2>1, InBlock
  <2>4. live[j].addr <= x /\ x < live[j].addr + live[j].size
    BY <1>3, <2>2, InBlock
  <2>5. QED
    BY <2>3, <2>4
<1>10. live[i].size + HEADER <= header[c].length /\ live[j].size + HEADER <= header[d].length
  BY <1>4
<1>11. CASE c < d
  <2>1. live[i].addr - HEADER + header[c].length <= live[j].addr - HEADER
    BY <1>7, <1>11
  <2>2. live[i].addr + live[i].size <= live[j].addr
    <3> HIDE DEF c
    <3>1. QED
      BY <1>3, <1>5, <1>10, <2>1, BlockInChunk
  <2>3. QED
    BY <1>3, <1>9, <2>2
<1>12. CASE d < c
  <2>1. live[j].addr - HEADER + header[d].length <= live[i].addr - HEADER
    BY <1>8, <1>12
  <2>2. live[j].addr + live[j].size <= live[i].addr
    <3> HIDE DEF d
    <3>1. QED
      BY <1>3, <1>5, <1>10, <2>1, BlockInChunk
  <2>3. QED
    BY <1>3, <1>9, <2>2
<1>13. QED
  BY <1>6, <1>11, <1>12

LEMMA ListIsHeap == HeapInv => ChunksTileHeap
<1>1. SUFFICES ASSUME HeapInv
               PROVE  ChunksTileHeap
  OBVIOUS
<1>2. PICK C \in SUBSET Addresses : Tiled(C)
  BY <1>1 DEF HeapInv
<1>3. Chunks = C /\ Typed(header) /\ NULL \notin Addresses /\ C \subseteq Nat /\ HEADER \in Nat
  BY <1>1, <1>2, LiveTyped, ChunksListed, Numbers DEF HeapInv
<1>4. sh_heap \in {NULL, SH_HEAP_START}
  BY <1>2 DEF Tiled
<1>5. {c + HEADER : c \in {d \in Chunks : header[d].allocated}}
         = {live[i].addr : i \in 1 .. Len(live)}
  <2>1. ASSUME NEW i \in 1 .. Len(live)
        PROVE  \E c \in C : header[c].allocated /\ live[i].addr = c + HEADER
    <3>1. live[i].addr - HEADER \in C /\ header[live[i].addr - HEADER].allocated
      BY <1>2 DEF Tiled, Held
    <3>2. live[i].addr = (live[i].addr - HEADER) + HEADER
      BY <1>1, <1>3, LiveTyped DEF HeapInv
    <3>3. QED
      BY <3>1, <3>2
  <2>2. \A c \in C : header[c].allocated => \E i \in 1 .. Len(live) : live[i].addr = c + HEADER
    BY <1>2 DEF Tiled, Held
  <2>3. QED
    BY <1>3, <2>1, <2>2
<1>6. ASSUME NEW c \in C
      PROVE  /\ header[c].prev = NULL <=> c = sh_heap
             /\ header[c].next = NULL => header[c].allocated
             /\ header[c].next # NULL =>
                   /\ header[c].next = c + header[c].length
                   /\ header[header[c].next].prev = c
                   /\ header[c].allocated \/ header[header[c].next].allocated
  BY <1>2 DEF Tiled, Linked, ForwardLinks, BackwardLinks, Glued
<1>7. QED
  BY <1>3, <1>4, <1>5, <1>6 DEF ChunksTileHeap

LEMMA PagesFollowList == HeapInv => PagesExact
<1>1. SUFFICES ASSUME HeapInv
               PROVE  PagesExact
  OBVIOUS
<1>2. PICK C \in SUBSET Addresses : Tiled(C)
  BY <1>1 DEF HeapInv
<1>3. /\ C = {} => Tailmost = NULL
      /\ C # {} => Tailmost \in C /\ Tailmost # NULL /\ header[Tailmost].next = NULL
  BY <1>1, <1>2, LiveTyped, TailmostIsLast DEF HeapInv
<1>4. CASE C = {}
  BY <1>2, <1>3, <1>4, Numbers DEF PagesExact, Tiled, Mapped
<1>5. CASE C # {}
  BY <1>2, <1>3, <1>5 DEF PagesExact, Tiled, Mapped
<1>6. QED
  BY <1>4, <1>5

-----------------------------------------------------------------------------
(***************************************************************************)
(* What a change of one field leaves alone.                                *)
(***************************************************************************)
LEMMA AllocatedSet ==
    ASSUME NEW h, Typed(h), NEW c \in DOMAIN h, NEW b \in BOOLEAN
    PROVE  LET g == [h EXCEPT ![c].allocated = b]
           IN  /\ Typed(g)
               /\ DOMAIN g = DOMAIN h
               /\ \A a \in DOMAIN h :
                     /\ g[a].next = h[a].next
                     /\ g[a].prev = h[a].prev
                     /\ g[a].length = h[a].length
                     /\ g[a].allocated = IF a = c THEN b ELSE h[a].allocated
  BY DEF Typed, Headers

LEMMA NextSet ==
    ASSUME NEW h, Typed(h), NEW c \in DOMAIN h \cup {NULL}, NEW n \in Links
    PROVE  /\ Typed(SetNext(h, c, n))
           /\ DOMAIN SetNext(h, c, n) = DOMAIN h
           /\ \A a \in DOMAIN h :
                 /\ SetNext(h, c, n)[a].next = IF a = c THEN n ELSE h[a].next
                 /\ SetNext(h, c, n)[a].prev = h[a].prev
                 /\ SetNext(h, c, n)[a].length = h[a].length
                 /\ SetNext(h, c, n)[a].allocated = h[a].allocated
<1>1. CASE c = NULL
  <2>1. \A a \in DOMAIN h : a # c
    BY <1>1, Numbers DEF Typed
  <2>2. SetNext(h, c, n) = h
    BY <1>1 DEF SetNext
  <2>3. QED
    BY <2>1, <2>2
<1>2. CASE c # NULL
  <2>1. SetNext(h, c, n) = [h EXCEPT ![c].next = n]
    BY <1>2 DEF SetNext
  <2>2. QED
    BY <1>2, <2>1 DEF Typed, Headers
<1>3. QED
  BY <1>1, <1>2

LEMMA PrevSet ==
    ASSUME NEW h, Typed(h), NEW c \in DOMAIN h \cup {NULL}, NEW p \in Links
    PROVE  /\ Typed(SetPrev(h, c, p))
           /\ DOMAIN SetPrev(h, c, p) = DOMAIN h
           /\ \A a \in DOMAIN h :
                 /\ SetPrev(h, c, p)[a].next = h[a].next
                 /\ SetPrev(h, c, p)[a].prev = IF a = c THEN p ELSE h[a].prev
                 /\ SetPrev(h, c, p)[a].length = h[a].length
                 /\ SetPrev(h, c, p)[a].allocated = h[a].allocated
<1>1. CASE c = NULL
  <2>1. \A a \in DOMAIN h : a # c
    BY <1>1, Numbers DEF Typed
  <2>2. SetPrev(h, c, p) = h
    BY <1>1 DEF SetPrev
  <2>3. QED
    BY <2>1, <2>2
<1>2. CASE c # NULL
  <2>1. SetPrev(h, c, p) = [h EXCEPT ![c].prev = p]
    BY <1>2 DEF SetPrev
  <2>2. QED
    BY <1>2, <2>1 DEF Typed, Headers
<1>3. QED
  BY <1>1, <1>2

LEMMA LinksKept ==
    ASSUME NEW C, NEW h, NEW g, Linked(h, C), C \subseteq DOMAIN g,
           \A a \in C : /\ g[a].next = h[a].next
                        /\ g[a].prev = h[a].prev
                        /\ g[a].length = h[a].length
    PROVE  Linked(g, C)
<1>1. ForwardLinks(g, C)
  BY DEF Linked, ForwardLinks
<1>2. BackwardLinks(g, C)
  BY DEF Linked, BackwardLinks
<1>3. Rows(g, C)
  BY DEF Linked, Rows
<1>4. QED
  BY <1>1, <1>2, <1>3 DEF Linked

\* The blocks held depend on the chunks in use only.
LEMMA HeldKept ==
    ASSUME NEW C, NEW D, NEW h, NEW g, NEW bs, Held(h, C, bs), D \subseteq C,
           \A a \in C : h[a].allocated => a \in D,
           \A a \in D : /\ g[a].allocated = h[a].allocated
                        /\ h[a].allocated => g[a].length = h[a].length
    PROVE  Held(g, D, bs)
  BY DEF Held

-----------------------------------------------------------------------------
(***************************************************************************)
(* One chunk takes in the next: both halves of glue_chunk().               *)
(***************************************************************************)
Absorb(h, c, n) ==
    SetPrev([h EXCEPT ![c].length = @ + h[n].length, ![c].next = h[n].next], h[n].next, c)

LEMMA AbsorbFields ==
    ASSUME NEW h, Typed(h), NEW c \in DOMAIN h, NEW n \in DOMAIN h, c # n,
           h[n].next \in DOMAIN h \cup {NULL}
    PROVE  LET g == Absorb(h, c, n)
           IN  /\ Typed(g)
               /\ DOMAIN g = DOMAIN h
               /\ \A a \in DOMAIN h :
                     /\ g[a].next = IF a = c THEN h[n].next ELSE h[a].next
                     /\ g[a].prev = IF a = h[n].next THEN c ELSE h[a].prev
                     /\ g[a].length = IF a = c THEN h[c].length + h[n].length ELSE h[a].length
                     /\ g[a].allocated = h[a].allocated
<1> DEFINE k == [h EXCEPT ![c].length = @ + h[n].length, ![c].next = h[n].next]
<1>1. /\ h[n].next \in Links /\ h[n].length \in Nat /\ h[c].length \in Nat
      /\ h[c].length + h[n].length \in Nat
      /\ c \in Links
  BY DEF Typed, Headers, Links
<1>2. /\ DOMAIN k = DOMAIN h
      /\ \A a \in DOMAIN h :
            k[a] = IF a = c THEN [h[c] EXCEPT !.length = h[c].length + h[n].length,
                                              !.next = h[n].next]
                   ELSE h[a]
  OBVIOUS
<1>3. h[c] \in Headers
  BY DEF Typed
<1>4. /\ k[c] \in Headers
      /\ k[c].next = h[n].next
      /\ k[c].prev = h[c].prev
      /\ k[c].length = h[c].length + h[n].length
      /\ k[c].allocated = h[c].allocated
  BY <1>1, <1>2, <1>3 DEF Headers
<1>5. Typed(k)
  BY <1>2, <1>4 DEF Typed
<1> HIDE DEF k
<1>6. Absorb(h, c, n) = SetPrev(k, h[n].next, c)
  BY DEF Absorb, k
<1>7. h[n].next \in DOMAIN k \cup {NULL}
  BY <1>2
<1>8. /\ Typed(SetPrev(k, h[n].next, c))
      /\ DOMAIN SetPrev(k, h[n].next, c) = DOMAIN k
      /\ \A a \in DOMAIN k :
            /\ SetPrev(k, h[n].next, c)[a].next = k[a].next
            /\ SetPrev(k, h[n].next, c)[a].prev = IF a = h[n].next THEN c ELSE k[a].prev
            /\ SetPrev(k, h[n].next, c)[a].length = k[a].length
            /\ SetPrev(k, h[n].next, c)[a].allocated = k[a].allocated
  BY <1>1, <1>5, <1>7, PrevSet, ZenonT(60)
<1>9. QED
  BY <1>2, <1>4, <1>6, <1>8

LEMMA ChunkNumbers ==
    ASSUME NEW C \in SUBSET Addresses, NEW h, Typed(h), Linked(h, C)
    PROVE  /\ NULL \notin C
           /\ SH_HEAP_START \in Nat
           /\ HEADER \in Nat \ {0}
           /\ \A c \in C :
                 /\ c \in Nat
                 /\ SH_HEAP_START <= c
                 /\ h[c] \in Headers
                 /\ h[c].length \in Nat
                 /\ h[c].length >= HEADER
                 /\ h[c].next \in C \cup {NULL}
                 /\ h[c].prev \in C \cup {NULL}
                 /\ h[c].allocated \in BOOLEAN
<1>1. C \subseteq Nat /\ NULL \notin C
  BY Numbers
<1>2. SH_HEAP_START \in Nat /\ HEADER \in Nat \ {0}
  BY Numbers
<1>3. \A c \in C : SH_HEAP_START <= c
  BY Numbers DEF Addresses
<1>4. \A c \in C : h[c] \in Headers /\ h[c].length \in Nat /\ h[c].allocated \in BOOLEAN
  BY HeaderTyped DEF Linked
<1>5. \A c \in C : h[c].length >= HEADER
  BY DEF Linked, Rows
<1>6. \A c \in C : h[c].next \in C \cup {NULL} /\ h[c].prev \in C \cup {NULL}
  BY DEF Linked, ForwardLinks, BackwardLinks
<1>7. QED
  BY <1>1, <1>2, <1>3, <1>4, <1>5, <1>6

LEMMA NextIsBehind ==
    ASSUME NEW C \in SUBSET Addresses, NEW h, Typed(h), Linked(h, C),
           NEW c \in C, h[c].next # NULL
    PROVE  /\ h[c].next \in C
           /\ h[c].next = c + h[c].length
           /\ c < h[c].next
           /\ h[h[c].next].prev = c
           /\ h[c].next # SH_HEAP_START
<1>1. /\ h[c].next \in C /\ h[c].next = c + h[c].length /\ h[h[c].next].prev = c
  BY DEF Linked, ForwardLinks
<1>2. c \in Nat /\ SH_HEAP_START <= c /\ h[c].length \in Nat /\ h[c].length >= HEADER
      /\ HEADER \in Nat \ {0} /\ SH_HEAP_START \in Nat
  BY ChunkNumbers
<1>3. QED
  BY <1>1, <1>2

\* The headers g of the chunks D, when c has taken in the chunk behind it.
Absorbed(h, C, c, g, D) ==
    /\ Typed(g)
    /\ Linked(g, D)
    /\ c \in D
    /\ \A max : Mapped(h, C, max) => Mapped(g, D, max)
    /\ g[c].next = h[h[c].next].next
    /\ \A a \in D :
          /\ g[a].allocated = h[a].allocated
          /\ a # c => g[a].length = h[a].length /\ g[a].next = h[a].next

LEMMA AbsorbLinked ==
    ASSUME NEW C \in SUBSET Addresses, NEW h, Typed(h), Linked(h, C),
           NEW c \in C, h[c].next # NULL
    PROVE  Absorbed(h, C, c, Absorb(h, c, h[c].next), C \ {h[c].next})
<1> DEFINE n == h[c].next
           m == h[n].next
           g == Absorb(h, c, n)
           D == C \ {n}
<1>1. /\ n \in C /\ n = c + h[c].length /\ c < n /\ h[n].prev = c /\ n # SH_HEAP_START
  <2>1. n # NULL /\ c \in Nat /\ h[c].length \in Nat /\ n \in C
    BY ChunkNumbers
  <2>2. QED
    BY <2>1, NextIsBehind
<1>2. /\ NULL \notin C
      /\ SH_HEAP_START \in Nat
      /\ HEADER \in Nat \ {0}
      /\ \A a \in C :
            /\ a \in Nat
            /\ SH_HEAP_START <= a
            /\ h[a].length \in Nat
            /\ h[a].length >= HEADER
            /\ h[a].next \in C \cup {NULL}
            /\ h[a].prev \in C \cup {NULL}
  BY ChunkNumbers
<1>3. c \in DOMAIN h /\ n \in DOMAIN h /\ c # n /\ m \in DOMAIN h \cup {NULL} /\ C \subseteq DOMAIN h
  BY <1>1, <1>2 DEF Linked
<1>4. m # NULL => m \in C /\ m = n + h[n].length /\ n < m /\ h[m].prev = n
  BY <1>1, NextIsBehind, ZenonT(60)
<1>5. /\ Typed(g)
      /\ DOMAIN g = DOMAIN h
      /\ \A a \in DOMAIN h :
            /\ g[a].next = IF a = c THEN m ELSE h[a].next
            /\ g[a].prev = IF a = m THEN c ELSE h[a].prev
            /\ g[a].length = IF a = c THEN h[c].length + h[n].length ELSE h[a].length
            /\ g[a].allocated = h[a].allocated
  BY <1>3, AbsorbFields
<1>6. c \in D /\ m # c
  BY <1>1, <1>2, <1>4
<1> HIDE DEF g
<1>7. /\ g[c].next = m /\ g[c].prev = h[c].prev /\ g[c].length = h[c].length + h[n].length
      /\ \A a \in D :
            /\ g[a].allocated = h[a].allocated
            /\ a # c => g[a].length = h[a].length /\ g[a].next = h[a].next
            /\ a # m => g[a].prev = h[a].prev
      /\ m # NULL => g[m].prev = c
  BY <1>3, <1>4, <1>5, <1>6
<1>8. \A a \in C : a # c => h[a].next # n
  BY <1>1, NextIsBehind
<1>9. \A a \in C : a # n => h[a].next # m \/ m = NULL
  BY <1>4, NextIsBehind
<1> HIDE DEF n, m, D
<1>10. D \subseteq C /\ (\A a \in C : a \in D <=> a # n) /\ n \notin D
  BY DEF D
<1>11. \A d \in D : c < d => n + h[n].length <= d
  <2>1. ASSUME NEW d \in D, c < d
        PROVE  n + h[n].length <= d
    <3>1. c + h[c].length <= d
      BY <1>10, <2>1 DEF Linked, Rows
    <3>2. n < d
      BY <1>1, <1>2, <1>10, <3>1
    <3>3. QED
      BY <1>1, <1>10, <3>2 DEF Linked, Rows
  <2>2. QED
    BY <2>1
<1>12. ForwardLinks(g, D)
  <2>1. ASSUME NEW a \in D, g[a].next = NULL, NEW d \in D
        PROVE  d <= a
    <3>1. CASE a = c
      <4>1. d <= n
        BY <1>1, <1>7, <1>10, <2>1, <3>1 DEF Linked, ForwardLinks, m
      <4>2. ~ (c < d)
        <5>1. ASSUME c < d
              PROVE  FALSE
          <6>1. n + h[n].length <= d
            BY <1>11, <5>1
          <6>2. QED
            BY <1>1, <1>2, <1>10, <4>1, <6>1
        <5>2. QED
          BY <5>1
      <4>3. QED
        BY <1>2, <1>10, <3>1, <4>2
    <3>2. CASE a # c
      BY <1>7, <1>10, <2>1, <3>2 DEF Linked, ForwardLinks
    <3>3. QED
      BY <3>1, <3>2
  <2>2. ASSUME NEW a \in D, g[a].next # NULL
        PROVE  /\ g[a].next \in D
               /\ g[a].next = a + g[a].length
               /\ g[g[a].next].prev = a
    <3>1. CASE a = c
      <4>1. m # NULL /\ m # n
        BY <1>1, <1>2, <1>4, <1>7, <2>2, <3>1
      <4>2. m \in D /\ m = c + (h[c].length + h[n].length)
        BY <1>1, <1>2, <1>4, <1>10, <4>1
      <4>3. QED
        BY <1>7, <3>1, <4>1, <4>2
    <3>2. CASE a # c
      <4>1. g[a].next = h[a].next /\ h[a].next # NULL /\ a \in C /\ a # n
        BY <1>7, <1>10, <2>2, <3>2
      <4>2. h[a].next \in C /\ h[a].next = a + h[a].length /\ h[h[a].next].prev = a
        BY <4>1, NextIsBehind
      <4>3. h[a].next # n /\ h[a].next # m
        BY <1>8, <1>9, <3>2, <4>1
      <4>4. h[a].next \in D
        BY <1>10, <4>2, <4>3
      <4>5. g[h[a].next].prev = h[h[a].next].prev
        BY <1>7, <4>3, <4>4
      <4>6. QED
        BY <1>7, <3>2, <4>1, <4>2, <4>4, <4>5
    <3>3. QED
      BY <3>1, <3>2
  <2>3. \E t \in D : g[t].next = NULL
    <3>1. PICK t \in C : h[t].next = NULL
      BY DEF Linked, ForwardLinks
    <3>2. CASE t = n
      BY <1>6, <1>7, <3>1, <3>2 DEF m
    <3>3. CASE t # n
      BY <1>1, <1>2, <1>7, <1>10, <3>1, <3>3 DEF n
    <3>4. QED
      BY <3>2, <3>3
  <2>4. QED
    BY <2>1, <2>2, <2>3 DEF ForwardLinks
<1>13. BackwardLinks(g, D)
  <2>1. ASSUME NEW a \in D
        PROVE  /\ g[a].prev = NULL <=> a = SH_HEAP_START
               /\ g[a].prev # NULL => g[a].prev \in D /\ g[g[a].prev].next = a
    <3>1. CASE a = m
      <4>1. m # NULL
        BY <1>2, <1>10, <2>1, <3>1
      <4>2. g[a].prev = c /\ g[c].next = a
        BY <1>7, <3>1, <4>1
      <4>3. a # SH_HEAP_START
        BY <1>1, <1>2, <1>4, <3>1, <4>1
      <4>4. c # NULL
        BY <1>2
      <4>5. QED
        BY <1>6, <4>2, <4>3, <4>4
    <3>2. CASE a # m
      <4>1. g[a].prev = h[a].prev /\ a \in C /\ a # n
        BY <1>7, <1>10, <2>1, <3>2
      <4>2. /\ h[a].prev = NULL <=> a = SH_HEAP_START
            /\ h[a].prev # NULL => h[a].prev \in C /\ h[h[a].prev].next = a
        BY <4>1 DEF Linked, BackwardLinks
      <4>3. ASSUME h[a].prev # NULL
            PROVE  h[a].prev \in D /\ g[h[a].prev].next = a
        <5>1. h[a].prev # n
          BY <3>2, <4>2, <4>3 DEF m
        <5>2. h[a].prev # c
          BY <4>1, <4>2, <4>3 DEF n
        <5>3. QED
          BY <1>7, <1>10, <4>2, <4>3, <5>1, <5>2
      <4>4. QED
        BY <4>1, <4>2, <4>3
    <3>3. QED
      BY <3>1, <3>2
  <2>2. QED
    BY <2>1 DEF BackwardLinks
<1>14. Rows(g, D)
  <2>1. ASSUME NEW a \in D
        PROVE  g[a].length >= HEADER
    <3>1. CASE a = c
      BY <1>1, <1>2, <1>7, <3>1
    <3>2. CASE a # c
      BY <1>2, <1>7, <1>10, <3>2
    <3>3. QED
      BY <3>1, <3>2
  <2>2. ASSUME NEW a \in D, NEW d \in D, a < d
        PROVE  a + g[a].length <= d
    <3>1. CASE a = c
      <4>1. n + h[n].length <= d
        BY <1>11, <2>2, <3>1
      <4>2. QED
        BY <1>1, <1>2, <1>7, <1>10, <3>1, <4>1
    <3>2. CASE a # c
      BY <1>7, <1>10, <2>2, <3>2 DEF Linked, Rows
    <3>3. QED
      BY <3>1, <3>2
  <2>3. QED
    BY <2>1, <2>2 DEF Rows
<1>15. Linked(g, D)
  BY <1>1, <1>3, <1>5, <1>10, <1>12, <1>13, <1>14 DEF Linked
<1>16. ASSUME NEW max, Mapped(h, C, max)
       PROVE  Mapped(g, D, max)
  <2>1. ASSUME NEW a \in D, g[a].next = NULL
        PROVE  a + g[a].length <= max /\ max < a + g[a].length + PAGE
    <3>1. CASE a = c
      <4>1. n + h[n].length <= max /\ max < n + h[n].length + PAGE
        BY <1>1, <1>7, <1>16, <2>1, <3>1 DEF Mapped, m
      <4>2. a + g[a].length = n + h[n].length
        BY <1>1, <1>2, <1>7, <3>1
      <4>3. QED
        BY <4>1, <4>2
    <3>2. CASE a # c
      BY <1>7, <1>10, <1>16, <2>1, <3>2 DEF Mapped
    <3>3. QED
      BY <3>1, <3>2
  <2>2. QED
    BY <1>6, <2>1 DEF Mapped
<1>17. QED
  <2>1. Absorbed(h, C, c, g, D)
    BY <1>5, <1>6, <1>7, <1>15, <1>16 DEF Absorbed, n, m
  <2>2. QED
    BY <2>1 DEF g, n, D

(***************************************************************************)
(* The last chunk is given up, as free_chunk() does.                       *)
(***************************************************************************)
\* The headers g of the chunks D, when f is no longer one of them.
Dropped(h, C, f, g, D) ==
    LET p == h[f].prev
    IN  /\ Typed(g)
        /\ Linked(g, D)
        /\ p = NULL <=> D = {}
        /\ p = NULL => f = SH_HEAP_START
        /\ p # NULL => p \in D /\ g[p].next = NULL /\ p + g[p].length = f
        /\ \A a \in D :
              /\ g[a].allocated = h[a].allocated
              /\ g[a].length = h[a].length
              /\ a # p => g[a].next = h[a].next
              /\ h[a].next = f <=> a = p
              /\ g[a].next = NULL => a = p

LEMMA DropLinked ==
    ASSUME NEW C \in SUBSET Addresses, NEW h, Typed(h), Linked(h, C),
           NEW f \in C, h[f].next = NULL
    PROVE  Dropped(h, C, f, SetNext(h, h[f].prev, NULL), C \ {f})
<1> DEFINE p == h[f].prev
           g == SetNext(h, p, NULL)
           D == C \ {f}
<1>1. /\ NULL \notin C
      /\ SH_HEAP_START \in Nat
      /\ HEADER \in Nat \ {0}
      /\ \A a \in C :
            /\ a \in Nat
            /\ SH_HEAP_START <= a
            /\ h[a].length \in Nat
            /\ h[a].length >= HEADER
            /\ h[a].next \in C \cup {NULL}
            /\ h[a].prev \in C \cup {NULL}
  BY ChunkNumbers
<1>2. C \subseteq DOMAIN h /\ p \in DOMAIN h \cup {NULL} /\ NULL \in Links
  BY <1>1 DEF Linked, Links
<1>3. /\ Typed(g)
      /\ DOMAIN g = DOMAIN h
      /\ \A a \in DOMAIN h :
            /\ g[a].next = IF a = p THEN NULL ELSE h[a].next
            /\ g[a].prev = h[a].prev
            /\ g[a].length = h[a].length
            /\ g[a].allocated = h[a].allocated
  BY <1>2, NextSet
<1> HIDE DEF g
<1>4. p # NULL => p \in C /\ h[p].next = f /\ p # f
  BY DEF Linked, BackwardLinks
<1>5. \A a \in C : a <= f
  BY DEF Linked, ForwardLinks
<1>6. p = NULL <=> f = SH_HEAP_START
  BY DEF Linked, BackwardLinks
<1> HIDE DEF p, D
<1>7. D \subseteq C /\ (\A a \in C : a \in D <=> a # f)
  BY DEF D
<1>8. \A a \in D : /\ g[a].next = IF a = p THEN NULL ELSE h[a].next
                   /\ g[a].prev = h[a].prev
                   /\ g[a].length = h[a].length
                   /\ g[a].allocated = h[a].allocated
  BY <1>2, <1>3, <1>7
<1>9. p # NULL => p \in D /\ g[p].next = NULL /\ p + h[p].length = f
  <2>1. ASSUME p # NULL
        PROVE  p \in D /\ g[p].next = NULL /\ p + h[p].length = f
    <3>1. p \in D
      BY <1>4, <1>7, <2>1
    <3>2. g[p].next = NULL
      BY <1>8, <3>1
    <3>3. h[p].next = f /\ f # NULL /\ p \in C
      BY <1>1, <1>4, <2>1
    <3>4. h[p].next = p + h[p].length
      BY <3>3 DEF Linked, ForwardLinks
    <3>5. QED
      BY <3>1, <3>2, <3>3, <3>4
  <2>2. QED
    BY <2>1
<1>10. \A a \in D : h[a].next = f <=> a = p
  <2>1. ASSUME NEW a \in D, h[a].next = f
        PROVE  a = p
    <3>1. a \in C /\ h[a].next # NULL
      BY <1>1, <1>7, <2>1
    <3>2. h[h[a].next].prev = a
      BY <3>1 DEF Linked, ForwardLinks
    <3>3. QED
      BY <2>1, <3>2 DEF p
  <2>2. ASSUME NEW a \in D, a = p
        PROVE  h[a].next = f
    BY <1>1, <1>4, <1>7, <2>2
  <2>3. QED
    BY <2>1, <2>2
<1>11. \A a \in D : g[a].next = NULL => a = p
  <2>1. ASSUME NEW a \in D, g[a].next = NULL, a # p
        PROVE  FALSE
    <3>1. a \in C /\ a # f /\ h[a].next = NULL
      BY <1>7, <1>8, <2>1
    <3>2. f <= a /\ a <= f
      BY <1>5, <3>1 DEF Linked, ForwardLinks
    <3>3. QED
      BY <1>1, <3>1, <3>2
  <2>2. QED
    BY <2>1
<1>12. p = NULL <=> D = {}
  <2>1. ASSUME p = NULL
        PROVE  D = {}
    <3>1. ASSUME NEW a \in D
          PROVE  FALSE
      <4>1. a \in C /\ a # f /\ a <= f /\ SH_HEAP_START <= a
        BY <1>1, <1>5, <1>7, <3>1
      <4>2. QED
        BY <1>1, <1>6, <2>1, <4>1
    <3>2. QED
      BY <3>1
  <2>2. QED
    BY <1>9, <2>1
<1>13. ForwardLinks(g, D)
  <2>1. ASSUME NEW a \in D, g[a].next = NULL, NEW d \in D
        PROVE  d <= a
    <3>1. a = p /\ p # NULL
      BY <1>1, <1>7, <1>11, <2>1
    <3>2. a \in C /\ d \in C /\ d # f /\ d <= f /\ a + h[a].length = f
      BY <1>5, <1>7, <1>9, <2>1, <3>1
    <3>3. a < d => a + h[a].length <= d
      BY <3>2 DEF Linked, Rows
    <3>4. QED
      BY <1>1, <3>2, <3>3
  <2>2. ASSUME NEW a \in D, g[a].next # NULL
        PROVE  /\ g[a].next \in D
               /\ g[a].next = a + g[a].length
               /\ g[g[a].next].prev = a
    <3>1. a # p /\ a \in C /\ g[a].next = h[a].next
      BY <1>7, <1>8, <2>2
    <3>2. h[a].next \in C /\ h[a].next = a + h[a].length /\ h[h[a].next].prev = a
      BY <2>2, <3>1 DEF Linked, ForwardLinks
    <3>3. h[a].next \in D
      BY <1>7, <1>10, <3>1, <3>2
    <3>4. QED
      BY <1>8, <3>1, <3>2, <3>3
  <2>3. D # {} => \E t \in D : g[t].next = NULL
    BY <1>9, <1>12
  <2>4. QED
    BY <2>1, <2>2, <2>3 DEF ForwardLinks
<1>14. BackwardLinks(g, D)
  <2>1. ASSUME NEW a \in D
        PROVE  /\ g[a].prev = NULL <=> a = SH_HEAP_START
               /\ g[a].prev # NULL => g[a].prev \in D /\ g[g[a].prev].next = a
    <3>1. g[a].prev = h[a].prev /\ a \in C /\ a # f
      BY <1>7, <1>8
    <3>2. /\ h[a].prev = NULL <=> a = SH_HEAP_START
          /\ h[a].prev # NULL => h[a].prev \in C /\ h[h[a].prev].next = a
      BY <3>1 DEF Linked, BackwardLinks
    <3>3. ASSUME h[a].prev # NULL
          PROVE  h[a].prev \in D /\ g[h[a].prev].next = a
      <4>1. h[a].prev # f
        BY <1>1, <3>1, <3>2, <3>3
      <4>2. h[a].prev \in D
        BY <1>7, <3>2, <3>3, <4>1
      <4>3. h[a].prev # p
        BY <1>10, <3>1, <3>2, <3>3, <4>2
      <4>4. QED
        BY <1>8, <3>2, <3>3, <4>2, <4>3
    <3>4. QED
      BY <3>1, <3>2, <3>3
  <2>2. QED
    BY <2>1 DEF BackwardLinks
<1>15. Rows(g, D)
  BY <1>7, <1>8 DEF Linked, Rows
<1>16. D # {} => SH_HEAP_START \in D
  BY <1>6, <1>7, <1>12 DEF Linked
<1>17. Linked(g, D)
  BY <1>2, <1>3, <1>7, <1>13, <1>14, <1>15, <1>16 DEF Linked
<1>18. p # NULL => p + g[p].length = f
  BY <1>8, <1>9
<1>19. QED
  <2>1. Dropped(h, C, f, g, D)
    BY <1>3, <1>6, <1>8, <1>9, <1>10, <1>11, <1>12, <1>17, <1>18 DEF Dropped, p
  <2>2. QED
    BY <2>1 DEF g, p, D

\* The pages mapped end behind the start of the heap by a page at least, or
\* with it.
LEMMA PageEndsApart ==
    ASSUME NEW m \in PageEnds
    PROVE  /\ m \in Nat
           /\ m \in Addresses
           /\ m > SH_HEAP_START => m - PAGE >= SH_HEAP_START
<1>1. PICK i \in 0 .. MaxPages : m = SH_HEAP_START + i * PAGE
  BY DEF PageEnds
<1>2. /\ SH_HEAP_START \in Nat /\ PAGE \in Nat \ {0} /\ MaxPages \in Nat \ {0} /\ i \in Nat
      /\ i <= MaxPages
  BY <1>1, Numbers
<1>3. i * PAGE \in Nat
  BY <1>2
<1>4. i # 0 => i * PAGE >= PAGE
  <2>1. ASSUME i # 0
        PROVE  i * PAGE >= PAGE
    <3>1. i - 1 \in Nat /\ (i - 1) * PAGE \in Nat
      BY <1>2, <2>1
    <3>2. (i - 1) * PAGE = i * PAGE - PAGE
      BY <1>2
    <3>3. QED
      BY <1>2, <1>3, <3>1, <3>2
  <2>2. QED
    BY <2>1
<1>5. i = 0 => i * PAGE = 0
  BY <1>2
<1>6. i * PAGE <= MaxPages * PAGE
  <2>1. MaxPages - i \in Nat /\ (MaxPages - i) * PAGE \in Nat
    BY <1>2
  <2>2. (MaxPages - i) * PAGE = MaxPages * PAGE - i * PAGE
    BY <1>2
  <2>3. MaxPages * PAGE \in Nat
    BY <1>2
  <2>4. QED
    BY <1>3, <2>1, <2>2, <2>3
<1>7. m \in Addresses
  <2>1. HeapLimit = SH_HEAP_START + MaxPages * PAGE /\ MaxPages * PAGE \in Nat
    BY <1>2 DEF HeapLimit
  <2>2. QED
    BY <1>1, <1>2, <1>3, <1>6, <2>1 DEF Addresses
<1>8. QED
  BY <1>1, <1>2, <1>3, <1>4, <1>5, <1>7

LEMMA ChunkEnds ==
    ASSUME TypeOK, NEW C \in SUBSET Addresses, Tiled(C), NEW c \in C
    PROVE  /\ c + header[c].length \in Addresses
           /\ c + header[c].length <= sh_heap_max
<1>1. Typed(header) /\ Linked(header, C)
  BY LiveTyped DEF Tiled
<1>2. /\ c \in Nat /\ SH_HEAP_START <= c /\ header[c].length \in Nat /\ NULL \notin C
      /\ HEADER \in Nat \ {0} /\ SH_HEAP_START \in Nat
      /\ header[c].length >= HEADER
  BY <1>1, ChunkNumbers
<1>3. sh_heap_max \in Nat /\ sh_heap_max \in Addresses
  BY PageEndsApart DEF TypeOK
<1>4. HeapLimit \in Nat
  BY Numbers
<1>5. sh_heap_max <= HeapLimit
  BY <1>3 DEF Addresses
<1>6. PICK t \in C : header[t].next = NULL
  BY <1>1 DEF Linked, ForwardLinks
<1>7. t + header[t].length <= sh_heap_max
  BY <1>6 DEF Tiled, Mapped
<1>8. c <= t
  BY <1>1, <1>6 DEF Linked, ForwardLinks
<1>9. c < t => c + header[c].length <= t
  BY <1>1 DEF Linked, Rows
<1>10. t \in Nat /\ header[t].length \in Nat
  BY <1>1, ChunkNumbers
<1>11. c + header[c].length <= sh_heap_max
  <2>1. CASE c = t
    BY <1>7, <2>1
  <2>2. CASE c # t
    BY <1>2, <1>3, <1>7, <1>8, <1>9, <1>10, <2>2
  <2>3. QED
    BY <2>1, <2>2
<1>12. QED
  BY <1>2, <1>3, <1>4, <1>5, <1>11 DEF Addresses

-----------------------------------------------------------------------------
(***************************************************************************)
(* The steps.                                                              *)
(***************************************************************************)
LEMMA InitEmpty == Init => HeapInv
<1>1. SUFFICES ASSUME Init
               PROVE  HeapInv
  OBVIOUS
<1>2. DOMAIN header = {} /\ live = <<>> /\ sh_heap = NULL /\ sh_heap_max = SH_HEAP_START
  BY <1>1 DEF Init
<1>3. SH_HEAP_START \in PageEnds
  <2>1. 0 \in 0 .. MaxPages /\ SH_HEAP_START = SH_HEAP_START + 0 * PAGE
    BY Numbers
  <2>2. QED
    BY <2>1 DEF PageEnds
<1>4. TypeOK
  BY <1>2, <1>3 DEF TypeOK, Links
<1>5. Tiled({})
  BY <1>2 DEF Tiled, Linked, ForwardLinks, BackwardLinks, Rows, Glued, Held, Mapped
<1>6. QED
  BY <1>4, <1>5 DEF HeapInv

\* A block is added in the chunk c.
LEMMA HeldMore ==
    ASSUME TypeOK, NEW C \in SUBSET Addresses, Tiled(C), NEW D \in SUBSET Addresses,
           NEW g, NEW c \in D, NEW n \in Sizes, c + HEADER \in Addresses,
           C \subseteq D, \A a \in D : a = c \/ a \in C, c \in C => ~ header[c].allocated,
           \A a \in C : a # c => /\ g[a].allocated = header[a].allocated
                                 /\ g[a].length = header[a].length,
           g[c].allocated,
           n + HEADER <= g[c].length, g[c].length <= n + 2 * HEADER
    PROVE  LET b == [addr |-> c + HEADER, size |-> n]
           IN  /\ Append(live, b) \in Seq([addr : Addresses, size : Sizes])
               /\ Held(g, D, Append(live, b))
<1> DEFINE b == [addr |-> c + HEADER, size |-> n]
           bs == Append(live, b)
           N == Len(live)
<1>1. N \in Nat /\ HEADER \in Nat /\ Addresses \subseteq Nat /\ c \in Nat
  BY LiveTyped, Numbers
<1>2. b \in [addr : Addresses, size : Sizes] /\ live \in Seq([addr : Addresses, size : Sizes])
  BY <1>1 DEF TypeOK
<1>3. /\ bs \in Seq([addr : Addresses, size : Sizes])
      /\ Len(bs) = N + 1
      /\ \A i \in 1 .. N : bs[i] = live[i]
      /\ bs[N + 1] = b
  BY <1>2, AppendProperties
<1>4. \A i \in 1 .. N :
         /\ live[i].addr - HEADER \in C
         /\ header[live[i].addr - HEADER].allocated
         /\ live[i].size + HEADER <= header[live[i].addr - HEADER].length
         /\ header[live[i].addr - HEADER].length <= live[i].size + 2 * HEADER
  BY DEF Tiled, Held
<1>5. \A i \in 1 .. N : live[i].addr - HEADER # c
  BY <1>4
<1>6. \A i \in 1 .. N : live[i].addr \in Nat /\ live[i].addr # b.addr
  BY <1>1, <1>5, LiveTyped
<1> HIDE DEF bs
<1>7. ASSUME NEW i \in 1 .. Len(bs)
      PROVE  /\ bs[i].addr - HEADER \in D
             /\ g[bs[i].addr - HEADER].allocated
             /\ bs[i].size + HEADER <= g[bs[i].addr - HEADER].length
             /\ g[bs[i].addr - HEADER].length <= bs[i].size + 2 * HEADER
  <2>1. CASE i \in 1 .. N
    <3>1. bs[i] = live[i] /\ live[i].addr - HEADER \in C /\ live[i].addr - HEADER # c
      BY <1>3, <1>4, <1>5, <2>1
    <3>2. QED
      BY <1>4, <2>1, <3>1
  <2>2. CASE i = N + 1
    <3>1. bs[i].addr - HEADER = c /\ bs[i].size = n
      BY <1>1, <1>3, <2>2
    <3>2. QED
      BY <3>1
  <2>3. QED
    BY <1>1, <1>3, <2>1, <2>2
<1>8. ASSUME NEW i \in 1 .. Len(bs), NEW j \in 1 .. Len(bs), bs[i].addr = bs[j].addr
      PROVE  i = j
  <2>1. \A k, m \in 1 .. N : live[k].addr = live[m].addr => k = m
    BY DEF Tiled, Held
  <2>2. i \in 1 .. N \/ i = N + 1
    BY <1>1, <1>3
  <2>3. j \in 1 .. N \/ j = N + 1
    BY <1>1, <1>3
  <2>4. QED
    BY <1>3, <1>6, <1>8, <2>1, <2>2, <2>3, SMTT(60)
<1>9. ASSUME NEW a \in D, g[a].allocated
      PROVE  \E i \in 1 .. Len(bs) : bs[i].addr = a + HEADER
  <2>1. CASE a = c
    <3>1. N + 1 \in 1 .. Len(bs) /\ bs[N + 1].addr = a + HEADER
      BY <1>1, <1>3, <2>1
    <3>2. QED
      BY <3>1
  <2>2. CASE a # c
    <3>1. a \in C /\ header[a].allocated
      BY <1>9, <2>2
    <3>2. PICK i \in 1 .. N : live[i].addr = a + HEADER
      BY <3>1 DEF Tiled, Held
    <3>3. i \in 1 .. Len(bs) /\ bs[i] = live[i]
      BY <1>1, <1>3
    <3>4. QED
      BY <3>2, <3>3
  <2>3. QED
    BY <2>1, <2>2
<1>10. Held(g, D, bs)
  BY <1>7, <1>8, <1>9 DEF Held
<1>11. QED
  BY <1>3, <1>10 DEF bs

LEMMA ReuseStep ==
    ASSUME HeapInv, NEW n \in Sizes, Reuse(n),
           ~ Splits(header, FirstFit(n + HEADER), n + HEADER)
    PROVE  HeapInv'
<1> DEFINE l == n + HEADER
           c == FirstFit(l)
<1>1. TypeOK /\ Typed(header)
  BY LiveTyped DEF HeapInv
<1>2. PICK C \in SUBSET Addresses : Tiled(C)
  BY DEF HeapInv
<1>3. c \in C /\ ~ header[c].allocated /\ header[c].length >= l
  BY <1>1, <1>2, FirstFitFits DEF Reuse
<1>4. /\ header' = [header EXCEPT ![c].allocated = TRUE]
      /\ live' = Append(live, [addr |-> c + HEADER, size |-> n])
      /\ sh_heap' = sh_heap
      /\ sh_heap_max' = sh_heap_max
  BY DEF Reuse, Split, Hand
<1>5. header[c].length - l <= HEADER /\ header[c].length \in Nat /\ n \in Nat /\ HEADER \in Nat
  <2>1. header[c].length \in Nat /\ n \in Nat /\ HEADER \in Nat
    BY <1>1, <1>2, <1>3, HeaderTyped, HeapAssumption, Numbers DEF Tiled, Linked
  <2>2. ~ (header[c].length - l > HEADER)
    BY DEF Splits
  <2>3. QED
    BY <2>1, <2>2
<1> HIDE DEF c
<1>6. c \in DOMAIN header /\ C \subseteq DOMAIN header
  BY <1>2, <1>3 DEF Tiled, Linked
<1>7. /\ Typed(header')
      /\ DOMAIN header' = DOMAIN header
      /\ \A a \in DOMAIN header :
            /\ header'[a].next = header[a].next
            /\ header'[a].prev = header[a].prev
            /\ header'[a].length = header[a].length
            /\ header'[a].allocated = IF a = c THEN TRUE ELSE header[a].allocated
  <2> DEFINE g == [header EXCEPT ![c].allocated = TRUE]
  <2>1. /\ Typed(g)
        /\ DOMAIN g = DOMAIN header
        /\ \A a \in DOMAIN header :
              /\ g[a].next = header[a].next
              /\ g[a].prev = header[a].prev
              /\ g[a].length = header[a].length
              /\ g[a].allocated = IF a = c THEN TRUE ELSE header[a].allocated
    BY <1>1, <1>6, AllocatedSet
  <2>2. header' = g
    BY <1>4
  <2> HIDE DEF g
  <2>3. QED
    BY <2>1, <2>2
<1>8. Linked(header', C)
  BY <1>2, <1>6, <1>7, LinksKept, ZenonT(60) DEF Tiled
<1>9. Glued(header', C)
  <2>1. ASSUME NEW a \in C
        PROVE  \/ header'[a].allocated
               \/ header'[a].next # NULL /\ header'[header'[a].next].allocated
    <3>1. \/ header[a].allocated
          \/ header[a].next # NULL /\ header[header[a].next].allocated
      BY <1>2 DEF Tiled, Glued
    <3>2. header[a].next # NULL => header[a].next \in C
      BY <1>2 DEF Tiled, Linked, ForwardLinks
    <3>3. QED
      BY <1>6, <1>7, <3>1, <3>2
  <2>2. QED
    BY <2>1 DEF Glued
<1>10. c + HEADER \in Addresses
  <2>1. c + header[c].length \in Addresses
    BY <1>1, <1>2, <1>3, ChunkEnds
  <2>2. c \in Nat /\ HeapLimit \in Nat /\ SH_HEAP_START \in Nat /\ SH_HEAP_START <= c
    BY <1>3, Numbers DEF Addresses
  <2>3. QED
    BY <1>3, <1>5, <2>1, <2>2 DEF Addresses
<1>11. /\ live' \in Seq([addr : Addresses, size : Sizes])
       /\ Held(header', C, live')
  <2>1. \A a \in C : a = c \/ a \in C
    OBVIOUS
  <2>2. \A a \in C : a # c => /\ header'[a].allocated = header[a].allocated
                              /\ header'[a].length = header[a].length
    BY <1>6, <1>7
  <2>3. header'[c].allocated /\ header'[c].length = header[c].length
    BY <1>6, <1>7
  <2>4. n + HEADER <= header'[c].length /\ header'[c].length <= n + 2 * HEADER
    BY <1>3, <1>5, <2>3
  <2> DEFINE g == header'
  <2> HIDE DEF g
  <2>5. /\ c \in C => ~ header[c].allocated
        /\ \A a \in C : a # c => /\ g[a].allocated = header[a].allocated
                                /\ g[a].length = header[a].length
        /\ g[c].allocated
        /\ n + HEADER <= g[c].length /\ g[c].length <= n + 2 * HEADER
    BY <1>3, <2>2, <2>3, <2>4 DEF g
  <2>6. /\ Append(live, [addr |-> c + HEADER, size |-> n])
              \in Seq([addr : Addresses, size : Sizes])
        /\ Held(g, C, Append(live, [addr |-> c + HEADER, size |-> n]))
    BY <1>1, <1>2, <1>3, <1>10, <2>1, <2>5, HeldMore
  <2>7. QED
    BY <1>4, <2>6 DEF g
<1>12. Mapped(header', C, sh_heap_max')
  BY <1>2, <1>4, <1>6, <1>7 DEF Tiled, Mapped
<1>13. Tiled(C)'
  BY <1>2, <1>4, <1>8, <1>9, <1>11, <1>12 DEF Tiled
<1>14. TypeOK'
  BY <1>1, <1>4, <1>7, <1>11 DEF TypeOK, Typed
<1>15. QED
  BY <1>13, <1>14 DEF HeapInv

LEMMA ExtendStep ==
    ASSUME HeapInv, NEW n \in Sizes, Extend(n)
    PROVE  HeapInv'
<1> DEFINE l == n + HEADER
           t == Tailmost
           start == IF t = NULL THEN SH_HEAP_START ELSE t + header[t].length
           rec == [next |-> NULL, prev |-> t, allocated |-> TRUE, length |-> l]
           g == WithHeader(header, start, rec)
<1>1. TypeOK /\ Typed(header)
  BY LiveTyped DEF HeapInv
<1>2. PICK C \in SUBSET Addresses : Tiled(C)
  BY DEF HeapInv
<1> DEFINE D == C \cup {start}
<1>3. /\ C = {} => t = NULL
      /\ C # {} => t \in C /\ t # NULL /\ header[t].next = NULL
  BY <1>1, <1>2, TailmostIsLast
<1>4. /\ start + l <= HeapLimit
      /\ sh_heap' = IF t = NULL THEN start ELSE sh_heap
      /\ sh_heap_max' = Grown(start + l)
      /\ header' = SetNext(g, t, start)
      /\ live' = Append(live, [addr |-> start + HEADER, size |-> n])
  BY DEF Extend, Hand
<1>5. Linked(header, C) /\ NULL \notin Addresses
  BY <1>2, Numbers DEF Tiled
<1>6. /\ n \in Nat /\ HEADER \in Nat \ {0} /\ SH_HEAP_START \in Nat /\ HeapLimit \in Nat
      /\ PAGE \in Nat \ {0}
      /\ l \in Nat /\ l >= HEADER /\ l > 0
  BY HeapAssumption, Numbers
<1>7. /\ C \subseteq Nat
      /\ \A c \in C : /\ SH_HEAP_START <= c
                      /\ header[c].length \in Nat
                      /\ header[c].length >= HEADER
                      /\ header[c].next \in C \cup {NULL}
                      /\ header[c].prev \in C \cup {NULL}
  BY <1>1, <1>5, ChunkNumbers
<1>8. start \in Addresses /\ start \in Nat /\ start + l \in Addresses /\ start + HEADER \in Addresses
  <2>1. start \in Nat /\ SH_HEAP_START <= start
    <3>1. CASE C = {}
      BY <1>3, <1>6, <3>1
    <3>2. CASE C # {}
      <4>1. t \in C /\ start = t + header[t].length
        BY <1>3, <3>2
      <4>2. t \in Nat /\ SH_HEAP_START <= t /\ header[t].length \in Nat
        BY <1>7, <4>1
      <4> HIDE DEF start, t
      <4>3. QED
        BY <1>6, <4>1, <4>2
    <3>3. QED
      BY <3>1, <3>2
  <2> HIDE DEF start
  <2>2. QED
    BY <1>4, <1>6, <2>1 DEF Addresses
<1>9. \A c \in C : c + header[c].length <= start
  <2>1. ASSUME NEW c \in C
        PROVE  c + header[c].length <= start
    <3>1. t \in C /\ start = t + header[t].length /\ c <= t
      BY <1>3, <1>5 DEF Linked, ForwardLinks
    <3>2. c < t => c + header[c].length <= t
      BY <1>5, <3>1 DEF Linked, Rows
    <3>3. c \in Nat /\ t \in Nat /\ header[c].length \in Nat /\ header[t].length \in Nat
      BY <1>7, <3>1
    <3>4. QED
      <4> HIDE DEF t, start
      <4>1. QED
        BY <3>1, <3>2, <3>3
  <2>2. QED
    BY <2>1
<1>10. \A c \in C : c < start /\ c # start
  <2>1. ASSUME NEW c \in C
        PROVE  c < start
    <3>1. c \in Nat /\ header[c].length \in Nat /\ header[c].length >= HEADER
      BY <1>7
    <3>2. c + header[c].length <= start
      BY <1>9
    <3> HIDE DEF start
    <3>3. QED
      BY <1>6, <1>8, <3>1, <3>2
  <2>2. QED
    BY <1>7, <1>8, <2>1
<1>11. C = {} => start = SH_HEAP_START
  BY <1>3
<1>12. C # {} => start = t + header[t].length
  BY <1>3
<1>13. t \in Links /\ start \in Links
  BY <1>3, <1>8 DEF Links
<1>14. /\ DOMAIN g = DOMAIN header \cup {start}
       /\ g[start] = rec
       /\ \A a \in DOMAIN header : a # start => g[a] = header[a]
  BY DEF WithHeader
<1>15. rec \in Headers /\ Typed(g)
  <2>1. rec \in Headers
    BY <1>6, <1>13 DEF Headers, Links
  <2> HIDE DEF g, start, rec
  <2>2. QED
    BY <1>1, <1>8, <1>14, <2>1 DEF Typed
<1>16. rec.next = NULL /\ rec.prev = t /\ rec.allocated /\ rec.length = l
  OBVIOUS
<1> HIDE DEF t, start, rec, g, l
<1>17. t \in DOMAIN g \cup {NULL} /\ C \subseteq DOMAIN header
  BY <1>3, <1>5, <1>14 DEF Linked
<1>18. /\ Typed(header')
       /\ DOMAIN header' = DOMAIN g
       /\ \A a \in DOMAIN g :
             /\ header'[a].next = IF a = t THEN start ELSE g[a].next
             /\ header'[a].prev = g[a].prev
             /\ header'[a].length = g[a].length
             /\ header'[a].allocated = g[a].allocated
  <2> DEFINE k == SetNext(g, t, start)
  <2>1. /\ Typed(k)
        /\ DOMAIN k = DOMAIN g
        /\ \A a \in DOMAIN g :
              /\ k[a].next = IF a = t THEN start ELSE g[a].next
              /\ k[a].prev = g[a].prev
              /\ k[a].length = g[a].length
              /\ k[a].allocated = g[a].allocated
    BY <1>13, <1>15, <1>17, NextSet, ZenonT(60)
  <2>2. header' = k
    BY <1>4
  <2> HIDE DEF k
  <2>3. QED
    BY <2>1, <2>2
<1>19. t # start /\ start # NULL
  BY <1>3, <1>5, <1>8, <1>10
<1>20. /\ header'[start].next = NULL
       /\ header'[start].prev = t
       /\ header'[start].length = l
       /\ header'[start].allocated
       /\ \A a \in C : /\ header'[a].next = IF a = t THEN start ELSE header[a].next
                       /\ header'[a].prev = header[a].prev
                       /\ header'[a].length = header[a].length
                       /\ header'[a].allocated = header[a].allocated
  BY <1>10, <1>14, <1>16, <1>17, <1>18, <1>19
<1>21. ForwardLinks(header', D)
  <2>1. ASSUME NEW a \in D, header'[a].next = NULL, NEW d \in D
        PROVE  d <= a
    <3>1. CASE a = start
      BY <1>8, <1>10, <3>1
    <3>2. CASE a # start
      <4>1. a \in C /\ a # t /\ header[a].next = NULL /\ C # {}
        BY <1>19, <1>20, <2>1, <3>2
      <4>2. t \in C /\ t <= a /\ a <= t
        BY <1>3, <1>5, <4>1 DEF Linked, ForwardLinks
      <4>3. QED
        BY <1>7, <4>1, <4>2
    <3>3. QED
      BY <3>1, <3>2
  <2>2. ASSUME NEW a \in D, header'[a].next # NULL
        PROVE  /\ header'[a].next \in D
               /\ header'[a].next = a + header'[a].length
               /\ header'[header'[a].next].prev = a
    <3>1. a \in C
      BY <1>20, <2>2
    <3>2. CASE a = t
      BY <1>12, <1>20, <3>1, <3>2
    <3>3. CASE a # t
      <4>1. header'[a].next = header[a].next /\ header[a].next # NULL
        BY <1>20, <2>2, <3>1, <3>3
      <4>2. header[a].next \in C /\ header[a].next = a + header[a].length
            /\ header[header[a].next].prev = a
        BY <1>5, <3>1, <4>1 DEF Linked, ForwardLinks
      <4>3. QED
        BY <1>20, <3>1, <4>1, <4>2
    <3>4. QED
      BY <3>2, <3>3
  <2>3. \E e \in D : header'[e].next = NULL
    BY <1>20
  <2>4. QED
    BY <2>1, <2>2, <2>3 DEF ForwardLinks
<1>22. BackwardLinks(header', D)
  <2>1. ASSUME NEW a \in D
        PROVE  /\ header'[a].prev = NULL <=> a = SH_HEAP_START
               /\ header'[a].prev # NULL =>
                     header'[a].prev \in D /\ header'[header'[a].prev].next = a
    <3>1. CASE a = start
      <4>1. header'[a].prev = t
        BY <1>20, <3>1
      <4>2. C = {} => t = NULL /\ a = SH_HEAP_START
        BY <1>3, <1>11, <3>1
      <4>3. C # {} => t \in C /\ t # NULL /\ header'[t].next = a
        BY <1>3, <1>20, <3>1
      <4>4. C # {} => a # SH_HEAP_START
        BY <1>5, <1>10, <3>1 DEF Linked
      <4>5. QED
        BY <4>1, <4>2, <4>3, <4>4
    <3>2. CASE a # start
      <4>1. a \in C /\ header'[a].prev = header[a].prev
        BY <1>20, <3>2
      <4>2. /\ header[a].prev = NULL <=> a = SH_HEAP_START
            /\ header[a].prev # NULL =>
                  header[a].prev \in C /\ header[header[a].prev].next = a
        BY <1>5, <4>1 DEF Linked, BackwardLinks
      <4>3. ASSUME header[a].prev # NULL
            PROVE  header[a].prev \in D /\ header'[header[a].prev].next = a
        <5>1. header[a].prev \in C /\ header[header[a].prev].next = a
          BY <4>2, <4>3
        <5>2. header[a].prev # t
          BY <1>3, <1>5, <4>1, <5>1
        <5>3. QED
          BY <1>20, <5>1, <5>2
      <4>4. QED
        BY <4>1, <4>2, <4>3
    <3>3. QED
      BY <3>1, <3>2
  <2>2. QED
    BY <2>1 DEF BackwardLinks
<1>23. Rows(header', D)
  <2>1. ASSUME NEW a \in D
        PROVE  header'[a].length >= HEADER
    BY <1>6, <1>7, <1>20 DEF l
  <2>2. ASSUME NEW a \in D, NEW d \in D, a < d
        PROVE  a + header'[a].length <= d
    <3>1. a \in C
      <4>1. CASE a = start
        <5>1. d \in Nat /\ d <= start
          BY <1>7, <1>8, <1>10
        <5>2. QED
          BY <1>8, <2>2, <4>1, <5>1
      <4>2. QED
        BY <4>1
    <3>2. CASE d = start
      BY <1>9, <1>20, <3>1, <3>2
    <3>3. CASE d # start
      BY <1>5, <1>20, <2>2, <3>1, <3>3 DEF Linked, Rows
    <3>4. QED
      BY <3>2, <3>3
  <2>3. QED
    BY <2>1, <2>2 DEF Rows
<1>24. Linked(header', D)
  <2>1. D \subseteq DOMAIN header'
    BY <1>14, <1>17, <1>18
  <2>2. SH_HEAP_START \in D
    BY <1>5, <1>11 DEF Linked
  <2>3. QED
    BY <1>21, <1>22, <1>23, <2>1, <2>2 DEF Linked
<1>25. Glued(header', D)
  <2>1. ASSUME NEW a \in D
        PROVE  \/ header'[a].allocated
               \/ header'[a].next # NULL /\ header'[header'[a].next].allocated
    <3>1. CASE a = start
      BY <1>20, <3>1
    <3>2. CASE a = t /\ a \in C
      BY <1>19, <1>20, <3>2
    <3>3. CASE a # t /\ a \in C
      <4>1. \/ header[a].allocated
            \/ header[a].next # NULL /\ header[header[a].next].allocated
        BY <1>2, <3>3 DEF Tiled, Glued
      <4>2. header[a].next # NULL => header[a].next \in C
        BY <1>7, <3>3
      <4>3. QED
        BY <1>20, <3>3, <4>1, <4>2
    <3>4. QED
      BY <3>1, <3>2, <3>3
  <2>2. QED
    BY <2>1 DEF Glued
<1>26. /\ live' \in Seq([addr : Addresses, size : Sizes])
       /\ Held(header', D, live')
  <2>1. D \in SUBSET Addresses /\ start \in D
    BY <1>8
  <2>2. start \notin C
    BY <1>10
  <2>3. n + HEADER <= header'[start].length /\ header'[start].length <= n + 2 * HEADER
    BY <1>6, <1>20 DEF l
  <2> DEFINE k == header'
  <2> HIDE DEF k
  <2>4. /\ C \subseteq D
        /\ \A a \in D : a = start \/ a \in C
        /\ start \in C => ~ header[start].allocated
        /\ \A a \in C : a # start => /\ k[a].allocated = header[a].allocated
                                    /\ k[a].length = header[a].length
        /\ k[start].allocated
        /\ n + HEADER <= k[start].length /\ k[start].length <= n + 2 * HEADER
    BY <1>20, <2>2, <2>3 DEF k
  <2> HIDE DEF D
  <2>5. /\ Append(live, [addr |-> start + HEADER, size |-> n])
              \in Seq([addr : Addresses, size : Sizes])
        /\ Held(k, D, Append(live, [addr |-> start + HEADER, size |-> n]))
    BY <1>1, <1>2, <1>8, <2>1, <2>4, HeldMore
  <2>6. QED
    BY <1>4, <2>5 DEF k
<1>27. \A a \in D : header'[a].next = NULL => a = start
  <2>1. ASSUME NEW a \in C, header'[a].next = NULL
        PROVE  FALSE
    <3>1. start \in D /\ start <= a
      BY <1>21, <2>1 DEF ForwardLinks
    <3>2. QED
      BY <1>7, <1>8, <1>10, <3>1
  <2>2. QED
    BY <2>1
<1>28. sh_heap_max' \in PageEnds /\ Mapped(header', D, sh_heap_max')
  <2>1. sh_heap_max \in PageEnds /\ sh_heap_max \in Nat
    BY <1>1, PageEndsApart DEF TypeOK
  <2>2. CASE start + l > sh_heap_max
    <3>1. sh_heap_max' = RoundUp(start + l)
      BY <1>4, <2>2 DEF Grown
    <3>2. /\ sh_heap_max' \in PageEnds
          /\ start + l <= sh_heap_max' /\ sh_heap_max' < start + l + PAGE
      BY <1>8, <3>1, RoundUpIsNear
    <3>3. QED
      BY <1>20, <1>27, <3>2 DEF Mapped
  <2>3. CASE ~ (start + l > sh_heap_max)
    <3>1. sh_heap_max' = sh_heap_max
      BY <1>4, <2>3 DEF Grown
    <3>2. start + l <= sh_heap_max
      BY <1>6, <1>8, <2>1, <2>3
    <3>3. sh_heap_max < start + PAGE
      <4>1. CASE C = {}
        BY <1>2, <1>6, <1>11, <4>1 DEF Tiled, Mapped
      <4>2. CASE C # {}
        BY <1>2, <1>3, <1>12, <4>2 DEF Tiled, Mapped
      <4>3. QED
        BY <4>1, <4>2
    <3>4. sh_heap_max < start + l + PAGE
      BY <1>6, <1>8, <2>1, <3>3
    <3>5. QED
      BY <1>20, <1>27, <2>1, <3>1, <3>2, <3>4 DEF Mapped
  <2>4. QED
    BY <2>2, <2>3
<1>29. sh_heap' = IF D = {} THEN NULL ELSE SH_HEAP_START
  BY <1>2, <1>3, <1>4, <1>11 DEF Tiled
<1>30. PICK E \in SUBSET Addresses : E = D
  BY <1>8
<1>31. TypeOK'
  BY <1>8, <1>18, <1>26, <1>28, <1>29, Numbers DEF TypeOK, Typed, Links, Addresses
<1> HIDE DEF D
<1>32. Tiled(E)'
  BY <1>24, <1>25, <1>26, <1>28, <1>29, <1>30 DEF Tiled
<1>33. QED
  BY <1>31, <1>32 DEF HeapInv

-----------------------------------------------------------------------------
(***************************************************************************)
(* kfree(): the block i is given back, and its chunk is glued to the free  *)
(* chunks beside it.                                                       *)
(***************************************************************************)
LEMMA RemovedAt ==
    ASSUME NEW S, NEW s \in Seq(S), NEW i \in 1 .. Len(s)
    PROVE  /\ RemoveAt(s, i) \in Seq(S)
           /\ Len(RemoveAt(s, i)) = Len(s) - 1
           /\ \A j \in 1 .. (Len(s) - 1) :
                 RemoveAt(s, i)[j] = IF j < i THEN s[j] ELSE s[j + 1]
<1> DEFINE u == SubSeq(s, 1, i - 1)
           v == SubSeq(s, i + 1, Len(s))
           N == Len(s)
<1>1. N \in Nat /\ i \in Nat /\ i >= 1 /\ i <= N /\ \A j \in 1 .. N : s[j] \in S
  BY LenProperties, ElementOfSeq
<1> HIDE DEF N
<1>2. /\ u \in Seq(S)
      /\ Len(u) = i - 1
      /\ \A j \in 1 .. (i - 1) : u[j] = s[j]
  <2>1. 1 \in Int /\ i - 1 \in Int /\ \A j \in 1 .. (i - 1) : s[j] \in S
    BY <1>1
  <2>2. /\ u \in Seq(S)
        /\ Len(u) = IF 1 <= i - 1 THEN (i - 1) - 1 + 1 ELSE 0
        /\ \A j \in 1 .. (i - 1) - 1 + 1 : u[j] = s[1 + j - 1]
    BY <2>1, SubSeqProperties
  <2> HIDE DEF u
  <2>3. QED
    BY <1>1, <2>2
<1>3. /\ v \in Seq(S)
      /\ Len(v) = N - i
      /\ \A j \in 1 .. (N - i) : v[j] = s[j + i]
  <2>1. i + 1 \in Int /\ Len(s) \in Int /\ \A j \in (i + 1) .. Len(s) : s[j] \in S
    BY <1>1 DEF N
  <2>2. /\ v \in Seq(S)
        /\ Len(v) = IF i + 1 <= Len(s) THEN Len(s) - (i + 1) + 1 ELSE 0
        /\ \A j \in 1 .. Len(s) - (i + 1) + 1 : v[j] = s[(i + 1) + j - 1]
    BY <2>1, SubSeqProperties
  <2> HIDE DEF v
  <2>3. \A j \in 1 .. (N - i) : j \in 1 .. N - (i + 1) + 1 /\ (i + 1) + j - 1 = j + i
    BY <1>1
  <2>4. QED
    BY <1>1, <2>2, <2>3 DEF N
<1>4. RemoveAt(s, i) = u \o v
  BY DEF RemoveAt
<1> HIDE DEF u, v
<1>5. /\ u \o v \in Seq(S)
      /\ Len(u \o v) = Len(u) + Len(v)
      /\ \A j \in 1 .. Len(u) + Len(v) :
            (u \o v)[j] = IF j <= Len(u) THEN u[j] ELSE v[j - Len(u)]
  BY <1>2, <1>3, ConcatProperties
<1>6. Len(u) + Len(v) = N - 1
  BY <1>1, <1>2, <1>3
<1>7. ASSUME NEW j \in 1 .. (N - 1)
      PROVE  (u \o v)[j] = IF j < i THEN s[j] ELSE s[j + 1]
  <2>1. (u \o v)[j] = IF j <= i - 1 THEN u[j] ELSE v[j - (i - 1)]
    BY <1>2, <1>5, <1>6
  <2>2. CASE j < i
    <3>1. j <= i - 1 /\ j \in 1 .. (i - 1)
      BY <1>1, <2>2
    <3>2. QED
      BY <1>2, <2>1, <2>2, <3>1
  <2>3. CASE ~ (j < i)
    <3>1. ~ (j <= i - 1) /\ j - (i - 1) \in 1 .. (N - i) /\ (j - (i - 1)) + i = j + 1
      BY <1>1, <2>3
    <3>2. v[j - (i - 1)] = s[j + 1]
      BY <1>3, <3>1
    <3>3. QED
      BY <2>1, <2>3, <3>1, <3>2
  <2>4. QED
    BY <2>2, <2>3
<1>8. QED
  BY <1>4, <1>5, <1>6, <1>7 DEF N

\* The block i is no longer held when its chunk is marked free.
LEMMA HeldLess ==
    ASSUME NEW S, NEW bs \in Seq(S), NEW C, NEW h, NEW g, Held(h, C, bs),
           NEW i \in 1 .. Len(bs), NEW c \in C, c = bs[i].addr - HEADER,
           C \subseteq Int, HEADER \in Int, \A j \in 1 .. Len(bs) : bs[j].addr \in Int,
           \A a \in C : a # c => /\ g[a].allocated = h[a].allocated
                                 /\ g[a].length = h[a].length,
           ~ g[c].allocated
    PROVE  Held(g, C, RemoveAt(bs, i))
<1> DEFINE rs == RemoveAt(bs, i)
           N == Len(bs)
           from(j) == IF j < i THEN j ELSE j + 1
<1>1. N \in Nat /\ i \in Nat /\ 1 <= i /\ i <= N
  BY LenProperties
<1>2. /\ Len(rs) = N - 1
      /\ \A j \in 1 .. (N - 1) : rs[j] = IF j < i THEN bs[j] ELSE bs[j + 1]
  BY RemovedAt
<1> HIDE DEF rs
<1>3. \A j \in 1 .. Len(rs) : from(j) \in 1 .. N /\ from(j) # i /\ rs[j] = bs[from(j)]
  BY <1>1, <1>2
<1>4. \A k \in 1 .. N : k # i => \E j \in 1 .. Len(rs) : from(j) = k
  <2>1. ASSUME NEW k \in 1 .. N, k # i
        PROVE  \E j \in 1 .. Len(rs) : from(j) = k
    <3>1. CASE k < i
      <4>1. k \in 1 .. Len(rs) /\ from(k) = k
        BY <1>1, <1>2, <3>1
      <4>2. QED
        BY <4>1
    <3>2. CASE k > i
      <4>1. k - 1 \in 1 .. Len(rs) /\ from(k - 1) = k
        BY <1>1, <1>2, <3>2
      <4>2. QED
        BY <4>1
    <3>3. QED
      BY <1>1, <2>1, <3>1, <3>2
  <2>2. QED
    BY <2>1
<1>5. \A j, k \in 1 .. Len(rs) : from(j) = from(k) => j = k
  BY <1>1, <1>2
<1> HIDE DEF N, from
<1>6. \A k \in 1 .. N :
         /\ bs[k].addr - HEADER \in C
         /\ h[bs[k].addr - HEADER].allocated
         /\ bs[k].size + HEADER <= h[bs[k].addr - HEADER].length
         /\ h[bs[k].addr - HEADER].length <= bs[k].size + 2 * HEADER
  BY DEF Held, N
<1>7. \A k, m \in 1 .. N : bs[k].addr = bs[m].addr => k = m
  BY DEF Held, N
<1>8. ASSUME NEW k \in 1 .. N, k # i
      PROVE  bs[k].addr - HEADER # c
  <2>1. bs[k].addr \in Int /\ bs[i].addr \in Int /\ bs[k].addr # bs[i].addr
    BY <1>7, <1>8 DEF N
  <2>2. QED
    BY <2>1, SMTT(60)
<1>9. ASSUME NEW j \in 1 .. Len(rs)
      PROVE  /\ rs[j].addr - HEADER \in C
             /\ g[rs[j].addr - HEADER].allocated
             /\ rs[j].size + HEADER <= g[rs[j].addr - HEADER].length
             /\ g[rs[j].addr - HEADER].length <= rs[j].size + 2 * HEADER
  <2>1. PICK k \in 1 .. N : k # i /\ rs[j] = bs[k]
    BY <1>3
  <2>2. bs[k].addr - HEADER \in C /\ bs[k].addr - HEADER # c
    BY <1>6, <1>8, <2>1
  <2>3. /\ g[bs[k].addr - HEADER].allocated = h[bs[k].addr - HEADER].allocated
        /\ g[bs[k].addr - HEADER].length = h[bs[k].addr - HEADER].length
    BY <2>2
  <2>4. QED
    BY <1>6, <2>1, <2>2, <2>3
<1>10. ASSUME NEW j \in 1 .. Len(rs), NEW k \in 1 .. Len(rs), rs[j].addr = rs[k].addr
       PROVE  j = k
  BY <1>3, <1>5, <1>7, <1>10, SMTT(60)
<1>11. ASSUME NEW a \in C, g[a].allocated
       PROVE  \E j \in 1 .. Len(rs) : rs[j].addr = a + HEADER
  <2>1. a # c /\ h[a].allocated
    BY <1>11
  <2>2. PICK k \in 1 .. N : bs[k].addr = a + HEADER
    BY <2>1 DEF Held, N
  <2>3. k # i
    <3>1. bs[i].addr \in Int /\ a \in Int /\ c = bs[i].addr - HEADER
      OBVIOUS
    <3>2. QED
      BY <2>1, <2>2, <3>1
  <2>4. PICK j \in 1 .. Len(rs) : from(j) = k
    BY <1>4, <2>3
  <2>5. QED
    BY <1>3, <2>2, <2>4
<1>12. QED
  BY <1>9, <1>10, <1>11 DEF Held, rs

\* While kfree() glues: the chunk c is free, and free chunks are apart but for
\* c and the chunk in front of it.
Freed(h, C, c, bs, max) ==
    /\ Typed(h)
    /\ Linked(h, C)
    /\ Held(h, C, bs)
    /\ Mapped(h, C, max)
    /\ c \in C
    /\ ~ h[c].allocated

NextInUse(h, a) == h[a].next # NULL /\ h[h[a].next].allocated

HalfGlued(h, C, c, bs, max) ==
    /\ Freed(h, C, c, bs, max)
    /\ \A a \in C : a # c => h[a].allocated \/ NextInUse(h, a) \/ h[a].next = c

GluedBehind(h, C, c, bs, max) ==
    /\ HalfGlued(h, C, c, bs, max)
    /\ h[c].next # NULL => NextInUse(h, c)

GluedAround(h, C, c, bs, max) ==
    /\ Freed(h, C, c, bs, max)
    /\ h[c].next # NULL => NextInUse(h, c)
    /\ \A a \in C : a # c => h[a].allocated \/ NextInUse(h, a)

LEMMA MergeNextKeeps ==
    ASSUME NEW C \in SUBSET Addresses, NEW h, NEW c, NEW bs, NEW max,
           HalfGlued(h, C, c, bs, max)
    PROVE  \E D \in SUBSET C : GluedBehind(MergeNext(h, c), D, c, bs, max)
<1> DEFINE n == h[c].next
           g == MergeNext(h, c)
<1>0. /\ Freed(h, C, c, bs, max)
      /\ \A a \in C : a # c => h[a].allocated \/ NextInUse(h, a) \/ h[a].next = c
  BY DEF HalfGlued
<1>1. Typed(h) /\ Linked(h, C) /\ c \in C /\ ~ h[c].allocated
  BY <1>0 DEF Freed
<1>2. CASE ~ Free(h, n)
  <2>1. g = h
    BY <1>2 DEF MergeNext
  <2>2. h[c].next # NULL => NextInUse(h, c)
    BY <1>2 DEF Free, NextInUse
  <2> HIDE DEF g
  <2>3. GluedBehind(g, C, c, bs, max)
    BY <2>1, <2>2 DEF GluedBehind
  <2>4. QED
    BY <2>3 DEF g
<1>3. CASE Free(h, n)
  <2> DEFINE D == C \ {n}
  <2>1. n # NULL /\ ~ h[n].allocated
    BY <1>3 DEF Free
  <2>2. n \in C /\ c < n
    BY <1>1, <2>1, NextIsBehind
  <2>3. g = Absorb(h, c, n)
    BY <1>3 DEF MergeNext, Absorb
  <2>4. /\ Typed(g)
        /\ Linked(g, D)
        /\ c \in D
        /\ Mapped(h, C, max) => Mapped(g, D, max)
        /\ g[c].next = h[n].next
        /\ \A a \in D : /\ g[a].allocated = h[a].allocated
                        /\ a # c => g[a].length = h[a].length /\ g[a].next = h[a].next
    <3>1. Absorbed(h, C, c, Absorb(h, c, n), D)
      BY <1>1, <2>1, AbsorbLinked
    <3> HIDE DEF g, D
    <3>2. QED
      BY <2>3, <3>1 DEF Absorbed
  <2> HIDE DEF g
  <2>5. \A a \in C : a \in D <=> a # n
    OBVIOUS
  <2>6. D \in SUBSET C
    OBVIOUS
  <2> HIDE DEF D
  <2>7. Held(g, D, bs)
    <3>1. \A a \in C : h[a].allocated => a \in D
      BY <2>1, <2>5
    <3>2. \A a \in D : /\ g[a].allocated = h[a].allocated
                       /\ h[a].allocated => g[a].length = h[a].length
      BY <1>1, <2>4
    <3>3. Held(h, C, bs) /\ D \subseteq C
      BY <1>0, <2>6 DEF Freed
    <3>4. QED
      BY <3>1, <3>2, <3>3, HeldKept
  <2>8. c \in Nat /\ n \in Nat /\ NULL \notin C
    BY <1>1, <2>2, ChunkNumbers
  <2>9. h[n].next # NULL =>
           h[n].next \in C /\ h[n].next # c /\ h[n].next # n
    <3>1. ASSUME h[n].next # NULL
          PROVE  h[n].next \in C /\ n < h[n].next
      BY <1>1, <2>2, <3>1, NextIsBehind
    <3>2. \A b \in Nat : n < b => b # c /\ b # n
      BY <2>2, <2>8
    <3>3. C \subseteq Nat
      BY Numbers
    <3>4. QED
      BY <3>1, <3>2, <3>3
  <2>10. g[c].next # NULL => NextInUse(g, c)
    <3>1. n # c
      BY <2>2, <2>8
    <3>2. NextInUse(h, n) \/ h[n].next = c
      BY <1>0, <2>1, <2>2, <3>1
    <3>3. ASSUME g[c].next # NULL
          PROVE  g[c].next \in D /\ h[g[c].next].allocated
      BY <2>4, <2>5, <2>8, <2>9, <3>2, <3>3 DEF NextInUse
    <3>4. QED
      BY <2>4, <3>3 DEF NextInUse
  <2>11. ASSUME NEW a \in D, a # c
         PROVE  g[a].allocated \/ NextInUse(g, a) \/ g[a].next = c
    <3>1. a \in C /\ a # n /\ g[a].next = h[a].next /\ g[a].allocated = h[a].allocated
      BY <2>4, <2>5, <2>6, <2>11
    <3>2. h[a].next # NULL => h[a].next \in C /\ h[h[a].next].prev = a
      BY <1>1, <3>1, NextIsBehind
    <3>3. h[n].prev = c
      BY <1>1, <2>1, NextIsBehind
    <3>4. h[a].next # NULL => h[a].next \in D
      BY <2>5, <2>11, <3>2, <3>3
    <3>5. h[a].allocated \/ NextInUse(h, a) \/ h[a].next = c
      BY <1>0, <2>11, <3>1
    <3>6. QED
      BY <2>4, <3>1, <3>4, <3>5 DEF NextInUse
  <2>12. Freed(g, D, c, bs, max)
    BY <1>0, <1>1, <2>4, <2>7 DEF Freed
  <2>13. GluedBehind(g, D, c, bs, max)
    BY <2>10, <2>11, <2>12 DEF GluedBehind, HalfGlued
  <2>14. QED
    BY <2>6, <2>13 DEF g
<1>4. QED
  BY <1>2, <1>3

LEMMA MergePrevKeeps ==
    ASSUME NEW C \in SUBSET Addresses, NEW h, NEW c, NEW bs, NEW max,
           GluedBehind(h, C, c, bs, max),
           NEW f, f = IF Free(h, h[c].prev) THEN h[c].prev ELSE c
    PROVE  \E D \in SUBSET C : GluedAround(MergePrev(h, c), D, f, bs, max)
<1> DEFINE p == h[c].prev
           g == MergePrev(h, c)
<1>0. /\ Freed(h, C, c, bs, max)
      /\ h[c].next # NULL => NextInUse(h, c)
      /\ \A a \in C : a # c => h[a].allocated \/ NextInUse(h, a) \/ h[a].next = c
  BY DEF GluedBehind, HalfGlued
<1>1. Typed(h) /\ Linked(h, C) /\ c \in C /\ ~ h[c].allocated
  BY <1>0 DEF Freed
<1>2. \A a \in C : h[a].next = c => a = p
  <2>1. ASSUME NEW a \in C, h[a].next = c
        PROVE  a = p
    <3>1. h[a].next # NULL
      BY <1>1, <2>1, ChunkNumbers
    <3>2. QED
      BY <1>1, <2>1, <3>1, NextIsBehind
  <2>2. QED
    BY <2>1
<1>3. CASE ~ Free(h, p)
  <2>1. g = h /\ f = c
    BY <1>3 DEF MergePrev
  <2>2. ASSUME NEW a \in C, a # c
        PROVE  h[a].allocated \/ NextInUse(h, a)
    <3>1. h[a].next = c => h[a].allocated
      <4>1. h[a].next = c => a = p /\ a # NULL
        BY <1>1, <1>2, ChunkNumbers
      <4>2. QED
        BY <1>3, <4>1 DEF Free
    <3>2. QED
      BY <1>0, <2>2, <3>1
  <2> HIDE DEF g
  <2>3. GluedAround(g, C, f, bs, max)
    BY <1>0, <2>1, <2>2 DEF GluedAround
  <2>4. QED
    BY <2>3 DEF g
<1>4. CASE Free(h, p)
  <2> DEFINE D == C \ {c}
  <2>1. p # NULL /\ ~ h[p].allocated /\ f = p
    BY <1>4 DEF Free
  <2>2. p \in C /\ h[p].next = c
    BY <1>1, <2>1 DEF Linked, BackwardLinks
  <2>3. c # NULL
    BY <1>1, ChunkNumbers
  <2>4. g = Absorb(h, p, h[p].next)
    BY <1>4, <2>2 DEF MergePrev, Absorb
  <2>5. /\ Typed(g)
        /\ Linked(g, D)
        /\ p \in D
        /\ Mapped(h, C, max) => Mapped(g, D, max)
        /\ g[p].next = h[c].next
        /\ \A a \in D : /\ g[a].allocated = h[a].allocated
                        /\ a # p => g[a].length = h[a].length /\ g[a].next = h[a].next
    <3>1. Absorbed(h, C, p, Absorb(h, p, h[p].next), C \ {h[p].next})
      BY <1>1, <2>2, <2>3, AbsorbLinked
    <3>2. C \ {h[p].next} = D
      BY <2>2
    <3> HIDE DEF g, D
    <3>3. Absorbed(h, C, p, g, D)
      BY <2>4, <3>1, <3>2
    <3>4. QED
      BY <2>2, <3>3 DEF Absorbed
  <2> HIDE DEF g
  <2>6. /\ \A a \in C : a \in D <=> a # c
        /\ D \in SUBSET C
    OBVIOUS
  <2> HIDE DEF D
  <2>7. Held(g, D, bs)
    <3>1. \A a \in C : h[a].allocated => a \in D
      BY <1>1, <2>6
    <3>2. \A a \in D : /\ g[a].allocated = h[a].allocated
                       /\ h[a].allocated => g[a].length = h[a].length
      BY <2>1, <2>5
    <3>3. Held(h, C, bs) /\ D \subseteq C
      BY <1>0, <2>6 DEF Freed
    <3>4. QED
      BY <3>1, <3>2, <3>3, HeldKept
  <2>8. ASSUME g[p].next # NULL
        PROVE  NextInUse(g, p)
    <3>1. h[c].next # NULL /\ h[h[c].next].allocated
      BY <1>0, <2>5, <2>8 DEF NextInUse
    <3>2. h[c].next \in D
      <4>1. h[c].next \in C
        BY <1>1, <3>1, NextIsBehind
      <4>2. QED
        BY <1>1, <2>6, <3>1, <4>1
    <3>3. QED
      BY <2>5, <3>1, <3>2 DEF NextInUse
  <2>9. ASSUME NEW a \in D, a # p
        PROVE  g[a].allocated \/ NextInUse(g, a)
    <3>1. a \in C /\ a # c /\ g[a].next = h[a].next /\ g[a].allocated = h[a].allocated
      BY <2>5, <2>6, <2>9
    <3>2. h[a].allocated \/ NextInUse(h, a)
      BY <1>0, <1>2, <2>9, <3>1
    <3>3. NextInUse(h, a) => h[a].next \in D
      <4>1. ASSUME NextInUse(h, a)
            PROVE  h[a].next \in D
        <5>1. h[a].next # NULL /\ h[a].next # c
          BY <1>1, <4>1 DEF NextInUse
        <5>2. h[a].next \in C
          BY <1>1, <3>1, <5>1, NextIsBehind
        <5>3. QED
          BY <2>6, <5>1, <5>2
      <4>2. QED
        BY <4>1
    <3>4. QED
      BY <2>5, <3>1, <3>2, <3>3 DEF NextInUse
  <2>10. Freed(g, D, f, bs, max)
    BY <1>0, <2>1, <2>5, <2>7 DEF Freed
  <2>11. GluedAround(g, D, f, bs, max)
    BY <2>1, <2>8, <2>9, <2>10 DEF GluedAround
  <2>12. QED
    BY <2>6, <2>11 DEF g
<1>5. QED
  BY <1>3, <1>4

LEMMA KFreeStep ==
    ASSUME HeapInv, NEW i \in 1 .. Len(live), KFree(i)
    PROVE  HeapInv'
<1> DEFINE c  == live[i].addr - HEADER
           bs == RemoveAt(live, i)
           h0 == [header EXCEPT ![c].allocated = FALSE]
           h1 == MergeNext(h0, c)
           h2 == MergePrev(h1, c)
           f  == IF Free(h1, h1[c].prev) THEN h1[c].prev ELSE c
           p  == h2[f].prev
<1>1. /\ TypeOK /\ Typed(header)
      /\ live \in Seq([addr : Addresses, size : Sizes])
      /\ HEADER \in Int
      /\ \A j \in 1 .. Len(live) : live[j].addr \in Int
  BY LiveTyped, Numbers DEF HeapInv, TypeOK
<1>2. PICK C \in SUBSET Addresses : Tiled(C)
  BY DEF HeapInv
<1>3. Linked(header, C) /\ Held(header, C, live) /\ Mapped(header, C, sh_heap_max)
      /\ Glued(header, C)
  BY <1>2 DEF Tiled
<1>4. c \in C /\ header[c].allocated /\ C \subseteq Int /\ C \subseteq DOMAIN header
      /\ NULL \notin C /\ NULL \notin Addresses
  <2>1. c \in C /\ header[c].allocated
    BY <1>3 DEF Held
  <2>2. Addresses \subseteq Nat /\ NULL \notin Addresses
    BY Numbers
  <2>3. C \subseteq DOMAIN header
    BY <1>3, SMTT(60) DEF Linked
  <2> HIDE DEF c
  <2>4. QED
    BY <2>1, <2>2, <2>3
<1>5. /\ live' = bs
      /\ h2[f].next # NULL =>
            /\ header' = h2
            /\ sh_heap' = sh_heap
            /\ sh_heap_max' = sh_heap_max
      /\ h2[f].next = NULL =>
            /\ header' = SetNext(h2, p, NULL)
            /\ sh_heap' = IF p = NULL THEN NULL ELSE sh_heap
            /\ sh_heap_max' = Shrunk(f)
  BY DEF KFree
<1>6. sh_heap = SH_HEAP_START
  BY <1>2, <1>4 DEF Tiled
<1>7. live' \in Seq([addr : Addresses, size : Sizes])
  BY <1>1, <1>5, RemovedAt
<1>8. HalfGlued(h0, C, c, bs, sh_heap_max)
  <2>1. /\ Typed(h0)
        /\ DOMAIN h0 = DOMAIN header
        /\ \A a \in DOMAIN header :
              /\ h0[a].next = header[a].next
              /\ h0[a].prev = header[a].prev
              /\ h0[a].length = header[a].length
              /\ h0[a].allocated = IF a = c THEN FALSE ELSE header[a].allocated
    BY <1>1, <1>4, AllocatedSet, ZenonT(60)
  <2> HIDE DEF h0
  <2>2. Linked(h0, C)
    <3>1. \A a \in C : /\ h0[a].next = header[a].next
                       /\ h0[a].prev = header[a].prev
                       /\ h0[a].length = header[a].length
      BY <1>4, <2>1
    <3>2. C \subseteq DOMAIN h0
      BY <1>4, <2>1
    <3>3. QED
      BY <1>3, <3>1, <3>2, LinksKept
  <2>3. Held(h0, C, bs)
    <3>1. \A a \in C : a # c => /\ h0[a].allocated = header[a].allocated
                                /\ h0[a].length = header[a].length
      BY <1>4, <2>1
    <3>2. ~ h0[c].allocated
      BY <1>4, <2>1
    <3>3. QED
      BY <1>1, <1>3, <1>4, <3>1, <3>2, HeldLess
  <2>4. Mapped(h0, C, sh_heap_max)
    BY <1>3, <1>4, <2>1 DEF Mapped
  <2> HIDE DEF c, bs
  <2>5. ASSUME NEW a \in C, a # c
        PROVE  h0[a].allocated \/ NextInUse(h0, a) \/ h0[a].next = c
    <3>1. \/ header[a].allocated
          \/ header[a].next # NULL /\ header[header[a].next].allocated
      BY <1>3 DEF Glued
    <3>2. header[a].next # NULL => header[a].next \in C
      BY <1>3 DEF Linked, ForwardLinks
    <3>3. QED
      BY <1>4, <2>1, <2>5, <3>1, <3>2 DEF NextInUse
  <2>6. QED
    BY <1>4, <2>1, <2>2, <2>3, <2>4, <2>5 DEF Freed, HalfGlued
<1> HIDE DEF c, bs, h0
<1>9. PICK C1 \in SUBSET C : GluedBehind(h1, C1, c, bs, sh_heap_max)
  BY <1>8, MergeNextKeeps
<1> HIDE DEF h1
<1>10. PICK D \in SUBSET C1 : GluedAround(h2, D, f, bs, sh_heap_max)
  <2>1. C1 \in SUBSET Addresses
    BY <1>9
  <2> HIDE DEF f
  <2>2. f = IF Free(h1, h1[c].prev) THEN h1[c].prev ELSE c
    BY DEF f
  <2>3. QED
    BY <1>9, <2>1, <2>2, MergePrevKeeps
<1> HIDE DEF h2, f
<1>11. D \in SUBSET Addresses /\ NULL \notin D
  BY <1>4, <1>9, <1>10
<1>12. /\ Typed(h2) /\ Linked(h2, D) /\ Held(h2, D, bs) /\ Mapped(h2, D, sh_heap_max)
       /\ f \in D /\ ~ h2[f].allocated
  BY <1>10 DEF GluedAround, Freed
<1>13. CASE h2[f].next # NULL
  <2>1. header' = h2 /\ sh_heap' = sh_heap /\ sh_heap_max' = sh_heap_max /\ live' = bs
    BY <1>5, <1>13
  <2>2. Glued(h2, D)
    BY <1>10, <1>13 DEF GluedAround, Glued, NextInUse
  <2>3. Tiled(D)'
    BY <1>6, <1>12, <2>1, <2>2 DEF Tiled
  <2>4. TypeOK'
    BY <1>1, <1>7, <1>12, <2>1 DEF TypeOK, Typed
  <2>5. QED
    BY <1>11, <2>3, <2>4 DEF HeapInv
<1>14. CASE h2[f].next = NULL
  <2> DEFINE g == SetNext(h2, p, NULL)
  <2>1. /\ header' = g
        /\ sh_heap' = IF p = NULL THEN NULL ELSE SH_HEAP_START
        /\ sh_heap_max' = Shrunk(f)
    BY <1>5, <1>6, <1>14
  <2>2. PICK E \in SUBSET Addresses : E = D \ {f}
    BY <1>11
  <2>3. /\ Typed(g)
        /\ Linked(g, E)
        /\ p = NULL <=> E = {}
        /\ p = NULL => f = SH_HEAP_START
        /\ p # NULL => p \in E /\ g[p].next = NULL /\ p + g[p].length = f
        /\ \A a \in E :
              /\ g[a].allocated = h2[a].allocated
              /\ g[a].length = h2[a].length
              /\ a # p => g[a].next = h2[a].next
              /\ h2[a].next = f <=> a = p
              /\ g[a].next = NULL => a = p
    <3>1. Dropped(h2, D, f, g, E)
      BY <1>11, <1>12, <1>14, <2>2, DropLinked
    <3> HIDE DEF g
    <3>2. QED
      BY <3>1 DEF Dropped
  <2> HIDE DEF g, p
  <2>4. Glued(g, E)
    <3>1. ASSUME NEW a \in E
          PROVE  g[a].allocated \/ (g[a].next # NULL /\ g[g[a].next].allocated)
      <4>1. a \in D /\ a # f
        BY <2>2
      <4>2. h2[a].allocated \/ NextInUse(h2, a)
        BY <1>10, <4>1 DEF GluedAround
      <4>3. NextInUse(h2, a) => h2[a].next \in E /\ a # p
        <5>1. ASSUME NextInUse(h2, a)
              PROVE  h2[a].next \in E /\ a # p
          <6>1. h2[a].next # NULL /\ h2[a].next # f
            BY <1>12, <5>1 DEF NextInUse
          <6>2. h2[a].next \in D
            BY <1>11, <1>12, <4>1, <6>1, NextIsBehind
          <6>3. QED
            BY <2>2, <2>3, <6>1, <6>2
        <5>2. QED
          BY <5>1
      <4>4. QED
        BY <2>3, <4>2, <4>3 DEF NextInUse
    <3>2. QED
      BY <3>1 DEF Glued
  <2>5. Held(g, E, bs)
    <3>1. \A a \in D : h2[a].allocated => a \in E
      BY <1>12, <2>2
    <3>2. \A a \in E : /\ g[a].allocated = h2[a].allocated
                       /\ h2[a].allocated => g[a].length = h2[a].length
      BY <2>3
    <3>3. E \subseteq D
      BY <2>2
    <3>4. QED
      BY <1>12, <3>1, <3>2, <3>3, HeldKept
  <2>6. sh_heap_max' \in PageEnds /\ Mapped(g, E, sh_heap_max')
    <3>1. sh_heap_max \in PageEnds /\ sh_heap_max \in Nat
      BY <1>1, PageEndsApart DEF TypeOK
    <3>2. f + h2[f].length <= sh_heap_max
      BY <1>12, <1>14 DEF Mapped
    <3>3. /\ f \in Nat /\ h2[f].length \in Nat /\ SH_HEAP_START <= f /\ f \in Addresses
          /\ h2[f].length >= HEADER /\ HEADER \in Nat \ {0} /\ SH_HEAP_START \in Nat
          /\ PAGE \in Nat \ {0}
      BY <1>11, <1>12, ChunkNumbers, Numbers
    <3>4. /\ sh_heap_max' \in PageEnds
          /\ f <= sh_heap_max' /\ sh_heap_max' < f + PAGE
          /\ f = SH_HEAP_START => sh_heap_max' = SH_HEAP_START
      <4>1. CASE sh_heap_max - PAGE >= f
        <5>1. sh_heap_max' = RoundUp(f)
          BY <2>1, <4>1 DEF Shrunk
        <5>2. QED
          BY <3>3, <5>1, RoundUpIsNear
      <4>2. CASE ~ (sh_heap_max - PAGE >= f)
        <5>1. sh_heap_max' = sh_heap_max
          BY <2>1, <4>2 DEF Shrunk
        <5>2. f <= sh_heap_max /\ sh_heap_max < f + PAGE /\ sh_heap_max > SH_HEAP_START
          BY <3>1, <3>2, <3>3, <4>2
        <5>3. sh_heap_max - PAGE >= SH_HEAP_START
          BY <3>1, <5>2, PageEndsApart
        <5>4. f # SH_HEAP_START
          BY <4>2, <5>3
        <5>5. QED
          BY <3>1, <5>1, <5>2, <5>4
      <4>3. QED
        BY <4>1, <4>2
    <3>5. ASSUME NEW a \in E, g[a].next = NULL
          PROVE  a + g[a].length = f
      BY <1>11, <2>2, <2>3, <3>5
    <3>6. QED
      BY <2>3, <3>4, <3>5 DEF Mapped
  <2>7. Tiled(E)'
    BY <1>5, <2>1, <2>3, <2>4, <2>5, <2>6 DEF Tiled
  <2>8. sh_heap' \in Links
    BY <2>1, Numbers DEF Links, Addresses
  <2>9. TypeOK'
    BY <1>7, <2>1, <2>3, <2>6, <2>8 DEF TypeOK, Typed
  <2>10. QED
    BY <2>7, <2>9 DEF HeapInv
<1>15. QED
  BY <1>13, <1>14

-----------------------------------------------------------------------------
(***************************************************************************)
(* What HeapInv says of the store of blocks.                               *)
(***************************************************************************)
AddressesDiffer == \A i, j \in 1 .. Len(live) : i # j => live[i].addr # live[j].addr

LEMMA AddressesApart == HeapInv => AddressesDiffer /\ sh_heap_max \in Nat
<1>1. HeapInv => AddressesDiffer
  BY DEF HeapInv, Tiled, Held, AddressesDiffer
<1>2. HeapInv => sh_heap_max \in Nat
  BY PageEndsApart DEF HeapInv, TypeOK
<1>3. QED
  BY <1>1, <1>2

LEMMA BlocksCovered == HeapInv => Store!Covers(live, sh_heap_max)
<1>1. SUFFICES ASSUME HeapInv
               PROVE  Store!Covers(live, sh_heap_max)
  OBVIOUS
<1>2. PICK C \in SUBSET Addresses : Tiled(C)
  BY <1>1 DEF HeapInv
<1>3. /\ TypeOK /\ Typed(header) /\ Linked(header, C) /\ Held(header, C, live)
      /\ Mapped(header, C, sh_heap_max) /\ Glued(header, C)
  BY <1>1, <1>2, LiveTyped DEF HeapInv, Tiled
<1>4. /\ Len(live) \in Nat /\ DOMAIN live = 1 .. Len(live)
      /\ \A i \in 1 .. Len(live) : live[i].addr \in Nat /\ live[i].size \in Nat
      /\ HEADER \in Nat \ {0} /\ PAGE \in Nat \ {0}
      /\ sh_heap_max \in Nat
  BY <1>3, LiveTyped, Numbers, PageEndsApart DEF TypeOK
<1>5. \A c \in C : c \in Nat /\ header[c].length \in Nat
  BY <1>3, ChunkNumbers
<1>6. ASSUME NEW i \in 1 .. Len(live)
      PROVE  live[i].addr + live[i].size <= sh_heap_max
  <2> DEFINE c == live[i].addr - HEADER
  <2>1. c \in C /\ live[i].size + HEADER <= header[c].length
    BY <1>3 DEF Held
  <2>2. c + header[c].length <= sh_heap_max /\ header[c].length \in Nat
    BY <1>2, <1>3, <1>5, <2>1, ChunkEnds
  <2>3. QED
    BY <1>4, <2>1, <2>2, SMTT(60)
<1>7. CASE C = {}
  <2>1. sh_heap_max = SH_HEAP_START
    BY <1>3, <1>7 DEF Mapped
  <2>2. Len(live) = 0
    <3>1. ASSUME Len(live) # 0
          PROVE  FALSE
      <4>1. 1 \in 1 .. Len(live)
        BY <1>4, <3>1
      <4>2. QED
        BY <1>3, <1>7, <4>1 DEF Held
    <3>2. QED
      BY <3>1
  <2>3. live = <<>>
    BY <1>3, <2>2, EmptySeq DEF TypeOK
  <2>4. QED
    BY <1>4, <1>6, <2>1, <2>3 DEF Store!Covers
<1>8. CASE C # {}
  <2>1. PICK t \in C : header[t].next = NULL
    BY <1>3, <1>8 DEF Linked, ForwardLinks
  <2>2. header[t].allocated
    BY <1>3, <2>1 DEF Glued
  <2>3. PICK i \in 1 .. Len(live) : live[i].addr = t + HEADER
    BY <1>3, <2>2 DEF Held
  <2>4. live # <<>>
    <3>1. ASSUME live = <<>>
          PROVE  FALSE
      BY <2>3, <3>1
    <3>2. QED
      BY <3>1
  <2>5. sh_heap_max < t + header[t].length + PAGE
    BY <1>3, <2>1 DEF Mapped
  <2>6. header[t].length <= live[i].size + 2 * HEADER
    <3>1. live[i].addr - HEADER = t
      BY <1>4, <1>5, <2>3
    <3>2. QED
      BY <1>3, <3>1 DEF Held
  <2>7. sh_heap_max < live[i].addr + live[i].size + (HEADER + PAGE)
    <3>1. t \in Nat /\ header[t].length \in Nat /\ live[i].size \in Nat
      BY <1>4, <1>5
    <3>2. QED
      BY <1>4, <2>3, <2>5, <2>6, <3>1, SMTT(60)
  <2>8. QED
    BY <1>4, <1>6, <2>4, <2>7 DEF Store!Covers
<1>9. QED
  BY <1>7, <1>8

LEMMA HandedBlock ==
    ASSUME HeapInv, HeapInv', NEW b, live' = Append(live, b)
    PROVE  Store!Allocate
<1> DEFINE N == Len(live)
<1>1. live \in Seq([addr : Addresses, size : Sizes])
      /\ live' \in Seq([addr : Addresses, size : Sizes])
  BY DEF HeapInv, TypeOK
<1>2. /\ N \in Nat /\ DOMAIN live = 1 .. N
      /\ Len(live') = N + 1
      /\ \A i \in 1 .. N : live'[i] = live[i]
      /\ live'[N + 1] = b
  <2>1. /\ Len(live') = N + 1
        /\ \A i \in 1 .. N : live'[i] = live[i]
        /\ live'[N + 1] = b
    BY <1>1
  <2>2. QED
    BY <1>1, <2>1, LenProperties
<1>3. N + 1 \in 1 .. Len(live')
  BY <1>2
<1>4. b \in [addr : Addresses, size : Sizes]
  BY <1>1, <1>2, <1>3, ElementOfSeq
<1>5. (AddressesDiffer /\ sh_heap_max \in Nat)'
  BY AddressesApart, PTL
<1>6. BlocksDisjoint'
  BY BlocksApart, PTL
<1>7. Store!Covers(live, sh_heap_max)'
  BY BlocksCovered, PTL
<1>8. \A i \in 1 .. N : Store!Apart(b, live[i])
  <2>1. ASSUME NEW i \in 1 .. N
        PROVE  Store!Apart(b, live[i])
    <3>1. i \in 1 .. Len(live') /\ i # N + 1
      BY <1>2
    <3>2. b.addr # live[i].addr
      BY <1>2, <1>3, <1>5, <3>1 DEF AddressesDiffer
    <3>3. Block(b) \cap Block(live[i]) = {}
      BY <1>2, <1>3, <1>6, <3>1 DEF BlocksDisjoint, Block
    <3>4. QED
      BY <3>2, <3>3 DEF Store!Apart, Store!Extent, Block
  <2>2. QED
    BY <2>1
<1>9. b \in [addr : SH_HEAP_START .. sh_heap_max', size : Sizes]
  <2>1. DOMAIN live' = 1 .. Len(live')
    BY <1>1, LenProperties
  <2>2. b.addr + b.size <= sh_heap_max'
    BY <1>2, <1>3, <1>7, <2>1 DEF Store!Covers
  <2>3. b.addr \in Addresses /\ b.size \in Sizes
    BY <1>4
  <2>4. /\ b.addr \in Nat /\ SH_HEAP_START <= b.addr /\ b.size \in Nat
        /\ SH_HEAP_START \in Nat
    <3>1. Addresses \subseteq Nat /\ SH_HEAP_START \in Nat /\ HeapLimit \in Nat
      BY Numbers
    <3>2. Sizes \subseteq Nat
      BY HeapAssumption
    <3> HIDE DEF N
    <3>3. SH_HEAP_START <= b.addr
      BY <2>3, <3>1 DEF Addresses
    <3>4. QED
      BY <2>3, <3>1, <3>2, <3>3
  <2>5. b.addr \in SH_HEAP_START .. sh_heap_max'
    BY <1>5, <2>2, <2>4
  <2>6. QED
    BY <1>4, <2>3, <2>5
<1>10. QED
  BY <1>2, <1>8, <1>9 DEF Store!Allocate

-----------------------------------------------------------------------------
(***************************************************************************)
(* The theorems.                                                           *)
(***************************************************************************)
LEMMA HeapInvInductive == HeapInv /\ [Next /\ NeverSplits]_vars => HeapInv'
<1>1. SUFFICES ASSUME HeapInv, [Next /\ NeverSplits]_vars
               PROVE  HeapInv'
  OBVIOUS
<1>2. ASSUME NEW n \in Sizes, Reuse(n), NeverSplits
      PROVE  HeapInv'
  <2>1. ~ Splits(header, FirstFit(n + HEADER), n + HEADER)
    BY <1>2 DEF NeverSplits
  <2>2. QED
    BY <1>1, <1>2, <2>1, ReuseStep
<1>3. ASSUME NEW n \in Sizes, Extend(n)
      PROVE  HeapInv'
  BY <1>1, <1>3, ExtendStep
<1>4. ASSUME NEW i \in 1 .. Len(live), KFree(i)
      PROVE  HeapInv'
  BY <1>1, <1>4, KFreeStep
<1>5. CASE UNCHANGED vars
  <2>1. /\ sh_heap' = sh_heap /\ sh_heap_max' = sh_heap_max
        /\ header' = header /\ live' = live
    BY <1>5 DEF vars
  <2>2. TypeOK'
    BY <1>1, <2>1 DEF HeapInv, TypeOK
  <2>3. PICK C \in SUBSET Addresses : Tiled(C)
    BY <1>1 DEF HeapInv
  <2>4. Tiled(C)'
    BY <2>1, <2>3 DEF Tiled
  <2>5. QED
    BY <2>2, <2>4 DEF HeapInv
<1>6. QED
  BY <1>1, <1>2, <1>3, <1>4, <1>5 DEF Next, KMalloc

(***************************************************************************)
(* HeapInv is inductive: the list of chunks that kmalloc() and kfree()     *)
(* keep tiles the heap as long as no chunk is split.                       *)
(***************************************************************************)
THEOREM HeapKept == UnsplitSpec => []HeapInv
<1>1. Init => HeapInv
  BY InitEmpty
<1>2. HeapInv /\ [Next /\ NeverSplits]_vars => HeapInv'
  BY HeapInvInductive
<1>3. QED
  BY <1>1, <1>2, PTL DEF UnsplitSpec

(***************************************************************************)
(* The links of the list stay in the heap, and the heap ends with a page.  *)
(***************************************************************************)
THEOREM HeapTyped == UnsplitSpec => []TypeOK
<1>1. HeapInv => TypeOK
  BY DEF HeapInv
<1>2. QED
  BY <1>1, HeapKept, PTL

(***************************************************************************)
(* kmalloc() gives no memory out that a caller still holds.                *)
(***************************************************************************)
THEOREM NoOverlap == UnsplitSpec => []BlocksDisjoint
  BY BlocksApart, HeapKept, PTL

(***************************************************************************)
(* The list of chunks is the heap: glue_chunk() leaves no free chunks side *)
(* by side and free_chunk() none at the end, no block held is lost and     *)
(* none given back is kept.                                                *)
(***************************************************************************)
THEOREM NothingLost == UnsplitSpec => []ChunksTileHeap
  BY ListIsHeap, HeapKept, PTL

(***************************************************************************)
(* alloc_chunk() and free_chunk() keep mapped what the list reaches into,  *)
(* and not a page more.                                                    *)
(***************************************************************************)
THEOREM PagesKept == UnsplitSpec => []PagesExact
  BY PagesFollowList, HeapKept, PTL

(***************************************************************************)
(* kmalloc() and kfree() implement the store of blocks.                    *)
(***************************************************************************)
THEOREM ImplementsStore == UnsplitSpec => StoresBlocks
<1>1. Init => Store!Init
  BY DEF Init, Store!Init
<1>2. HeapInv /\ HeapInv' /\ [Next /\ NeverSplits]_vars
         => [Store!Next]_<<live, sh_heap_max>>
  <2>1. SUFFICES ASSUME HeapInv, HeapInv', [Next /\ NeverSplits]_vars
                 PROVE  [Store!Next]_<<live, sh_heap_max>>
    OBVIOUS
  <2>2. Store!Covers(live', sh_heap_max')
    <3>1. Store!Covers(live, sh_heap_max)'
      BY <2>1, BlocksCovered, PTL
    <3>2. QED
      BY <3>1 DEF Store!Covers
  <2>3. ASSUME NEW b, live' = Append(live, b)
        PROVE  Store!Next
    BY <2>1, <2>2, <2>3, HandedBlock DEF Store!Next
  <2>4. ASSUME NEW n \in Sizes, KMalloc(n)
        PROVE  Store!Next
    BY <2>3, <2>4 DEF KMalloc, Reuse, Extend, Hand
  <2>5. ASSUME NEW i \in 1 .. Len(live), KFree(i)
        PROVE  Store!Next
    <3>1. i \in DOMAIN live /\ live' = RemoveAt(live, i)
      BY <2>1, <2>5, LiveTyped DEF KFree, HeapInv
    <3>2. QED
      BY <2>2, <3>1 DEF Store!Next, Store!Release, Store!RemoveAt, RemoveAt
  <2>6. CASE UNCHANGED vars
    BY <2>6 DEF vars
  <2>7. QED
    BY <2>1, <2>4, <2>5, <2>6 DEF Next
<1>3. QED
  BY <1>1, <1>2, HeapKept, PTL DEF UnsplitSpec, StoresBlocks, Store!Spec
=============================================================================
