--------------------------- MODULE ExecListProofs ---------------------------
(***************************************************************************)
(* The pointers of list.c hold lists: every function of list.c, and the    *)
(* search between the two stores of remove(), finds both chains of every   *)
(* list whole, for every set of nodes, all priorities and all names.       *)
(***************************************************************************)
EXTENDS ExecList, SequenceTheorems, FiniteSetTheorems, WellFoundedInduction, TLAPS

(***************************************************************************)
(* The list l that holds the nodes s has the front of its head at position *)
(* 0 and the back behind the last node.  The next pointers go from each    *)
(* position to the next, the prev pointers back.                           *)
(***************************************************************************)
At(l, s, i) ==
    IF i = 0 THEN AtFront(l) ELSE IF i = Len(s) + 1 THEN AtBack(l) ELSE s[i]

Forward(m, l, s) ==
    /\ \A i \in 0 .. Len(s) : next(m, At(l, s, i)) = At(l, s, i + 1)
    /\ next(m, AtBack(l)) = NULL

Backward(m, l, s) ==
    \A i \in 0 .. Len(s) : prev(m, At(l, s, i + 1)) = At(l, s, i)

\* The chains of all lists.
Forwards(m, q) == \A l \in Lists : Forward(m, l, q[l])

Backwards(m, r) == \A l \in Lists : Backward(m, l, r[l])

Memory(m) == m \in [Cells -> Addresses \cup {NULL}]

\* No node is linked twice.
Apart(r) ==
    /\ r \in [Lists -> Seq(Nodes)]
    /\ \A k, l \in Lists : \A i \in 1 .. Len(r[k]), j \in 1 .. Len(r[l]) :
          r[k][i] = r[l][j] => k = l /\ i = j

(***************************************************************************)
(* The next pointers hold the lists q and the prev pointers the lists r,   *)
(* which are the same but for the node that is being removed.              *)
(***************************************************************************)
Linking(q, r) ==
    /\ Apart(q)
    /\ Apart(r)
    /\ Forwards(mem, q)
    /\ Backwards(mem, r)
    /\ removing = NULL => q = r
    /\ removing # NULL =>
          \E l \in Lists : \E k \in 1 .. Len(r[l]) :
             /\ r[l][k] = removing
             /\ q = [r EXCEPT ![l] = RemoveAt(r[l], k)]
             /\ next(mem, removing) = At(l, r[l], k + 1)

ListInv ==
    /\ Memory(mem)
    /\ removing \in Nodes \cup {NULL}
    /\ sought \in Names \cup {NULL}
    /\ found \in Nodes \cup {NULL}
    /\ sought # NULL => found = Search(mem, sought)
    /\ \E q, r \in [Lists -> Seq(Nodes)] : Linking(q, r)

-----------------------------------------------------------------------------
(***************************************************************************)
(* Addresses and cells.                                                    *)
(***************************************************************************)
LEMMA AddressFacts ==
    /\ NULL \notin Addresses
    /\ Nodes \subseteq Addresses
    /\ \A l \in Lists :
          /\ AtFront(l) \in Addresses /\ AtFront(l) \notin Nodes
          /\ AtBack(l) \in Addresses /\ AtBack(l) \notin Nodes
    /\ \A k, l \in Lists :
          /\ AtFront(k) # AtBack(l)
          /\ AtFront(k) = AtFront(l) => k = l
          /\ AtBack(k) = AtBack(l) => k = l
    /\ \A p \in Addresses \ Nodes : \E l \in Lists : p = AtFront(l) \/ p = AtBack(l)
  BY ListAssumption DEF Addresses, AtFront, AtBack

LEMMA CellFacts ==
    /\ \A n \in Nodes : NextOf(n) = <<n, "next">> /\ PrevOf(n) = <<n, "prev">>
    /\ \A l \in Lists :
          /\ NextOf(AtFront(l)) = <<l, "head">>
          /\ NextOf(AtBack(l)) = <<l, "tail">>
          /\ PrevOf(AtFront(l)) = <<l, "tail">>
          /\ PrevOf(AtBack(l)) = <<l, "tailPrev">>
    /\ \A n \in Nodes : <<n, "next">> \in Cells /\ <<n, "prev">> \in Cells
    /\ \A l \in Lists : /\ <<l, "head">> \in Cells
                        /\ <<l, "tail">> \in Cells
                        /\ <<l, "tailPrev">> \in Cells
<1>1. \A n \in Nodes : NextOf(n) = <<n, "next">> /\ PrevOf(n) = <<n, "prev">>
  BY DEF NextOf, PrevOf
<1>2. ASSUME NEW l \in Lists
      PROVE  /\ NextOf(AtFront(l)) = <<l, "head">>
             /\ NextOf(AtBack(l)) = <<l, "tail">>
             /\ PrevOf(AtFront(l)) = <<l, "tail">>
             /\ PrevOf(AtBack(l)) = <<l, "tailPrev">>
  BY AddressFacts DEF NextOf, PrevOf, AtFront, AtBack
<1>3. QED
  BY <1>1, <1>2 DEF Cells

LEMMA CellsApart ==
    ASSUME NEW p \in Addresses, NEW q \in Addresses
    PROVE  /\ NextOf(p) \in Cells
           /\ PrevOf(p) \in Cells
           /\ NextOf(p) = NextOf(q) => p = q
           /\ PrevOf(p) = PrevOf(q) => p = q
           /\ NextOf(p) = PrevOf(q) => \E l \in Lists : p = AtBack(l) /\ q = AtFront(l)
<1>1. p \in Nodes \/ \E l \in Lists : p = AtFront(l) \/ p = AtBack(l)
  BY AddressFacts
<1>2. q \in Nodes \/ \E l \in Lists : q = AtFront(l) \/ q = AtBack(l)
  BY AddressFacts
<1>3. NextOf(p) \in Cells /\ PrevOf(p) \in Cells
  BY <1>1, CellFacts
<1>4. CASE p \in Nodes /\ q \in Nodes
  BY <1>3, <1>4, CellFacts
<1>5. CASE p \in Nodes /\ q \notin Nodes
  BY <1>2, <1>3, <1>5, CellFacts
<1>6. CASE p \notin Nodes /\ q \in Nodes
  BY <1>1, <1>3, <1>6, CellFacts
<1>7. CASE p \notin Nodes /\ q \notin Nodes
  <2>1. PICK k \in Lists : p = AtFront(k) \/ p = AtBack(k)
    BY <1>1, <1>7
  <2>2. PICK l \in Lists : q = AtFront(l) \/ q = AtBack(l)
    BY <1>2, <1>7
  <2>3. NextOf(p) = NextOf(q) => p = q
    BY <2>1, <2>2, CellFacts
  <2>4. PrevOf(p) = PrevOf(q) => p = q
    BY <2>1, <2>2, CellFacts
  <2>5. NextOf(p) = PrevOf(q) => p = AtBack(k) /\ q = AtFront(k)
    BY <2>1, <2>2, CellFacts
  <2>6. QED
    BY <1>3, <2>3, <2>4, <2>5
<1>8. QED
  BY <1>4, <1>5, <1>6, <1>7

\* A pointer of the node at a is written, and no other.
NextSetTo(m, g, a, v) ==
    \A p \in Addresses : /\ next(g, p) = IF p = a THEN v ELSE next(m, p)
                         /\ prev(g, p) = prev(m, p)

PrevSetTo(m, g, b, v) ==
    \A p \in Addresses : /\ next(g, p) = next(m, p)
                         /\ prev(g, p) = IF p = b THEN v ELSE prev(m, p)

LEMMA NextWritten ==
    ASSUME NEW m, Memory(m), NEW a \in Addresses, \A l \in Lists : a # AtBack(l),
           NEW v \in Addresses \cup {NULL}
    PROVE  /\ Memory([m EXCEPT ![NextOf(a)] = v])
           /\ NextSetTo(m, [m EXCEPT ![NextOf(a)] = v], a, v)
<1> DEFINE g == [m EXCEPT ![NextOf(a)] = v]
<1>1. NextOf(a) \in Cells
  BY CellsApart
<1>2. Memory(g) /\ \A c \in Cells : g[c] = IF c = NextOf(a) THEN v ELSE m[c]
  BY <1>1 DEF Memory
<1> HIDE DEF g
<1>3. ASSUME NEW p \in Addresses
      PROVE  /\ next(g, p) = IF p = a THEN v ELSE next(m, p)
             /\ prev(g, p) = prev(m, p)
  <2>1. NextOf(p) \in Cells /\ PrevOf(p) \in Cells /\ (NextOf(p) = NextOf(a) => p = a)
    BY CellsApart
  <2>2. NextOf(a) # PrevOf(p)
    BY CellsApart
  <2>3. QED
    BY <1>2, <2>1, <2>2 DEF next, prev
<1>4. NextSetTo(m, g, a, v)
  BY <1>3 DEF NextSetTo
<1>5. QED
  BY <1>2, <1>4 DEF g

LEMMA PrevWritten ==
    ASSUME NEW m, Memory(m), NEW b \in Addresses, \A l \in Lists : b # AtFront(l),
           NEW v \in Addresses \cup {NULL}
    PROVE  /\ Memory([m EXCEPT ![PrevOf(b)] = v])
           /\ PrevSetTo(m, [m EXCEPT ![PrevOf(b)] = v], b, v)
<1> DEFINE g == [m EXCEPT ![PrevOf(b)] = v]
<1>1. PrevOf(b) \in Cells
  BY CellsApart
<1>2. Memory(g) /\ \A c \in Cells : g[c] = IF c = PrevOf(b) THEN v ELSE m[c]
  BY <1>1 DEF Memory
<1> HIDE DEF g
<1>3. ASSUME NEW p \in Addresses
      PROVE  /\ next(g, p) = next(m, p)
             /\ prev(g, p) = IF p = b THEN v ELSE prev(m, p)
  <2>1. NextOf(p) \in Cells /\ PrevOf(p) \in Cells /\ (PrevOf(p) = PrevOf(b) => p = b)
    BY CellsApart
  <2>2. NextOf(p) # PrevOf(b)
    BY CellsApart
  <2>3. QED
    BY <1>2, <2>1, <2>2 DEF next, prev
<1>4. PrevSetTo(m, g, b, v)
  BY <1>3 DEF PrevSetTo
<1>5. QED
  BY <1>2, <1>4 DEF g

-----------------------------------------------------------------------------
(***************************************************************************)
(* Numbers and sequences.                                                  *)
(***************************************************************************)
LEMMA LeastNatural ==
    ASSUME NEW S, S \subseteq Nat, S # {}
    PROVE  \E k \in S : \A m \in S : k <= m
<1> DEFINE Less == {ss \in Nat \X Nat : ss[1] < ss[2]}
<1>1. IsWellFoundedOn(Less, Nat)
  BY NatLessThanWellFounded DEF OpToRel
<1> HIDE DEF Less
<1>2. PICK k \in S : \A m \in S : ~ (<<m, k>> \in Less)
  BY <1>1, WFMin
<1>3. \A m \in S : k <= m
  <2>1. SUFFICES ASSUME NEW m \in S, ~ (k <= m)
                 PROVE  FALSE
    OBVIOUS
  <2>2. m \in Nat /\ k \in Nat /\ m < k
    BY <2>1
  <2>3. <<m, k>> \in Less
    BY <2>2 DEF Less
  <2>4. QED
    BY <1>2, <2>3
<1>4. QED
  BY <1>3

LEMMA MinIsLeast ==
    ASSUME NEW S, S \subseteq Nat, S # {}
    PROVE  Min(S) \in S /\ \A m \in S : Min(S) <= m
  BY LeastNatural DEF Min

LEMMA MinIs ==
    ASSUME NEW S, S \subseteq Nat, NEW k \in S, \A m \in S : k <= m
    PROVE  Min(S) = k
<1>1. Min(S) \in S /\ Min(S) <= k
  BY MinIsLeast
<1>2. k <= Min(S) /\ k \in Nat /\ Min(S) \in Nat
  BY <1>1
<1>3. QED
  BY <1>1, <1>2

LEMMA Elements ==
    ASSUME NEW S, NEW s \in Seq(S)
    PROVE  /\ Len(s) \in Nat
           /\ DOMAIN s = 1 .. Len(s)
           /\ \A i \in 1 .. Len(s) : s[i] \in S
           /\ ToSet(s) = {s[i] : i \in 1 .. Len(s)}
<1>1. Len(s) \in Nat /\ DOMAIN s = 1 .. Len(s) /\ \A i \in 1 .. Len(s) : s[i] \in S
  BY LenProperties, ElementOfSeq
<1>2. QED
  BY <1>1 DEF ToSet

\* t is s without the element at position k.
Removed(s, k, t) ==
    /\ Len(t) = Len(s) - 1
    /\ \A i \in 1 .. (Len(s) - 1) : t[i] = IF i < k THEN s[i] ELSE s[i + 1]

LEMMA RemovedAt ==
    ASSUME NEW S, NEW s \in Seq(S), NEW k \in 1 .. Len(s)
    PROVE  RemoveAt(s, k) \in Seq(S) /\ Removed(s, k, RemoveAt(s, k))
<1> DEFINE u == SubSeq(s, 1, k - 1)
           v == SubSeq(s, k + 1, Len(s))
           N == Len(s)
<1>1. N \in Nat /\ k \in Nat /\ k >= 1 /\ k <= N /\ \A j \in 1 .. N : s[j] \in S
  BY Elements
<1> HIDE DEF N
<1>2. u \in Seq(S) /\ Len(u) = k - 1 /\ \A j \in 1 .. (k - 1) : u[j] = s[j]
  <2>1. 1 \in Int /\ k - 1 \in Int /\ \A j \in 1 .. (k - 1) : s[j] \in S
    BY <1>1
  <2>2. /\ u \in Seq(S)
        /\ Len(u) = IF 1 <= k - 1 THEN (k - 1) - 1 + 1 ELSE 0
        /\ \A j \in 1 .. (k - 1) - 1 + 1 : u[j] = s[1 + j - 1]
    BY <2>1, SubSeqProperties
  <2> HIDE DEF u
  <2>3. QED
    BY <1>1, <2>2
<1>3. v \in Seq(S) /\ Len(v) = N - k /\ \A j \in 1 .. (N - k) : v[j] = s[j + k]
  <2>1. k + 1 \in Int /\ Len(s) \in Int /\ \A j \in (k + 1) .. Len(s) : s[j] \in S
    BY <1>1 DEF N
  <2>2. /\ v \in Seq(S)
        /\ Len(v) = IF k + 1 <= Len(s) THEN Len(s) - (k + 1) + 1 ELSE 0
        /\ \A j \in 1 .. Len(s) - (k + 1) + 1 : v[j] = s[(k + 1) + j - 1]
    BY <2>1, SubSeqProperties
  <2> HIDE DEF v
  <2>3. \A j \in 1 .. (N - k) : j \in 1 .. N - (k + 1) + 1 /\ (k + 1) + j - 1 = j + k
    BY <1>1
  <2>4. QED
    BY <1>1, <2>2, <2>3 DEF N
<1>4. RemoveAt(s, k) = u \o v
  BY DEF RemoveAt
<1> HIDE DEF u, v
<1>5. /\ u \o v \in Seq(S)
      /\ Len(u \o v) = Len(u) + Len(v)
      /\ \A j \in 1 .. Len(u) + Len(v) :
            (u \o v)[j] = IF j <= Len(u) THEN u[j] ELSE v[j - Len(u)]
  BY <1>2, <1>3, ConcatProperties
<1>6. Len(u) + Len(v) = N - 1
  BY <1>1, <1>2, <1>3
<1>7. ASSUME NEW j \in 1 .. (N - 1)
      PROVE  (u \o v)[j] = IF j < k THEN s[j] ELSE s[j + 1]
  <2>1. (u \o v)[j] = IF j <= k - 1 THEN u[j] ELSE v[j - (k - 1)]
    BY <1>2, <1>5, <1>6
  <2>2. CASE j < k
    <3>1. j <= k - 1 /\ j \in 1 .. (k - 1)
      BY <1>1, <2>2
    <3>2. QED
      BY <1>2, <2>1, <2>2, <3>1
  <2>3. CASE ~ (j < k)
    <3>1. ~ (j <= k - 1) /\ j - (k - 1) \in 1 .. (N - k) /\ (j - (k - 1)) + k = j + 1
      BY <1>1, <2>3
    <3>2. v[j - (k - 1)] = s[j + 1]
      BY <1>3, <3>1
    <3>3. QED
      BY <2>1, <2>3, <3>1, <3>2
  <2>4. QED
    BY <2>2, <2>3
<1>8. QED
  BY <1>4, <1>5, <1>6, <1>7 DEF N, Removed

\* t is s with n at position k.
Inserted(s, k, n, t) ==
    /\ Len(t) = Len(s) + 1
    /\ \A i \in 1 .. (Len(s) + 1) :
          t[i] = IF i < k THEN s[i] ELSE IF i = k THEN n ELSE s[i - 1]

LEMMA InsertedAt ==
    ASSUME NEW S, NEW s \in Seq(S), NEW k \in 1 .. (Len(s) + 1), NEW n \in S
    PROVE  InsertAt(s, k, n) \in Seq(S) /\ Inserted(s, k, n, InsertAt(s, k, n))
<1> DEFINE u == SubSeq(s, 1, k - 1)
           w == <<n>>
           v == SubSeq(s, k, Len(s))
           N == Len(s)
<1>1. N \in Nat /\ k \in Nat /\ k >= 1 /\ k <= N + 1 /\ \A j \in 1 .. N : s[j] \in S
  BY Elements
<1> HIDE DEF N
<1>2. u \in Seq(S) /\ Len(u) = k - 1 /\ \A j \in 1 .. (k - 1) : u[j] = s[j]
  <2>1. 1 \in Int /\ k - 1 \in Int /\ \A j \in 1 .. (k - 1) : s[j] \in S
    BY <1>1
  <2>2. /\ u \in Seq(S)
        /\ Len(u) = IF 1 <= k - 1 THEN (k - 1) - 1 + 1 ELSE 0
        /\ \A j \in 1 .. (k - 1) - 1 + 1 : u[j] = s[1 + j - 1]
    BY <2>1, SubSeqProperties
  <2> HIDE DEF u
  <2>3. QED
    BY <1>1, <2>2
<1>3. v \in Seq(S) /\ Len(v) = N - k + 1 /\ \A j \in 1 .. (N - k + 1) : v[j] = s[j + k - 1]
  <2>1. k \in Int /\ Len(s) \in Int /\ \A j \in k .. Len(s) : s[j] \in S
    BY <1>1 DEF N
  <2>2. /\ v \in Seq(S)
        /\ Len(v) = IF k <= Len(s) THEN Len(s) - k + 1 ELSE 0
        /\ \A j \in 1 .. Len(s) - k + 1 : v[j] = s[k + j - 1]
    BY <2>1, SubSeqProperties
  <2> HIDE DEF v
  <2>3. \A j \in 1 .. (N - k + 1) : k + j - 1 = j + k - 1
    BY <1>1
  <2>4. QED
    BY <1>1, <2>2, <2>3 DEF N
<1>4. w \in Seq(S) /\ Len(w) = 1 /\ w[1] = n
  OBVIOUS
<1>5. InsertAt(s, k, n) = (u \o w) \o v
  BY DEF InsertAt
<1> HIDE DEF u, v, w
<1>6. /\ u \o w \in Seq(S)
      /\ Len(u \o w) = k
      /\ \A j \in 1 .. k : (u \o w)[j] = IF j <= k - 1 THEN u[j] ELSE w[j - (k - 1)]
  <2>1. /\ u \o w \in Seq(S)
        /\ Len(u \o w) = Len(u) + Len(w)
        /\ \A j \in 1 .. Len(u) + Len(w) :
              (u \o w)[j] = IF j <= Len(u) THEN u[j] ELSE w[j - Len(u)]
    BY <1>2, <1>4, ConcatProperties
  <2>2. Len(u) + Len(w) = k
    BY <1>1, <1>2, <1>4
  <2>3. QED
    BY <1>2, <2>1, <2>2
<1> DEFINE x == u \o w
<1>7. x \in Seq(S) /\ Len(x) = k /\ x[k] = n /\ \A j \in 1 .. (k - 1) : x[j] = s[j]
  <2>1. ASSUME NEW j \in 1 .. (k - 1)
        PROVE  x[j] = s[j]
    BY <1>1, <1>2, <1>6
  <2>2. k - (k - 1) = 1 /\ ~ (k <= k - 1) /\ k \in 1 .. k
    BY <1>1
  <2>3. QED
    BY <1>4, <1>6, <2>1, <2>2
<1> HIDE DEF x
<1>8. /\ x \o v \in Seq(S)
      /\ Len(x \o v) = N + 1
      /\ \A j \in 1 .. (N + 1) : (x \o v)[j] = IF j <= k THEN x[j] ELSE v[j - k]
  <2>1. /\ x \o v \in Seq(S)
        /\ Len(x \o v) = Len(x) + Len(v)
        /\ \A j \in 1 .. Len(x) + Len(v) :
              (x \o v)[j] = IF j <= Len(x) THEN x[j] ELSE v[j - Len(x)]
    BY <1>3, <1>7, ConcatProperties, ZenonT(60)
  <2>2. Len(x) + Len(v) = N + 1
    BY <1>1, <1>3, <1>7
  <2>3. QED
    BY <1>7, <2>1, <2>2
<1>9. ASSUME NEW j \in 1 .. (N + 1)
      PROVE  (x \o v)[j] = IF j < k THEN s[j] ELSE IF j = k THEN n ELSE s[j - 1]
  <2>1. CASE j < k
    <3>1. j \in 1 .. (k - 1) /\ j <= k
      BY <1>1, <2>1
    <3>2. QED
      BY <1>7, <1>8, <2>1, <3>1
  <2>2. CASE j = k
    <3>1. j <= k /\ ~ (j < k)
      BY <1>1, <2>2
    <3>2. (x \o v)[j] = x[j]
      BY <1>8, <3>1
    <3>3. QED
      BY <1>7, <2>2, <3>1, <3>2
  <2>3. CASE j > k
    <3>1. j - k \in 1 .. (N - k + 1) /\ (j - k) + k - 1 = j - 1 /\ ~ (j <= k)
      BY <1>1, <2>3
    <3>2. v[j - k] = s[j - 1]
      BY <1>3, <3>1
    <3>3. QED
      BY <1>8, <2>3, <3>1, <3>2
  <2>4. j < k \/ j = k \/ j > k
    BY <1>1
  <2>5. QED
    BY <2>1, <2>2, <2>3, <2>4
<1>10. QED
  BY <1>5, <1>8, <1>9 DEF N, Inserted, x

-----------------------------------------------------------------------------
(***************************************************************************)
(* The positions of a list.                                                *)
(***************************************************************************)
LEMMA Positions ==
    ASSUME NEW l \in Lists, NEW s \in Seq(Nodes), NEW i \in 0 .. (Len(s) + 1)
    PROVE  /\ At(l, s, i) \in Addresses
           /\ At(l, s, i) # NULL
           /\ i \in 1 .. Len(s) => At(l, s, i) = s[i] /\ At(l, s, i) \in Nodes
           /\ i = 0 => At(l, s, i) = AtFront(l)
           /\ i = Len(s) + 1 => At(l, s, i) = AtBack(l)
           /\ i # Len(s) + 1 => \A k \in Lists : At(l, s, i) # AtBack(k)
           /\ i # 0 => \A k \in Lists : At(l, s, i) # AtFront(k)
<1>1. Len(s) \in Nat /\ \A j \in 1 .. Len(s) : s[j] \in Nodes
  BY Elements
<1>2. CASE i = 0
  BY <1>1, <1>2, AddressFacts DEF At
<1>3. CASE i = Len(s) + 1
  BY <1>1, <1>3, AddressFacts DEF At
<1>4. CASE i \in 1 .. Len(s)
  <2>1. At(l, s, i) = s[i] /\ s[i] \in Nodes /\ i # 0 /\ i # Len(s) + 1
    BY <1>1, <1>4 DEF At
  <2>2. QED
    BY <1>4, <2>1, AddressFacts
<1>5. QED
  BY <1>1, <1>2, <1>3, <1>4

LEMMA PositionsApart ==
    ASSUME NEW r, Apart(r), NEW k \in Lists, NEW l \in Lists,
           NEW i \in 0 .. (Len(r[k]) + 1), NEW j \in 0 .. (Len(r[l]) + 1),
           At(k, r[k], i) = At(l, r[l], j)
    PROVE  k = l /\ i = j
<1>1. r[k] \in Seq(Nodes) /\ r[l] \in Seq(Nodes)
  BY DEF Apart
<1>2. Len(r[k]) \in Nat /\ Len(r[l]) \in Nat
  BY <1>1, Elements
<1> DEFINE p == At(k, r[k], i)
           q == At(l, r[l], j)
<1>3. /\ i \in 1 .. Len(r[k]) => p = r[k][i] /\ p \in Nodes
      /\ i = 0 => p = AtFront(k)
      /\ i = Len(r[k]) + 1 => p = AtBack(k)
  BY <1>1, Positions
<1>4. /\ j \in 1 .. Len(r[l]) => q = r[l][j] /\ q \in Nodes
      /\ j = 0 => q = AtFront(l)
      /\ j = Len(r[l]) + 1 => q = AtBack(l)
      /\ j # Len(r[l]) + 1 => \A h \in Lists : q # AtBack(h)
      /\ j # 0 => \A h \in Lists : q # AtFront(h)
  BY <1>1, Positions
<1>5. p = q
  OBVIOUS
<1> HIDE DEF p, q
<1>6. CASE i = 0
  BY <1>6, <1>3, <1>4, <1>5, AddressFacts
<1>7. CASE i = Len(r[k]) + 1
  <2>1. q = AtBack(k)
    BY <1>7, <1>3, <1>5
  <2>2. j = Len(r[l]) + 1
    BY <1>4, <2>1
  <2>3. q = AtBack(l)
    BY <1>4, <2>2
  <2>4. k = l
    BY <2>1, <2>3, AddressFacts
  <2>5. QED
    BY <1>7, <2>2, <2>4
<1>8. CASE i \in 1 .. Len(r[k])
  <2>1. q = r[k][i] /\ q \in Nodes
    BY <1>8, <1>3, <1>5
  <2>2. j # 0 /\ j # Len(r[l]) + 1
    BY <1>4, <2>1, AddressFacts
  <2>3. j \in 1 .. Len(r[l])
    BY <1>2, <2>2
  <2>4. q = r[l][j]
    BY <1>4, <2>3
  <2>5. QED
    BY <1>8, <2>1, <2>3, <2>4, ZenonT(60) DEF Apart
<1>9. QED
  BY <1>2, <1>6, <1>7, <1>8

\* What the chains say, position by position.
LEMMA ForwardAt ==
    ASSUME NEW m, NEW l \in Lists, NEW s \in Seq(Nodes), Forward(m, l, s)
    PROVE  /\ \A i \in 1 .. Len(s) : next(m, s[i]) = At(l, s, i + 1)
           /\ next(m, AtFront(l)) = At(l, s, 1)
           /\ next(m, AtBack(l)) = NULL
<1>1. Len(s) \in Nat
  BY Elements
<1>2. ASSUME NEW i \in 1 .. Len(s)
      PROVE  next(m, s[i]) = At(l, s, i + 1)
  <2>1. i \in 0 .. Len(s) /\ i \in 0 .. (Len(s) + 1)
    BY <1>1
  <2>2. At(l, s, i) = s[i]
    BY <2>1, Positions
  <2>3. QED
    BY <2>1, <2>2 DEF Forward
<1>3. next(m, AtFront(l)) = At(l, s, 1)
  <2>1. 0 \in 0 .. Len(s) /\ 0 + 1 = 1
    BY <1>1
  <2>2. At(l, s, 0) = AtFront(l)
    BY DEF At
  <2>3. next(m, At(l, s, 0)) = At(l, s, 0 + 1)
    BY <2>1 DEF Forward
  <2>4. QED
    BY <2>2, <2>3
<1>4. QED
  BY <1>2, <1>3 DEF Forward

LEMMA GetHeadIs ==
    ASSUME NEW m, NEW l \in Lists, NEW s \in Seq(Nodes), Forward(m, l, s)
    PROVE  GetHead(m, l) = IF Len(s) = 0 THEN NULL ELSE s[1]
<1>1. Len(s) \in Nat
  BY Elements
<1>2. next(m, AtFront(l)) = At(l, s, 1)
  BY ForwardAt
<1>3. CASE Len(s) = 0
  <2>1. At(l, s, 1) = AtBack(l)
    BY <1>3 DEF At
  <2>2. next(m, AtBack(l)) = NULL
    BY ForwardAt
  <2>3. QED
    BY <1>2, <1>3, <2>1, <2>2 DEF GetHead
<1>4. CASE Len(s) # 0
  <2>1. 1 \in 1 .. Len(s) /\ 1 + 1 \in 0 .. (Len(s) + 1) /\ 1 \in 0 .. (Len(s) + 1)
    BY <1>1, <1>4
  <2>2. At(l, s, 1) = s[1]
    BY <2>1, Positions
  <2>3. next(m, s[1]) = At(l, s, 1 + 1)
    BY <2>1, ForwardAt
  <2>4. At(l, s, 1 + 1) # NULL
    BY <2>1, Positions
  <2>5. QED
    BY <1>2, <1>4, <2>2, <2>3, <2>4 DEF GetHead
<1>5. QED
  BY <1>3, <1>4

LEMMA GetNextIs ==
    ASSUME NEW m, NEW l \in Lists, NEW s \in Seq(Nodes), Forward(m, l, s),
           NEW i \in 1 .. Len(s)
    PROVE  GetNext(m, s[i]) = IF i = Len(s) THEN NULL ELSE s[i + 1]
<1>1. Len(s) \in Nat /\ next(m, s[i]) = At(l, s, i + 1)
  BY Elements, ForwardAt
<1>2. CASE i = Len(s)
  <2>1. At(l, s, i + 1) = AtBack(l)
    BY <1>1, <1>2 DEF At
  <2>2. next(m, AtBack(l)) = NULL
    BY ForwardAt
  <2>3. QED
    BY <1>1, <1>2, <2>1, <2>2 DEF GetNext
<1>3. CASE i # Len(s)
  <2>1. i + 1 \in 1 .. Len(s) /\ i + 1 \in 0 .. (Len(s) + 1) /\ (i + 1) + 1 \in 0 .. (Len(s) + 1)
    BY <1>1, <1>3
  <2>2. At(l, s, i + 1) = s[i + 1] /\ At(l, s, i + 1) # NULL
    BY <2>1, Positions
  <2>3. next(m, s[i + 1]) = At(l, s, (i + 1) + 1)
    BY <2>1, ForwardAt
  <2>4. At(l, s, (i + 1) + 1) # NULL
    BY <2>1, Positions
  <2>5. QED
    BY <1>1, <1>3, <2>2, <2>3, <2>4 DEF GetNext
<1>4. QED
  BY <1>2, <1>3

-----------------------------------------------------------------------------
(***************************************************************************)
(* The walks visit the nodes of the list.                                  *)
(***************************************************************************)
Distinct(s) == \A i, j \in 1 .. Len(s) : s[i] = s[j] => i = j

LEMMA NodesSuffice ==
    ASSUME NEW s \in Seq(Nodes), Distinct(s)
    PROVE  Len(s) <= Cardinality(Nodes) /\ Cardinality(Nodes) \in Nat
<1>1. Len(s) \in Nat /\ DOMAIN s = 1 .. Len(s) /\ \A i \in 1 .. Len(s) : s[i] \in Nodes
  BY Elements
<1>2. s \in [1 .. Len(s) -> Nodes]
  BY <1>1
<1>3. s \in Injection(1 .. Len(s), Nodes)
  BY <1>1, <1>2 DEF Injection, IsInjective, Distinct
<1>4. Cardinality(1 .. Len(s)) <= Cardinality(Nodes)
  BY <1>3, ListAssumption, FS_Injection
<1>5. Cardinality(1 .. Len(s)) = Len(s)
  <2>1. 1 \in Int /\ Len(s) \in Int
    BY <1>1
  <2>2. Cardinality(1 .. Len(s)) = IF 1 > Len(s) THEN 0 ELSE Len(s) - 1 + 1
    BY <2>1, FS_Interval
  <2> DEFINE C == Cardinality(1 .. Len(s))
             N == Len(s)
  <2>3. C = IF 1 > N THEN 0 ELSE N - 1 + 1
    BY <2>2
  <2>4. N \in Nat
    BY <1>1
  <2> HIDE DEF C, N
  <2>5. C = N
    BY <2>3, <2>4
  <2>6. QED
    BY <2>5 DEF C, N
<1>6. Cardinality(Nodes) \in Nat
  BY ListAssumption, FS_CardinalityType
<1>7. QED
  BY <1>4, <1>5, <1>6

\* A walk that visits s and then NULL.
Visits(at, s) ==
    \A i \in 1 .. Cardinality(Nodes) + 1 : at[i] = IF i <= Len(s) THEN s[i] ELSE NULL

LEMMA VisitsAll ==
    ASSUME NEW s \in Seq(Nodes), Distinct(s), NEW at,
           DOMAIN at = 1 .. Cardinality(Nodes) + 1, Visits(at, s)
    PROVE  UntilNull(at) = s
<1> DEFINE N == Cardinality(Nodes) + 1
           stop == {i \in DOMAIN at : at[i] = NULL}
<1>1. /\ Len(s) \in Nat /\ N \in Nat /\ Len(s) + 1 <= N /\ Cardinality(Nodes) \in Nat
      /\ \A i \in 1 .. Len(s) : s[i] \in Nodes
  BY NodesSuffice, Elements
<1>2. \A i \in 1 .. N : at[i] = IF i <= Len(s) THEN s[i] ELSE NULL
  BY DEF Visits
<1>3. DOMAIN at = 1 .. N
  OBVIOUS
<1> HIDE DEF N
<1>4. \A i \in stop : Len(s) + 1 <= i /\ i \in Nat
  <2>1. ASSUME NEW i \in stop
        PROVE  Len(s) + 1 <= i /\ i \in Nat
    <3>1. i \in 1 .. N /\ at[i] = NULL
      BY <1>3
    <3>2. i \in Nat
      BY <1>1, <3>1
    <3>3. i <= Len(s) => at[i] \in Nodes
      BY <1>1, <1>2, <3>1
    <3>4. ~ (i <= Len(s))
      BY <3>1, <3>3, AddressFacts
    <3>5. QED
      BY <1>1, <3>2, <3>4
  <2>2. QED
    BY <2>1
<1>5. Len(s) + 1 \in stop
  <2>1. Len(s) + 1 \in 1 .. N /\ ~ (Len(s) + 1 <= Len(s))
    BY <1>1
  <2>2. QED
    BY <1>2, <1>3, <2>1
<1> HIDE DEF stop
<1>6. Min(stop) = Len(s) + 1 /\ stop # {}
  BY <1>4, <1>5, MinIs
<1>7. UntilNull(at) = SubSeq(at, 1, Len(s))
  <2>1. UntilNull(at) = SubSeq(at, 1, Min(stop) - 1)
    BY <1>6 DEF UntilNull, stop
  <2>2. Min(stop) - 1 = Len(s)
    BY <1>1, <1>6
  <2>3. QED
    BY <2>1, <2>2
<1>8. /\ SubSeq(at, 1, Len(s)) \in Seq(Nodes)
      /\ Len(SubSeq(at, 1, Len(s))) = Len(s)
      /\ \A i \in 1 .. Len(s) : SubSeq(at, 1, Len(s))[i] = s[i]
  <2>1. \A i \in 1 .. Len(s) : at[i] = s[i] /\ at[i] \in Nodes
    BY <1>1, <1>2
  <2>2. /\ SubSeq(at, 1, Len(s)) \in Seq(Nodes)
        /\ Len(SubSeq(at, 1, Len(s))) = IF 1 <= Len(s) THEN Len(s) - 1 + 1 ELSE 0
        /\ \A i \in 1 .. Len(s) - 1 + 1 : SubSeq(at, 1, Len(s))[i] = at[1 + i - 1]
    BY <1>1, <2>1, SubSeqProperties
  <2> DEFINE t == SubSeq(at, 1, Len(s))
  <2> HIDE DEF t
  <2>3. \A i \in 1 .. Len(s) : t[i] = at[1 + i - 1] /\ 1 + i - 1 = i
    BY <1>1, <2>2 DEF t
  <2>4. \A i \in 1 .. Len(s) : t[i] = s[i]
    BY <2>1, <2>3
  <2>5. QED
    BY <1>1, <2>2, <2>4 DEF t
<1>9. QED
  BY <1>7, <1>8, SeqEqual

\* A function given step by step is what it is shown to be, step by step.
StepsAlike(N, f, w) ==
    /\ 1 <= N => f[1] = w[1]
    /\ \A i \in 1 .. N : i # 1 /\ f[i - 1] = w[i - 1] => f[i] = w[i]

LEMMA Unrolled ==
    ASSUME NEW N \in Nat, NEW f, NEW w, StepsAlike(N, f, w)
    PROVE  \A i \in 1 .. N : f[i] = w[i]
<1> USE DEF StepsAlike
<1> DEFINE Differ == {i \in 1 .. N : f[i] # w[i]}
<1>1. SUFFICES ASSUME Differ # {}
               PROVE  FALSE
  OBVIOUS
<1>2. Differ \subseteq Nat
  OBVIOUS
<1>3. PICK i \in Differ : \A j \in Differ : i <= j
  <2> HIDE DEF Differ
  <2>1. QED
    BY <1>1, <1>2, LeastNatural
<1>4. i \in 1 .. N /\ f[i] # w[i] /\ i # 1
  OBVIOUS
<1>5. i - 1 \in 1 .. N /\ ~ (i <= i - 1)
  BY <1>4
<1>6. i - 1 \notin Differ
  BY <1>3, <1>5
<1>7. f[i - 1] = w[i - 1]
  BY <1>5, <1>6
<1>8. QED
  BY <1>4, <1>7

LEMMA WalkIs ==
    ASSUME NEW m, NEW l \in Lists, NEW s \in Seq(Nodes), Distinct(s), Forward(m, l, s)
    PROVE  Walk(m, l) = s
<1> DEFINE N == Cardinality(Nodes) + 1
           Goes(f) == f = [i \in 1 .. N |->
                              IF i = 1 THEN GetHead(m, l)
                              ELSE IF f[i - 1] = NULL THEN NULL ELSE GetNext(m, f[i - 1])]
           w == [i \in 1 .. N |-> IF i <= Len(s) THEN s[i] ELSE NULL]
<1>1. /\ N \in Nat /\ Len(s) + 1 <= N /\ Len(s) \in Nat
      /\ \A i \in 1 .. Len(s) : s[i] \in Nodes
  BY NodesSuffice, Elements
<1>2. ASSUME NEW i \in 1 .. N
      PROVE  w[i] = IF i = 1 THEN GetHead(m, l)
                    ELSE IF w[i - 1] = NULL THEN NULL ELSE GetNext(m, w[i - 1])
  <2> HIDE DEF N
  <2>1. w[i] = IF i <= Len(s) THEN s[i] ELSE NULL
    OBVIOUS
  <2>2. CASE i = 1
    BY <1>1, <2>1, <2>2, GetHeadIs
  <2>3. CASE i # 1
    <3>1. i - 1 \in 1 .. N /\ i \in Nat
      BY <1>1, <2>3
    <3>2. w[i - 1] = IF i - 1 <= Len(s) THEN s[i - 1] ELSE NULL
      BY <3>1
    <3>3. CASE i - 1 <= Len(s)
      <4>1. i - 1 \in 1 .. Len(s)
        BY <1>1, <3>1, <3>3
      <4>2. GetNext(m, s[i - 1]) = IF i - 1 = Len(s) THEN NULL ELSE s[(i - 1) + 1]
        BY <4>1, GetNextIs
      <4>3. s[i - 1] # NULL
        BY <1>1, <4>1, AddressFacts
      <4>4. (i - 1) + 1 = i /\ (i <= Len(s) <=> i - 1 # Len(s))
        BY <1>1, <3>1, <3>3
      <4>5. QED
        BY <2>1, <2>3, <3>2, <3>3, <4>2, <4>3, <4>4
    <3>4. CASE ~ (i - 1 <= Len(s))
      <4>1. ~ (i <= Len(s))
        BY <1>1, <3>1, <3>4
      <4>2. QED
        BY <2>1, <2>3, <3>2, <3>4, <4>1
    <3>5. QED
      BY <3>3, <3>4
  <2>4. QED
    BY <2>2, <2>3
<1>3. Goes(w)
  <2>1. w = [i \in 1 .. N |-> w[i]]
    OBVIOUS
  <2> HIDE DEF w, N
  <2>2. QED
    BY <1>2, <2>1
<1> DEFINE at == Forth(m, l)
<1>4. at = CHOOSE f : Goes(f)
  BY DEF Forth
<1>5. Goes(at)
  <2> HIDE DEF Goes, w, at
  <2>1. QED
    BY <1>3, <1>4
<1> HIDE DEF at
<1>6. DOMAIN at = 1 .. N
  BY <1>5
<1>7. \A i \in 1 .. N : at[i] = IF i = 1 THEN GetHead(m, l)
                                ELSE IF at[i - 1] = NULL THEN NULL ELSE GetNext(m, at[i - 1])
  BY <1>5
<1> HIDE DEF N, w, Goes
<1>8. \A i \in 1 .. N : at[i] = w[i]
  <2>1. 1 <= N => at[1] = w[1]
    BY <1>1, <1>2, <1>7
  <2>2. \A i \in 1 .. N : i # 1 /\ at[i - 1] = w[i - 1] => at[i] = w[i]
    BY <1>2, <1>7
  <2>3. StepsAlike(N, at, w)
    BY <2>1, <2>2 DEF StepsAlike
  <2>4. QED
    BY <1>1, <2>3, Unrolled
<1>9. Visits(at, s)
  BY <1>8 DEF Visits, w, N
<1>10. DOMAIN at = 1 .. Cardinality(Nodes) + 1
  BY <1>6 DEF N
<1>11. UntilNull(at) = s
  BY <1>9, <1>10, VisitsAll
<1>12. QED
  BY <1>11 DEF Walk, at

\* The walk back is the same list, reversed.
LEMMA BackwardAt ==
    ASSUME NEW m, NEW l \in Lists, NEW s \in Seq(Nodes), Backward(m, l, s)
    PROVE  /\ PrevNode(m, AtBack(l)) = IF Len(s) = 0 THEN NULL ELSE s[Len(s)]
           /\ \A i \in 1 .. Len(s) : PrevNode(m, s[i]) = IF i = 1 THEN NULL ELSE s[i - 1]
           /\ prev(m, AtBack(l)) = At(l, s, Len(s))
<1>1. Len(s) \in Nat /\ \A i \in 1 .. Len(s) : s[i] \in Nodes
  BY Elements
<1>2. prev(m, AtBack(l)) = At(l, s, Len(s))
  <2>1. Len(s) \in 0 .. Len(s) /\ At(l, s, Len(s) + 1) = AtBack(l)
    BY <1>1 DEF At
  <2>2. prev(m, At(l, s, Len(s) + 1)) = At(l, s, Len(s))
    BY <2>1 DEF Backward
  <2>3. QED
    BY <2>1, <2>2
<1>3. PrevNode(m, AtBack(l)) = IF Len(s) = 0 THEN NULL ELSE s[Len(s)]
  <2>1. CASE Len(s) = 0
    <3>1. At(l, s, Len(s)) = AtFront(l)
      BY <2>1 DEF At
    <3>2. QED
      BY <1>2, <2>1, <3>1, AddressFacts DEF PrevNode
  <2>2. CASE Len(s) # 0
    <3>1. At(l, s, Len(s)) = s[Len(s)] /\ s[Len(s)] \in Nodes
      BY <1>1, <2>2 DEF At
    <3>2. AtBack(l) # NULL
      BY AddressFacts
    <3>3. QED
      BY <1>2, <2>2, <3>1, <3>2 DEF PrevNode
  <2>3. QED
    BY <2>1, <2>2
<1>4. ASSUME NEW i \in 1 .. Len(s)
      PROVE  PrevNode(m, s[i]) = IF i = 1 THEN NULL ELSE s[i - 1]
  <2>1. i - 1 \in 0 .. Len(s) /\ (i - 1) + 1 = i /\ i \in 0 .. (Len(s) + 1)
        /\ i - 1 \in 0 .. (Len(s) + 1)
    BY <1>1
  <2>2. prev(m, At(l, s, i)) = At(l, s, i - 1)
    BY <2>1 DEF Backward
  <2>3. At(l, s, i) = s[i] /\ s[i] # NULL
    BY <2>1, Positions
  <2>4. CASE i = 1
    <3>1. At(l, s, i - 1) = AtFront(l)
      BY <2>4 DEF At
    <3>2. QED
      BY <2>2, <2>3, <2>4, <3>1, AddressFacts DEF PrevNode
  <2>5. CASE i # 1
    <3>1. i - 1 \in 1 .. Len(s)
      BY <1>1, <2>5
    <3>2. At(l, s, i - 1) = s[i - 1] /\ s[i - 1] \in Nodes
      BY <2>1, <3>1, Positions
    <3>3. QED
      BY <2>2, <2>3, <2>5, <3>2 DEF PrevNode
  <2>6. QED
    BY <2>4, <2>5
<1>5. QED
  BY <1>2, <1>3, <1>4

LEMMA Reversed ==
    ASSUME NEW s \in Seq(Nodes)
    PROVE  /\ Reverse(s) \in Seq(Nodes)
           /\ Len(Reverse(s)) = Len(s)
           /\ \A i \in 1 .. Len(s) : Reverse(s)[i] = s[Len(s) - i + 1]
           /\ Distinct(s) => Distinct(Reverse(s))
<1> DEFINE z == Reverse(s)
           N == Len(s)
<1>1. N \in Nat /\ \A i \in 1 .. N : s[i] \in Nodes
  BY Elements
<1>2. \A i \in 1 .. N : N - i + 1 \in 1 .. N
  BY <1>1
<1>3. z = [i \in 1 .. N |-> s[N - i + 1]]
  BY DEF Reverse
<1> HIDE DEF z, N
<1>4. z \in [1 .. N -> Nodes] /\ \A i \in 1 .. N : z[i] = s[N - i + 1]
  BY <1>1, <1>2, <1>3
<1>5. z \in Seq(Nodes) /\ Len(z) = N
  BY <1>1, <1>4
<1>6. ASSUME Distinct(s)
      PROVE  Distinct(z)
  <2>1. ASSUME NEW i \in 1 .. N, NEW j \in 1 .. N, z[i] = z[j]
        PROVE  i = j
    <3>1. s[N - i + 1] = s[N - j + 1]
      BY <1>4, <2>1
    <3>2. N - i + 1 = N - j + 1
      BY <1>2, <1>6, <3>1 DEF Distinct, N
    <3>3. QED
      BY <1>1, <3>2
  <2>2. QED
    BY <1>5, <2>1 DEF Distinct
<1>7. QED
  BY <1>4, <1>5, <1>6 DEF z, N

LEMMA WalkBackIs ==
    ASSUME NEW m, NEW l \in Lists, NEW s \in Seq(Nodes), Distinct(s), Backward(m, l, s)
    PROVE  WalkBack(m, l) = Reverse(s)
<1> DEFINE N == Cardinality(Nodes) + 1
           z == Reverse(s)
           Goes(f) == f = [i \in 1 .. N |-> PrevNode(m, IF i = 1 THEN AtBack(l) ELSE f[i - 1])]
           w == [i \in 1 .. N |-> IF i <= Len(s) THEN z[i] ELSE NULL]
<1>1. /\ N \in Nat /\ Len(s) + 1 <= N /\ Len(s) \in Nat
      /\ \A i \in 1 .. Len(s) : s[i] \in Nodes
  BY NodesSuffice, Elements
<1>2. z \in Seq(Nodes) /\ Len(z) = Len(s) /\ Distinct(z)
      /\ \A i \in 1 .. Len(s) : z[i] = s[Len(s) - i + 1]
  BY Reversed
<1> HIDE DEF z
<1>3. ASSUME NEW i \in 1 .. N
      PROVE  w[i] = PrevNode(m, IF i = 1 THEN AtBack(l) ELSE w[i - 1])
  <2> HIDE DEF N
  <2>1. w[i] = IF i <= Len(s) THEN z[i] ELSE NULL
    OBVIOUS
  <2>2. CASE i = 1
    <3>1. i <= Len(s) => i \in 1 .. Len(s) /\ Len(s) - i + 1 = Len(s)
      BY <1>1, <2>2
    <3>2. i <= Len(s) <=> Len(s) # 0
      BY <1>1, <2>2
    <3>3. i <= Len(s) => z[i] = s[Len(s)]
      BY <1>2, <3>1
    <3>4. PrevNode(m, AtBack(l)) = IF Len(s) = 0 THEN NULL ELSE s[Len(s)]
      BY BackwardAt
    <3>5. QED
      BY <2>1, <2>2, <3>2, <3>3, <3>4
  <2>3. CASE i # 1
    <3>1. i - 1 \in 1 .. N /\ i \in Nat
      BY <1>1, <2>3
    <3>2. w[i - 1] = IF i - 1 <= Len(s) THEN z[i - 1] ELSE NULL
      BY <3>1
    <3>3. CASE i - 1 <= Len(s)
      <4> DEFINE k == Len(s) - i + 2
      <4>1. i - 1 \in 1 .. Len(s) /\ k \in 1 .. Len(s) /\ Len(s) - (i - 1) + 1 = k
        BY <1>1, <3>1, <3>3
      <4>2. w[i - 1] = s[k]
        BY <1>2, <3>2, <3>3, <4>1
      <4>3. (k = 1 <=> ~ (i <= Len(s))) /\ k - 1 = Len(s) - i + 1
        BY <1>1, <3>1, <3>3
      <4>4. i <= Len(s) => z[i] = s[k - 1]
        <5>1. i <= Len(s) => i \in 1 .. Len(s)
          BY <1>1, <3>1, <3>3
        <5>2. QED
          BY <1>2, <4>3, <5>1
      <4> HIDE DEF k
      <4>5. PrevNode(m, s[k]) = IF k = 1 THEN NULL ELSE s[k - 1]
        BY <4>1, BackwardAt
      <4>6. QED
        BY <2>1, <2>3, <4>2, <4>3, <4>4, <4>5
    <3>4. CASE ~ (i - 1 <= Len(s))
      <4>1. ~ (i <= Len(s))
        BY <1>1, <3>1, <3>4
      <4>2. PrevNode(m, NULL) = NULL
        BY DEF PrevNode
      <4>3. QED
        BY <2>1, <2>3, <3>2, <3>4, <4>1, <4>2
    <3>5. QED
      BY <3>3, <3>4
  <2>4. QED
    BY <2>2, <2>3
<1>4. Goes(w)
  <2>1. w = [i \in 1 .. N |-> w[i]]
    OBVIOUS
  <2> HIDE DEF w, N
  <2>2. QED
    BY <1>3, <2>1
<1> DEFINE at == Back(m, l)
<1>5. at = CHOOSE f : Goes(f)
  BY DEF Back
<1>6. Goes(at)
  <2> HIDE DEF Goes, w, at
  <2>1. QED
    BY <1>4, <1>5
<1> HIDE DEF at
<1>7. DOMAIN at = 1 .. N
  BY <1>6
<1>8. \A i \in 1 .. N : at[i] = PrevNode(m, IF i = 1 THEN AtBack(l) ELSE at[i - 1])
  BY <1>6
<1> HIDE DEF N, w, Goes
<1>9. \A i \in 1 .. N : at[i] = w[i]
  <2>1. 1 <= N => at[1] = w[1]
    BY <1>1, <1>3, <1>8
  <2>2. \A i \in 1 .. N : i # 1 /\ at[i - 1] = w[i - 1] => at[i] = w[i]
    BY <1>3, <1>8
  <2>3. StepsAlike(N, at, w)
    BY <2>1, <2>2 DEF StepsAlike
  <2>4. QED
    BY <1>1, <2>3, Unrolled
<1>10. Visits(at, z)
  BY <1>2, <1>9 DEF Visits, w, N
<1>11. DOMAIN at = 1 .. Cardinality(Nodes) + 1
  BY <1>7 DEF N
<1>12. UntilNull(at) = z
  BY <1>2, <1>10, <1>11, VisitsAll
<1>13. QED
  BY <1>12 DEF WalkBack, at, z

-----------------------------------------------------------------------------
(***************************************************************************)
(* What taking a node out and putting one in does to the chains.           *)
(***************************************************************************)
LEMMA RemovedPositions ==
    ASSUME NEW l \in Lists, NEW s \in Seq(Nodes), NEW k \in 1 .. Len(s),
           NEW t \in Seq(Nodes), Removed(s, k, t), NEW i \in 0 .. Len(s)
    PROVE  At(l, t, i) = IF i < k THEN At(l, s, i) ELSE At(l, s, i + 1)
<1>1. Len(s) \in Nat /\ Len(t) = Len(s) - 1
  BY Elements DEF Removed
<1>2. i \in 1 .. (Len(s) - 1) => t[i] = IF i < k THEN s[i] ELSE s[i + 1]
  BY DEF Removed
<1> DEFINE N == Len(s)
           M == Len(t)
<1>3. /\ N \in Nat /\ M = N - 1 /\ k \in 1 .. N /\ i \in 0 .. N
      /\ i \in 1 .. (N - 1) => t[i] = IF i < k THEN s[i] ELSE s[i + 1]
  BY <1>1, <1>2
<1>4. At(l, t, i) = IF i = 0 THEN AtFront(l) ELSE IF i = M + 1 THEN AtBack(l) ELSE t[i]
  BY DEF At
<1>5. \A j : At(l, s, j) = IF j = 0 THEN AtFront(l) ELSE IF j = N + 1 THEN AtBack(l) ELSE s[j]
  BY DEF At
<1> HIDE DEF N, M
<1>6. CASE i = 0
  BY <1>3, <1>4, <1>5, <1>6
<1>7. CASE i = N
  BY <1>3, <1>4, <1>5, <1>7
<1>8. CASE i \in 1 .. (N - 1)
  BY <1>3, <1>4, <1>5, <1>8
<1>9. QED
  BY <1>3, <1>6, <1>7, <1>8

LEMMA InsertedPositions ==
    ASSUME NEW l \in Lists, NEW s \in Seq(Nodes), NEW k \in 1 .. (Len(s) + 1), NEW n,
           NEW t \in Seq(Nodes), Inserted(s, k, n, t), NEW i \in 0 .. (Len(s) + 2)
    PROVE  At(l, t, i) = IF i < k THEN At(l, s, i)
                         ELSE IF i = k THEN n ELSE At(l, s, i - 1)
<1>1. Len(s) \in Nat /\ Len(t) = Len(s) + 1
  BY Elements DEF Inserted
<1>2. i \in 1 .. (Len(s) + 1) =>
         t[i] = IF i < k THEN s[i] ELSE IF i = k THEN n ELSE s[i - 1]
  BY DEF Inserted
<1> DEFINE N == Len(s)
           M == Len(t)
<1>3. /\ N \in Nat /\ M = N + 1 /\ k \in 1 .. (N + 1) /\ i \in 0 .. (N + 2)
      /\ i \in 1 .. (N + 1) => t[i] = IF i < k THEN s[i] ELSE IF i = k THEN n ELSE s[i - 1]
  BY <1>1, <1>2
<1>4. At(l, t, i) = IF i = 0 THEN AtFront(l) ELSE IF i = M + 1 THEN AtBack(l) ELSE t[i]
  BY DEF At
<1>5. \A j : At(l, s, j) = IF j = 0 THEN AtFront(l) ELSE IF j = N + 1 THEN AtBack(l) ELSE s[j]
  BY DEF At
<1> HIDE DEF N, M
<1>6. CASE i = 0
  BY <1>3, <1>4, <1>5, <1>6
<1>7. CASE i = N + 2
  BY <1>3, <1>4, <1>5, <1>7
<1>8. CASE i \in 1 .. (N + 1)
  BY <1>3, <1>4, <1>5, <1>8
<1>9. QED
  BY <1>3, <1>6, <1>7, <1>8

\* One next pointer is written and none of the others; one prev pointer is.
NextAs(m, g, a, v) ==
    \A p \in Addresses : next(g, p) = IF p = a THEN v ELSE next(m, p)

PrevAs(m, g, b, v) ==
    \A p \in Addresses : prev(g, p) = IF p = b THEN v ELSE prev(m, p)

LEMMA ForwardRemoved ==
    ASSUME NEW m, NEW g, NEW r, Apart(r), Forwards(m, r),
           NEW l \in Lists, NEW k \in 1 .. Len(r[l]),
           NextAs(m, g, At(l, r[l], k - 1), At(l, r[l], k + 1))
    PROVE  Forwards(g, [r EXCEPT ![l] = RemoveAt(r[l], k)])
<1> DEFINE s == r[l]
           t == RemoveAt(s, k)
           N == Len(s)
           a == At(l, s, k - 1)
           u == [r EXCEPT ![l] = t]
<1>1. r \in [Lists -> Seq(Nodes)] /\ s \in Seq(Nodes)
  BY DEF Apart
<1>2. N \in Nat /\ k \in 1 .. N
  BY <1>1, Elements
<1>3. t \in Seq(Nodes) /\ Removed(s, k, t)
  BY <1>1, RemovedAt
<1>4. Len(t) = N - 1
  BY <1>3 DEF Removed
<1>5. \A p \in Addresses : next(g, p) = IF p = a THEN At(l, s, k + 1) ELSE next(m, p)
  BY DEF NextAs
<1>6. ASSUME NEW h \in Lists, NEW i \in 0 .. (Len(r[h]) + 1)
      PROVE  At(h, r[h], i) \in Addresses /\ (At(h, r[h], i) = a => h = l /\ i = k - 1)
  <2>1. r[h] \in Seq(Nodes) /\ k - 1 \in 0 .. (Len(r[l]) + 1)
    BY <1>1, <1>2
  <2>2. At(h, r[h], i) \in Addresses
    BY <2>1, Positions
  <2>3. At(h, r[h], i) = a => h = l /\ i = k - 1
    BY <2>1, PositionsApart
  <2>4. QED
    BY <2>2, <2>3
<1>7. \A i \in 0 .. N : At(l, t, i) = IF i < k THEN At(l, s, i) ELSE At(l, s, i + 1)
  BY <1>1, <1>3, RemovedPositions
<1>8. ASSUME NEW h \in Lists
      PROVE  /\ AtBack(h) # a
             /\ next(g, AtBack(h)) = NULL
             /\ \A i \in 0 .. Len(r[h]) : next(m, At(h, r[h], i)) = At(h, r[h], i + 1)
  <2>1. r[h] \in Seq(Nodes) /\ k - 1 \in 0 .. (Len(r[l]) + 1) /\ k - 1 # Len(r[l]) + 1
    BY <1>1, <1>2
  <2>2. AtBack(h) # a
    <3>1. r[l] \in Seq(Nodes)
      BY <1>1
    <3>2. \A f \in Lists : At(l, r[l], k - 1) # AtBack(f)
      BY <2>1, <3>1, Positions
    <3>3. QED
      BY <3>2
  <2>3. AtBack(h) \in Addresses
    BY AddressFacts
  <2>4. Forward(m, h, r[h])
    BY DEF Forwards
  <2>5. /\ next(m, AtBack(h)) = NULL
        /\ \A i \in 0 .. Len(r[h]) : next(m, At(h, r[h], i)) = At(h, r[h], i + 1)
    BY <2>4 DEF Forward
  <2> HIDE DEF a
  <2>6. next(g, AtBack(h)) = NULL
    BY <1>5, <2>2, <2>3, <2>5
  <2>7. QED
    BY <2>2, <2>5, <2>6
<1> HIDE DEF a
<1>9. Forward(g, l, t)
  <2>1. ASSUME NEW i \in 0 .. (N - 1)
        PROVE  next(g, At(l, t, i)) = At(l, t, i + 1)
    <3>1. /\ i \in 0 .. N /\ i + 1 \in 0 .. N /\ i \in 0 .. (N + 1) /\ i + 1 \in 0 .. (N + 1)
          /\ i \in Nat /\ k \in Nat /\ k >= 1
      BY <1>2
    <3>2. CASE i < k - 1
      <4>1. i < k /\ i + 1 < k /\ i # k - 1
        BY <3>1, <3>2
      <4>2. At(l, t, i) = At(l, s, i) /\ At(l, t, i + 1) = At(l, s, i + 1)
        BY <1>7, <3>1, <4>1
      <4>3. At(l, s, i) \in Addresses /\ At(l, s, i) # a
        BY <1>6, <3>1, <4>1
      <4>4. QED
        BY <1>5, <1>8, <3>1, <4>2, <4>3
    <3>3. CASE i = k - 1
      <4>1. i < k /\ ~ (i + 1 < k) /\ (i + 1) + 1 = k + 1
        BY <3>1, <3>3
      <4>2. At(l, t, i) = At(l, s, k - 1) /\ At(l, t, i + 1) = At(l, s, k + 1)
        BY <1>7, <3>1, <3>3, <4>1
      <4>3. At(l, s, k - 1) \in Addresses
        BY <1>6, <3>1, <3>3
      <4>4. QED
        BY <1>5, <4>2, <4>3 DEF a
    <3>4. CASE i > k - 1
      <4>1. ~ (i < k) /\ ~ (i + 1 < k) /\ i + 1 # k - 1
        BY <3>1, <3>4
      <4>2. At(l, t, i) = At(l, s, i + 1) /\ At(l, t, i + 1) = At(l, s, (i + 1) + 1)
        BY <1>7, <3>1, <4>1
      <4>3. At(l, s, i + 1) \in Addresses /\ At(l, s, i + 1) # a
        BY <1>6, <3>1, <4>1
      <4>4. QED
        BY <1>5, <1>8, <3>1, <4>2, <4>3
    <3>5. QED
      BY <3>1, <3>2, <3>3, <3>4
  <2>2. QED
    BY <1>4, <1>8, <2>1 DEF Forward
<1>10. ASSUME NEW h \in Lists, h # l
       PROVE  Forward(g, h, r[h])
  <2>1. ASSUME NEW i \in 0 .. Len(r[h])
        PROVE  next(g, At(h, r[h], i)) = At(h, r[h], i + 1)
    <3>1. i \in 0 .. (Len(r[h]) + 1)
      BY <1>1, Elements
    <3>2. At(h, r[h], i) \in Addresses /\ At(h, r[h], i) # a
      BY <1>6, <1>10, <3>1
    <3>3. QED
      BY <1>5, <1>8, <3>2
  <2>2. QED
    BY <1>8, <2>1 DEF Forward
<1> HIDE DEF s, t
<1>11. \A h \in Lists : u[h] = IF h = l THEN t ELSE r[h]
  BY <1>1
<1> HIDE DEF u
<1>12. Forwards(g, u)
  BY <1>9, <1>10, <1>11 DEF Forwards
<1>13. QED
  BY <1>12 DEF u, t, s

LEMMA BackwardRemoved ==
    ASSUME NEW m, NEW g, NEW r, Apart(r), Backwards(m, r),
           NEW l \in Lists, NEW k \in 1 .. Len(r[l]),
           PrevAs(m, g, At(l, r[l], k + 1), At(l, r[l], k - 1))
    PROVE  Backwards(g, [r EXCEPT ![l] = RemoveAt(r[l], k)])
<1> DEFINE s == r[l]
           t == RemoveAt(s, k)
           N == Len(s)
           b == At(l, s, k + 1)
           u == [r EXCEPT ![l] = t]
<1>1. r \in [Lists -> Seq(Nodes)] /\ s \in Seq(Nodes)
  BY DEF Apart
<1>2. N \in Nat /\ k \in 1 .. N
  BY <1>1, Elements
<1>3. t \in Seq(Nodes) /\ Removed(s, k, t)
  BY <1>1, RemovedAt
<1>4. Len(t) = N - 1
  BY <1>3 DEF Removed
<1>5. \A p \in Addresses : prev(g, p) = IF p = b THEN At(l, s, k - 1) ELSE prev(m, p)
  BY DEF PrevAs
<1>6. ASSUME NEW h \in Lists, NEW i \in 0 .. (Len(r[h]) + 1)
      PROVE  At(h, r[h], i) \in Addresses /\ (At(h, r[h], i) = b => h = l /\ i = k + 1)
  <2>1. r[h] \in Seq(Nodes) /\ k + 1 \in 0 .. (Len(r[l]) + 1)
    BY <1>1, <1>2
  <2>2. At(h, r[h], i) \in Addresses
    BY <2>1, Positions
  <2>3. At(h, r[h], i) = b => h = l /\ i = k + 1
    BY <2>1, PositionsApart
  <2>4. QED
    BY <2>2, <2>3
<1>7. \A i \in 0 .. N : At(l, t, i) = IF i < k THEN At(l, s, i) ELSE At(l, s, i + 1)
  BY <1>1, <1>3, RemovedPositions
<1>8. ASSUME NEW h \in Lists
      PROVE  \A i \in 0 .. Len(r[h]) : prev(m, At(h, r[h], i + 1)) = At(h, r[h], i)
  BY DEF Backwards, Backward
<1> HIDE DEF b
<1>9. Backward(g, l, t)
  <2>1. ASSUME NEW i \in 0 .. (N - 1)
        PROVE  prev(g, At(l, t, i + 1)) = At(l, t, i)
    <3>1. /\ i \in 0 .. N /\ i + 1 \in 0 .. N /\ i + 1 \in 0 .. (N + 1)
          /\ (i + 1) + 1 \in 0 .. (N + 1)
          /\ i \in Nat /\ k \in Nat /\ k >= 1
      BY <1>2
    <3>2. CASE i < k - 1
      <4>1. i < k /\ i + 1 < k /\ i + 1 # k + 1
        BY <3>1, <3>2
      <4>2. At(l, t, i) = At(l, s, i) /\ At(l, t, i + 1) = At(l, s, i + 1)
        BY <1>7, <3>1, <4>1
      <4>3. At(l, s, i + 1) \in Addresses /\ At(l, s, i + 1) # b
        BY <1>6, <3>1, <4>1
      <4>4. QED
        BY <1>5, <1>8, <3>1, <4>2, <4>3
    <3>3. CASE i = k - 1
      <4>1. i < k /\ ~ (i + 1 < k) /\ (i + 1) + 1 = k + 1
        BY <3>1, <3>3
      <4>2. At(l, t, i) = At(l, s, k - 1) /\ At(l, t, i + 1) = At(l, s, k + 1)
        BY <1>7, <3>1, <3>3, <4>1
      <4>3. At(l, s, k + 1) \in Addresses
        BY <1>6, <3>1, <4>1
      <4>4. QED
        BY <1>5, <4>2, <4>3 DEF b
    <3>4. CASE i > k - 1
      <4>1. ~ (i < k) /\ ~ (i + 1 < k) /\ (i + 1) + 1 # k + 1
        BY <3>1, <3>4
      <4>2. At(l, t, i) = At(l, s, i + 1) /\ At(l, t, i + 1) = At(l, s, (i + 1) + 1)
        BY <1>7, <3>1, <4>1
      <4>3. At(l, s, (i + 1) + 1) \in Addresses /\ At(l, s, (i + 1) + 1) # b
        BY <1>6, <3>1, <4>1
      <4>4. QED
        BY <1>5, <1>8, <3>1, <4>2, <4>3
    <3>5. QED
      BY <3>1, <3>2, <3>3, <3>4
  <2>2. QED
    BY <1>4, <2>1 DEF Backward
<1>10. ASSUME NEW h \in Lists, h # l
       PROVE  Backward(g, h, r[h])
  <2>1. ASSUME NEW i \in 0 .. Len(r[h])
        PROVE  prev(g, At(h, r[h], i + 1)) = At(h, r[h], i)
    <3>1. i + 1 \in 0 .. (Len(r[h]) + 1)
      BY <1>1, Elements
    <3>2. At(h, r[h], i + 1) \in Addresses /\ At(h, r[h], i + 1) # b
      BY <1>6, <1>10, <3>1
    <3>3. QED
      BY <1>5, <1>8, <3>2
  <2>2. QED
    BY <2>1 DEF Backward
<1> HIDE DEF s, t
<1>11. \A h \in Lists : u[h] = IF h = l THEN t ELSE r[h]
  BY <1>1
<1> HIDE DEF u
<1>12. Backwards(g, u)
  BY <1>9, <1>10, <1>11 DEF Backwards
<1>13. QED
  BY <1>12 DEF u, t, s

\* n is in no list.
Unlinked(q, n) == \A l \in Lists : \A i \in 1 .. Len(q[l]) : q[l][i] # n

LEMMA UnlinkedPositions ==
    ASSUME NEW q, Apart(q), NEW n \in Nodes, Unlinked(q, n),
           NEW l \in Lists, NEW i \in 0 .. (Len(q[l]) + 1)
    PROVE  At(l, q[l], i) # n
<1>1. q[l] \in Seq(Nodes) /\ Len(q[l]) \in Nat
  BY Elements DEF Apart
<1>2. CASE i = 0
  BY <1>2, AddressFacts DEF At
<1>3. CASE i = Len(q[l]) + 1
  BY <1>1, <1>3, AddressFacts DEF At
<1>4. CASE i \in 1 .. Len(q[l])
  BY <1>1, <1>4, Positions DEF Unlinked
<1>5. QED
  BY <1>1, <1>2, <1>3, <1>4

\* The node n is linked between the nodes at a and b.
NextSpliced(m, g, n, a, b) ==
    \A p \in Addresses :
       next(g, p) = IF p = a THEN n ELSE IF p = n THEN b ELSE next(m, p)

PrevSpliced(m, g, n, a, b) ==
    \A p \in Addresses :
       prev(g, p) = IF p = b THEN n ELSE IF p = n THEN a ELSE prev(m, p)

LEMMA ForwardInserted ==
    ASSUME NEW m, NEW g, NEW r, Apart(r), Forwards(m, r),
           NEW l \in Lists, NEW k \in 1 .. (Len(r[l]) + 1),
           NEW n \in Nodes, Unlinked(r, n),
           NextSpliced(m, g, n, At(l, r[l], k - 1), At(l, r[l], k))
    PROVE  Forwards(g, [r EXCEPT ![l] = InsertAt(r[l], k, n)])
<1> DEFINE s == r[l]
           t == InsertAt(s, k, n)
           N == Len(s)
           a == At(l, s, k - 1)
           u == [r EXCEPT ![l] = t]
<1>1. r \in [Lists -> Seq(Nodes)] /\ s \in Seq(Nodes)
  BY DEF Apart
<1>2. N \in Nat /\ k \in 1 .. (N + 1)
  BY <1>1, Elements
<1>3. t \in Seq(Nodes) /\ Inserted(s, k, n, t)
  BY <1>1, InsertedAt
<1>4. Len(t) = N + 1
  BY <1>3 DEF Inserted
<1>5. \A p \in Addresses :
         next(g, p) = IF p = a THEN n ELSE IF p = n THEN At(l, s, k) ELSE next(m, p)
  BY DEF NextSpliced
<1>6. ASSUME NEW h \in Lists, NEW i \in 0 .. (Len(r[h]) + 1)
      PROVE  /\ At(h, r[h], i) \in Addresses
             /\ At(h, r[h], i) = a => h = l /\ i = k - 1
             /\ At(h, r[h], i) # n
  <2>1. r[h] \in Seq(Nodes) /\ k - 1 \in 0 .. (Len(r[l]) + 1)
    BY <1>1, <1>2
  <2>2. At(h, r[h], i) \in Addresses
    BY <2>1, Positions
  <2>3. At(h, r[h], i) = a => h = l /\ i = k - 1
    BY <2>1, PositionsApart
  <2>4. At(h, r[h], i) # n
    BY UnlinkedPositions
  <2>5. QED
    BY <2>2, <2>3, <2>4
<1>7. \A i \in 0 .. (N + 2) : At(l, t, i) = IF i < k THEN At(l, s, i)
                                            ELSE IF i = k THEN n ELSE At(l, s, i - 1)
  BY <1>1, <1>3, InsertedPositions
<1>8. a # n /\ n \in Addresses
  <2>1. k - 1 \in 0 .. (N + 1)
    BY <1>2
  <2>2. QED
    BY <1>6, <2>1, AddressFacts
<1>9. ASSUME NEW h \in Lists
      PROVE  /\ next(g, AtBack(h)) = NULL
             /\ \A i \in 0 .. Len(r[h]) : next(m, At(h, r[h], i)) = At(h, r[h], i + 1)
  <2>1. k - 1 \in 0 .. (Len(r[l]) + 1) /\ k - 1 # Len(r[l]) + 1
    BY <1>1, <1>2
  <2>2. AtBack(h) # a
    <3>1. r[l] \in Seq(Nodes)
      BY <1>1
    <3>2. \A f \in Lists : At(l, r[l], k - 1) # AtBack(f)
      BY <2>1, <3>1, Positions
    <3>3. QED
      BY <3>2
  <2>3. AtBack(h) \in Addresses /\ AtBack(h) # n
    BY AddressFacts
  <2>4. Forward(m, h, r[h])
    BY DEF Forwards
  <2>5. /\ next(m, AtBack(h)) = NULL
        /\ \A i \in 0 .. Len(r[h]) : next(m, At(h, r[h], i)) = At(h, r[h], i + 1)
    BY <2>4 DEF Forward
  <2> HIDE DEF a
  <2>6. next(g, AtBack(h)) = NULL
    BY <1>5, <2>2, <2>3, <2>5
  <2>7. QED
    BY <2>5, <2>6
<1> HIDE DEF a
<1>10. Forward(g, l, t)
  <2>1. ASSUME NEW i \in 0 .. (N + 1)
        PROVE  next(g, At(l, t, i)) = At(l, t, i + 1)
    <3>1. /\ i \in 0 .. (N + 2) /\ i + 1 \in 0 .. (N + 2) /\ i \in 0 .. (N + 1)
          /\ i \in Nat /\ k \in Nat /\ k >= 1 /\ N \in Nat
      BY <1>2
    <3>2. CASE i < k - 1
      <4>1. i < k /\ i + 1 < k /\ i # k - 1 /\ i \in 0 .. N
        BY <1>2, <3>1, <3>2
      <4>2. At(l, t, i) = At(l, s, i) /\ At(l, t, i + 1) = At(l, s, i + 1)
        BY <1>7, <3>1, <4>1
      <4>3. At(l, s, i) \in Addresses /\ At(l, s, i) # a /\ At(l, s, i) # n
        BY <1>6, <3>1, <4>1
      <4>4. QED
        BY <1>5, <1>9, <4>1, <4>2, <4>3
    <3>3. CASE i = k - 1
      <4>1. i < k /\ ~ (i + 1 < k) /\ i + 1 = k
        BY <3>1, <3>3
      <4>2. At(l, t, i) = At(l, s, k - 1) /\ At(l, t, i + 1) = n
        BY <1>7, <3>1, <3>3, <4>1
      <4>3. At(l, s, k - 1) \in Addresses
        BY <1>6, <3>1, <3>3
      <4>4. QED
        BY <1>5, <4>2, <4>3 DEF a
    <3>4. CASE i = k
      <4>1. ~ (i < k) /\ ~ (i + 1 < k) /\ i + 1 # k /\ (i + 1) - 1 = k
        BY <3>1, <3>4
      <4>2. At(l, t, i) = n /\ At(l, t, i + 1) = At(l, s, k)
        BY <1>7, <3>1, <3>4, <4>1
      <4>3. QED
        BY <1>5, <1>8, <4>2
    <3>5. CASE i > k
      <4>1. /\ ~ (i < k) /\ i # k /\ ~ (i + 1 < k) /\ i + 1 # k /\ i - 1 # k - 1
            /\ (i + 1) - 1 = (i - 1) + 1 /\ i - 1 \in 0 .. N /\ i - 1 \in 0 .. (N + 1)
        BY <3>1, <3>5
      <4>2. At(l, t, i) = At(l, s, i - 1) /\ At(l, t, i + 1) = At(l, s, (i - 1) + 1)
        BY <1>7, <3>1, <4>1
      <4>3. At(l, s, i - 1) \in Addresses /\ At(l, s, i - 1) # a /\ At(l, s, i - 1) # n
        BY <1>6, <4>1
      <4>4. QED
        BY <1>5, <1>9, <4>1, <4>2, <4>3
    <3>6. QED
      BY <3>1, <3>2, <3>3, <3>4, <3>5
  <2>2. QED
    BY <1>4, <1>9, <2>1 DEF Forward
<1>11. ASSUME NEW h \in Lists, h # l
       PROVE  Forward(g, h, r[h])
  <2>1. ASSUME NEW i \in 0 .. Len(r[h])
        PROVE  next(g, At(h, r[h], i)) = At(h, r[h], i + 1)
    <3>1. i \in 0 .. (Len(r[h]) + 1)
      BY <1>1, Elements
    <3>2. At(h, r[h], i) \in Addresses /\ At(h, r[h], i) # a /\ At(h, r[h], i) # n
      BY <1>6, <1>11, <3>1
    <3>3. QED
      BY <1>5, <1>9, <3>2
  <2>2. QED
    BY <1>9, <2>1 DEF Forward
<1> HIDE DEF s, t
<1>12. \A h \in Lists : u[h] = IF h = l THEN t ELSE r[h]
  BY <1>1
<1> HIDE DEF u
<1>13. Forwards(g, u)
  BY <1>10, <1>11, <1>12 DEF Forwards
<1>14. QED
  BY <1>13 DEF u, t, s

LEMMA BackwardInserted ==
    ASSUME NEW m, NEW g, NEW r, Apart(r), Backwards(m, r),
           NEW l \in Lists, NEW k \in 1 .. (Len(r[l]) + 1),
           NEW n \in Nodes, Unlinked(r, n),
           PrevSpliced(m, g, n, At(l, r[l], k - 1), At(l, r[l], k))
    PROVE  Backwards(g, [r EXCEPT ![l] = InsertAt(r[l], k, n)])
<1> DEFINE s == r[l]
           t == InsertAt(s, k, n)
           N == Len(s)
           b == At(l, s, k)
           u == [r EXCEPT ![l] = t]
<1>1. r \in [Lists -> Seq(Nodes)] /\ s \in Seq(Nodes)
  BY DEF Apart
<1>2. N \in Nat /\ k \in 1 .. (N + 1)
  BY <1>1, Elements
<1>3. t \in Seq(Nodes) /\ Inserted(s, k, n, t)
  BY <1>1, InsertedAt
<1>4. Len(t) = N + 1
  BY <1>3 DEF Inserted
<1>5. \A p \in Addresses :
         prev(g, p) = IF p = b THEN n ELSE IF p = n THEN At(l, s, k - 1) ELSE prev(m, p)
  BY DEF PrevSpliced
<1>6. ASSUME NEW h \in Lists, NEW i \in 0 .. (Len(r[h]) + 1)
      PROVE  /\ At(h, r[h], i) \in Addresses
             /\ At(h, r[h], i) = b => h = l /\ i = k
             /\ At(h, r[h], i) # n
  <2>1. r[h] \in Seq(Nodes) /\ k \in 0 .. (Len(r[l]) + 1)
    BY <1>1, <1>2
  <2>2. At(h, r[h], i) \in Addresses
    BY <2>1, Positions
  <2>3. At(h, r[h], i) = b => h = l /\ i = k
    BY <2>1, PositionsApart
  <2>4. At(h, r[h], i) # n
    BY UnlinkedPositions
  <2>5. QED
    BY <2>2, <2>3, <2>4
<1>7. \A i \in 0 .. (N + 2) : At(l, t, i) = IF i < k THEN At(l, s, i)
                                            ELSE IF i = k THEN n ELSE At(l, s, i - 1)
  BY <1>1, <1>3, InsertedPositions
<1>8. b # n /\ n \in Addresses
  <2>1. k \in 0 .. (N + 1)
    BY <1>2
  <2>2. QED
    BY <1>6, <2>1, AddressFacts
<1>9. ASSUME NEW h \in Lists
      PROVE  \A i \in 0 .. Len(r[h]) : prev(m, At(h, r[h], i + 1)) = At(h, r[h], i)
  BY DEF Backwards, Backward
<1> HIDE DEF b
<1>10. Backward(g, l, t)
  <2>1. ASSUME NEW i \in 0 .. (N + 1)
        PROVE  prev(g, At(l, t, i + 1)) = At(l, t, i)
    <3>1. /\ i \in 0 .. (N + 2) /\ i + 1 \in 0 .. (N + 2) /\ i \in 0 .. (N + 1)
          /\ i \in Nat /\ k \in Nat /\ k >= 1 /\ N \in Nat /\ k \in 0 .. (N + 1)
      BY <1>2
    <3>2. CASE i < k - 1
      <4>1. i < k /\ i + 1 < k /\ i + 1 # k /\ i \in 0 .. N /\ i + 1 \in 0 .. (N + 1)
        BY <1>2, <3>1, <3>2
      <4>2. At(l, t, i) = At(l, s, i) /\ At(l, t, i + 1) = At(l, s, i + 1)
        BY <1>7, <3>1, <4>1
      <4>3. At(l, s, i + 1) \in Addresses /\ At(l, s, i + 1) # b /\ At(l, s, i + 1) # n
        BY <1>6, <4>1
      <4>4. QED
        BY <1>5, <1>9, <4>1, <4>2, <4>3
    <3>3. CASE i = k - 1
      <4>1. i < k /\ ~ (i + 1 < k) /\ i + 1 = k
        BY <3>1, <3>3
      <4>2. At(l, t, i) = At(l, s, k - 1) /\ At(l, t, i + 1) = n
        BY <1>7, <3>1, <3>3, <4>1
      <4>3. QED
        BY <1>5, <1>8, <4>2
    <3>4. CASE i = k
      <4>1. ~ (i < k) /\ ~ (i + 1 < k) /\ i + 1 # k /\ (i + 1) - 1 = k
        BY <3>1, <3>4
      <4>2. At(l, t, i) = n /\ At(l, t, i + 1) = At(l, s, k)
        BY <1>7, <3>1, <3>4, <4>1
      <4>3. At(l, s, k) \in Addresses
        BY <1>6, <3>1
      <4>4. QED
        BY <1>5, <4>2, <4>3 DEF b
    <3>5. CASE i > k
      <4>1. /\ ~ (i < k) /\ i # k /\ ~ (i + 1 < k) /\ i + 1 # k /\ (i - 1) + 1 # k
            /\ (i + 1) - 1 = (i - 1) + 1 /\ i - 1 \in 0 .. N /\ (i - 1) + 1 \in 0 .. (N + 1)
        BY <3>1, <3>5
      <4>2. At(l, t, i) = At(l, s, i - 1) /\ At(l, t, i + 1) = At(l, s, (i - 1) + 1)
        BY <1>7, <3>1, <4>1
      <4>3. /\ At(l, s, (i - 1) + 1) \in Addresses
            /\ At(l, s, (i - 1) + 1) # b
            /\ At(l, s, (i - 1) + 1) # n
        BY <1>6, <4>1
      <4>4. QED
        BY <1>5, <1>9, <4>1, <4>2, <4>3
    <3>6. QED
      BY <3>1, <3>2, <3>3, <3>4, <3>5
  <2>2. QED
    BY <1>4, <2>1 DEF Backward
<1>11. ASSUME NEW h \in Lists, h # l
       PROVE  Backward(g, h, r[h])
  <2>1. ASSUME NEW i \in 0 .. Len(r[h])
        PROVE  prev(g, At(h, r[h], i + 1)) = At(h, r[h], i)
    <3>1. i + 1 \in 0 .. (Len(r[h]) + 1)
      BY <1>1, Elements
    <3>2. /\ At(h, r[h], i + 1) \in Addresses
          /\ At(h, r[h], i + 1) # b
          /\ At(h, r[h], i + 1) # n
      BY <1>6, <1>11, <3>1
    <3>3. QED
      BY <1>5, <1>9, <3>2
  <2>2. QED
    BY <2>1 DEF Backward
<1> HIDE DEF s, t
<1>12. \A h \in Lists : u[h] = IF h = l THEN t ELSE r[h]
  BY <1>1
<1> HIDE DEF u
<1>13. Backwards(g, u)
  BY <1>10, <1>11, <1>12 DEF Backwards
<1>14. QED
  BY <1>13 DEF u, t, s

LEMMA ApartRemoved ==
    ASSUME NEW r, Apart(r), NEW l \in Lists, NEW k \in 1 .. Len(r[l])
    PROVE  /\ Apart([r EXCEPT ![l] = RemoveAt(r[l], k)])
           /\ Unlinked([r EXCEPT ![l] = RemoveAt(r[l], k)], r[l][k])
<1> DEFINE s == r[l]
           t == RemoveAt(s, k)
           N == Len(s)
           u == [r EXCEPT ![l] = t]
           old(h, i) == IF h = l /\ ~ (i < k) THEN i + 1 ELSE i
<1>1. r \in [Lists -> Seq(Nodes)] /\ s \in Seq(Nodes)
  BY DEF Apart
<1>2. N \in Nat /\ k \in 1 .. N /\ \A h \in Lists : Len(r[h]) \in Nat
  BY <1>1, Elements
<1>3. t \in Seq(Nodes) /\ Removed(s, k, t)
  BY <1>1, RemovedAt
<1>4. Len(t) = N - 1 /\ \A i \in 1 .. (N - 1) : t[i] = IF i < k THEN s[i] ELSE s[i + 1]
  BY <1>3 DEF Removed
<1> HIDE DEF t
<1>5. u \in [Lists -> Seq(Nodes)] /\ \A h \in Lists : u[h] = IF h = l THEN t ELSE r[h]
  BY <1>1, <1>3
<1> HIDE DEF u
<1>6. ASSUME NEW h \in Lists, NEW i \in 1 .. Len(u[h])
      PROVE  /\ old(h, i) \in 1 .. Len(r[h])
             /\ u[h][i] = r[h][old(h, i)]
             /\ ~ (h = l /\ old(h, i) = k)
  <2>1. CASE h = l
    <3>1. i \in 1 .. (N - 1) /\ u[h] = t
      BY <1>4, <1>5, <2>1
    <3>2. CASE i < k
      <4>1. i \in 1 .. N /\ i # k
        BY <1>2, <3>1, <3>2
      <4>2. QED
        BY <1>4, <2>1, <3>1, <3>2, <4>1
    <3>3. CASE ~ (i < k)
      <4>1. i + 1 \in 1 .. N /\ i + 1 # k
        BY <1>2, <3>1, <3>3
      <4>2. QED
        BY <1>4, <2>1, <3>1, <3>3, <4>1
    <3>4. QED
      BY <3>2, <3>3
  <2>2. CASE h # l
    BY <1>5, <2>2
  <2>3. QED
    BY <2>1, <2>2
<1>7. \A h \in Lists : \A i, j \in 1 .. Len(u[h]) : old(h, i) = old(h, j) => i = j
  <2>1. ASSUME NEW h \in Lists, NEW i \in 1 .. Len(u[h]), NEW j \in 1 .. Len(u[h]),
               old(h, i) = old(h, j)
        PROVE  i = j
    <3>1. i \in Int /\ j \in Int /\ k \in Int
      BY <1>2
    <3>2. QED
      BY <2>1, <3>1
  <2>2. QED
    BY <2>1
<1> HIDE DEF old
<1>8. ASSUME NEW f \in Lists, NEW h \in Lists,
             NEW i \in 1 .. Len(u[f]), NEW j \in 1 .. Len(u[h]), u[f][i] = u[h][j]
      PROVE  f = h /\ i = j
  <2>1. r[f][old(f, i)] = r[h][old(h, j)]
    BY <1>6, <1>8
  <2>2. f = h /\ old(f, i) = old(h, j)
    BY <1>6, <2>1, SMTT(60) DEF Apart
  <2>3. QED
    BY <1>7, <2>2
<1>9. Unlinked(u, s[k])
  <2>1. ASSUME NEW h \in Lists, NEW i \in 1 .. Len(u[h])
        PROVE  u[h][i] # s[k]
    <3>1. u[h][i] = r[h][old(h, i)] /\ old(h, i) \in 1 .. Len(r[h])
      BY <1>6
    <3>2. r[h][old(h, i)] = r[l][k] => h = l /\ old(h, i) = k
      BY <3>1 DEF Apart
    <3>3. QED
      BY <1>6, <3>1, <3>2
  <2>2. QED
    BY <2>1 DEF Unlinked
<1>10. Apart(u)
  BY <1>5, <1>8 DEF Apart
<1>11. QED
  BY <1>9, <1>10 DEF u, t

LEMMA ApartInserted ==
    ASSUME NEW r, Apart(r), NEW l \in Lists, NEW k \in 1 .. (Len(r[l]) + 1),
           NEW n \in Nodes, Unlinked(r, n)
    PROVE  Apart([r EXCEPT ![l] = InsertAt(r[l], k, n)])
<1> DEFINE s == r[l]
           t == InsertAt(s, k, n)
           N == Len(s)
           u == [r EXCEPT ![l] = t]
           old(h, i) == IF h = l /\ i > k THEN i - 1 ELSE i
<1>1. r \in [Lists -> Seq(Nodes)] /\ s \in Seq(Nodes)
  BY DEF Apart
<1>2. N \in Nat /\ k \in 1 .. (N + 1) /\ \A h \in Lists : Len(r[h]) \in Nat
  BY <1>1, Elements
<1>3. t \in Seq(Nodes) /\ Inserted(s, k, n, t)
  BY <1>1, InsertedAt
<1>4. /\ Len(t) = N + 1
      /\ \A i \in 1 .. (N + 1) : t[i] = IF i < k THEN s[i] ELSE IF i = k THEN n ELSE s[i - 1]
  BY <1>3 DEF Inserted
<1> HIDE DEF t
<1>5. u \in [Lists -> Seq(Nodes)] /\ \A h \in Lists : u[h] = IF h = l THEN t ELSE r[h]
  BY <1>1, <1>3
<1> HIDE DEF u
<1>6. ASSUME NEW h \in Lists, NEW i \in 1 .. Len(u[h])
      PROVE  /\ h = l /\ i = k => u[h][i] = n
             /\ ~ (h = l /\ i = k) => /\ old(h, i) \in 1 .. Len(r[h])
                                      /\ u[h][i] = r[h][old(h, i)]
                                      /\ u[h][i] # n
  <2>1. CASE h = l
    <3>1. i \in 1 .. (N + 1) /\ u[h] = t
      BY <1>4, <1>5, <2>1
    <3>2. CASE i < k
      <4>1. i \in 1 .. N /\ i # k /\ ~ (i > k)
        BY <1>2, <3>1, <3>2
      <4>2. u[h][i] = s[i] /\ old(h, i) = i
        BY <1>4, <3>1, <3>2, <4>1
      <4>3. QED
        BY <2>1, <4>1, <4>2 DEF Unlinked
    <3>3. CASE i = k
      <4>1. ~ (i < k)
        BY <1>2, <3>1, <3>3
      <4>2. QED
        BY <1>4, <2>1, <3>1, <3>3, <4>1
    <3>4. CASE i > k
      <4>1. i - 1 \in 1 .. N /\ i # k /\ ~ (i < k)
        BY <1>2, <3>1, <3>4
      <4>2. u[h][i] = s[i - 1] /\ old(h, i) = i - 1
        BY <1>4, <2>1, <3>1, <3>4, <4>1
      <4>3. QED
        BY <2>1, <4>1, <4>2 DEF Unlinked
    <3>5. i < k \/ i = k \/ i > k
      BY <1>2, <3>1
    <3>6. QED
      BY <3>2, <3>3, <3>4, <3>5
  <2>2. CASE h # l
    BY <1>5, <2>2 DEF Unlinked
  <2>3. QED
    BY <2>1, <2>2
<1>7. \A h \in Lists : \A i, j \in 1 .. Len(u[h]) :
         old(h, i) = old(h, j) /\ (h = l => i # k /\ j # k) => i = j
  <2>1. ASSUME NEW h \in Lists, NEW i \in 1 .. Len(u[h]), NEW j \in 1 .. Len(u[h]),
               old(h, i) = old(h, j), h = l => i # k /\ j # k
        PROVE  i = j
    <3>1. i \in Int /\ j \in Int /\ k \in Int
      BY <1>2
    <3>2. QED
      BY <2>1, <3>1
  <2>2. QED
    BY <2>1
<1> HIDE DEF old
<1>8. ASSUME NEW f \in Lists, NEW h \in Lists,
             NEW i \in 1 .. Len(u[f]), NEW j \in 1 .. Len(u[h]), u[f][i] = u[h][j]
      PROVE  f = h /\ i = j
  <2>1. CASE f = l /\ i = k
    BY <1>6, <1>8, <2>1
  <2>2. CASE h = l /\ j = k
    BY <1>6, <1>8, <2>2
  <2>3. CASE ~ (f = l /\ i = k) /\ ~ (h = l /\ j = k)
    <3>1. /\ old(f, i) \in 1 .. Len(r[f]) /\ old(h, j) \in 1 .. Len(r[h])
          /\ r[f][old(f, i)] = r[h][old(h, j)]
      BY <1>6, <1>8, <2>3
    <3>2. f = h /\ old(f, i) = old(h, j)
      BY <3>1 DEF Apart
    <3>3. QED
      BY <1>7, <2>3, <3>2
  <2>4. QED
    BY <2>1, <2>2, <2>3
<1>9. Apart(u)
  BY <1>5, <1>8 DEF Apart
<1>10. QED
  BY <1>9 DEF u, t

-----------------------------------------------------------------------------
(***************************************************************************)
(* The pointers each function of list.c writes.                            *)
(***************************************************************************)
LEMMA InsertBeforeWrites ==
    ASSUME NEW m, Memory(m), NEW n \in Nodes, NEW a \in Addresses, NEW b \in Addresses,
           prev(m, b) = a, a # n, b # n,
           \A l \in Lists : a # AtBack(l) /\ b # AtFront(l)
    PROVE  /\ Memory(InsertBefore(m, n, b))
           /\ NextSpliced(m, InsertBefore(m, n, b), n, a, b)
           /\ PrevSpliced(m, InsertBefore(m, n, b), n, a, b)
<1> DEFINE m1 == [m EXCEPT ![NextOf(n)] = b]
           m2 == [m1 EXCEPT ![PrevOf(n)] = a]
           m3 == [m2 EXCEPT ![NextOf(a)] = n]
           m4 == [m3 EXCEPT ![PrevOf(b)] = n]
<1>1. InsertBefore(m, n, b) = m4
  BY DEF InsertBefore
<1>2. n \in Addresses /\ \A l \in Lists : n # AtBack(l) /\ n # AtFront(l)
  BY AddressFacts
<1> HIDE DEF m4
<1>3. Memory(m1) /\ NextSetTo(m, m1, n, b)
  BY <1>2, NextWritten
<1> HIDE DEF m1
<1>4. Memory(m2) /\ PrevSetTo(m1, m2, n, a)
  BY <1>2, <1>3, PrevWritten
<1> HIDE DEF m2
<1>5. Memory(m3) /\ NextSetTo(m2, m3, a, n)
  BY <1>2, <1>4, NextWritten
<1> HIDE DEF m3
<1>6. Memory(m4) /\ PrevSetTo(m3, m4, b, n)
  BY <1>2, <1>5, PrevWritten DEF m4
<1>7. ASSUME NEW p \in Addresses
      PROVE  /\ next(m4, p) = IF p = a THEN n ELSE IF p = n THEN b ELSE next(m, p)
             /\ prev(m4, p) = IF p = b THEN n ELSE IF p = n THEN a ELSE prev(m, p)
  BY <1>3, <1>4, <1>5, <1>6 DEF NextSetTo, PrevSetTo
<1>8. QED
  BY <1>1, <1>6, <1>7 DEF NextSpliced, PrevSpliced

LEMMA AddHeadWrites ==
    ASSUME NEW m, Memory(m), NEW n \in Nodes, NEW l \in Lists, NEW b \in Addresses,
           next(m, AtFront(l)) = b, b # n, \A h \in Lists : b # AtFront(h)
    PROVE  /\ Memory(AddHead(m, l, n))
           /\ NextSpliced(m, AddHead(m, l, n), n, AtFront(l), b)
           /\ PrevSpliced(m, AddHead(m, l, n), n, AtFront(l), b)
<1> DEFINE a == AtFront(l)
           m1 == [m EXCEPT ![NextOf(n)] = b]
           m2 == [m1 EXCEPT ![PrevOf(n)] = a]
           m3 == [m2 EXCEPT ![PrevOf(b)] = n]
           m4 == [m3 EXCEPT ![NextOf(a)] = n]
<1>1. NextOf(AtFront(l)) = AtFront(l) /\ m[AtFront(l)] = b
  BY CellFacts DEF AtFront, next
<1>2. AddHead(m, l, n) = m4
  BY <1>1 DEF AddHead
<1>3. /\ n \in Addresses /\ a \in Addresses /\ a # n
      /\ \A h \in Lists : n # AtBack(h) /\ n # AtFront(h) /\ a # AtBack(h)
  BY AddressFacts
<1> HIDE DEF m4, a
<1>4. Memory(m1) /\ NextSetTo(m, m1, n, b)
  BY <1>3, NextWritten
<1> HIDE DEF m1
<1>5. Memory(m2) /\ PrevSetTo(m1, m2, n, a)
  BY <1>3, <1>4, PrevWritten
<1> HIDE DEF m2
<1>6. Memory(m3) /\ PrevSetTo(m2, m3, b, n)
  BY <1>3, <1>5, PrevWritten
<1> HIDE DEF m3
<1>7. Memory(m4) /\ NextSetTo(m3, m4, a, n)
  BY <1>3, <1>6, NextWritten DEF m4
<1>8. ASSUME NEW p \in Addresses
      PROVE  /\ next(m4, p) = IF p = a THEN n ELSE IF p = n THEN b ELSE next(m, p)
             /\ prev(m4, p) = IF p = b THEN n ELSE IF p = n THEN a ELSE prev(m, p)
  BY <1>4, <1>5, <1>6, <1>7 DEF NextSetTo, PrevSetTo
<1>9. QED
  BY <1>2, <1>7, <1>8 DEF NextSpliced, PrevSpliced, a

LEMMA RemoveHeadWrites ==
    ASSUME NEW m, Memory(m), NEW l \in Lists, GetHead(m, l) # NULL,
           NEW n \in Addresses, next(m, AtFront(l)) = n,
           NEW b \in Addresses, next(m, n) = b, \A h \in Lists : b # AtFront(h)
    PROVE  /\ Memory(RemoveHead(m, l))
           /\ NextAs(m, RemoveHead(m, l), AtFront(l), b)
           /\ PrevAs(m, RemoveHead(m, l), b, AtFront(l))
<1> DEFINE a == AtFront(l)
           m1 == [m EXCEPT ![PrevOf(b)] = a]
           m2 == [m1 EXCEPT ![NextOf(a)] = b]
<1>1. NextOf(AtFront(l)) = AtFront(l) /\ m[AtFront(l)] = n
  BY CellFacts DEF AtFront, next
<1>2. RemoveHead(m, l) = m2
  BY <1>1 DEF RemoveHead
<1>3. a \in Addresses /\ \A h \in Lists : a # AtBack(h)
  BY AddressFacts
<1> HIDE DEF m2, a
<1>4. Memory(m1) /\ PrevSetTo(m, m1, b, a)
  BY <1>3, PrevWritten
<1> HIDE DEF m1
<1>5. Memory(m2) /\ NextSetTo(m1, m2, a, b)
  BY <1>3, <1>4, NextWritten DEF m2
<1>6. ASSUME NEW p \in Addresses
      PROVE  /\ next(m2, p) = IF p = a THEN b ELSE next(m, p)
             /\ prev(m2, p) = IF p = b THEN a ELSE prev(m, p)
  BY <1>4, <1>5 DEF NextSetTo, PrevSetTo
<1>7. QED
  BY <1>2, <1>5, <1>6 DEF NextAs, PrevAs, a

LEMMA Store1Writes ==
    ASSUME NEW m, Memory(m), NEW n \in Addresses,
           NEW a \in Addresses, prev(m, n) = a, \A h \in Lists : a # AtBack(h),
           NEW b \in Addresses, next(m, n) = b
    PROVE  /\ Memory(Store1(m, n))
           /\ NextAs(m, Store1(m, n), a, b)
           /\ \A p \in Addresses : prev(Store1(m, n), p) = prev(m, p)
<1> DEFINE g == [m EXCEPT ![NextOf(a)] = b]
<1>1. Store1(m, n) = g
  BY DEF Store1
<1>2. Memory(g) /\ NextSetTo(m, g, a, b)
  BY NextWritten
<1> HIDE DEF g
<1>3. QED
  BY <1>1, <1>2 DEF NextSetTo, NextAs

LEMMA Store2Writes ==
    ASSUME NEW m, Memory(m), NEW n \in Addresses,
           NEW a \in Addresses, prev(m, n) = a,
           NEW b \in Addresses, next(m, n) = b, \A h \in Lists : b # AtFront(h)
    PROVE  /\ Memory(Store2(m, n))
           /\ PrevAs(m, Store2(m, n), b, a)
           /\ \A p \in Addresses : next(Store2(m, n), p) = next(m, p)
<1> DEFINE g == [m EXCEPT ![PrevOf(b)] = a]
<1>1. Store2(m, n) = g
  BY DEF Store2
<1>2. Memory(g) /\ PrevSetTo(m, g, b, a)
  BY PrevWritten
<1> HIDE DEF g
<1>3. QED
  BY <1>1, <1>2 DEF PrevSetTo, PrevAs

-----------------------------------------------------------------------------
(***************************************************************************)
(* The functions of list.c on a memory that holds the lists q.             *)
(***************************************************************************)
Held(m, q) == Memory(m) /\ Apart(q) /\ Forwards(m, q) /\ Backwards(m, q)

LEMMA WalkHeld ==
    ASSUME NEW m, NEW q, Apart(q), Forwards(m, q), NEW l \in Lists
    PROVE  /\ q[l] \in Seq(Nodes) /\ Distinct(q[l])
           /\ Walk(m, l) = q[l]
           /\ GetHead(m, l) = IF Len(q[l]) = 0 THEN NULL ELSE q[l][1]
<1>1. q[l] \in Seq(Nodes) /\ Distinct(q[l])
  BY DEF Apart, Distinct
<1>2. Forward(m, l, q[l])
  BY DEF Forwards
<1>3. QED
  BY <1>1, <1>2, WalkIs, GetHeadIs

\* The neighbours of a position.
LEMMA Neighbours ==
    ASSUME NEW m, NEW l \in Lists, NEW s \in Seq(Nodes), NEW k \in 0 .. Len(s)
    PROVE  /\ At(l, s, k) \in Addresses /\ \A h \in Lists : At(l, s, k) # AtBack(h)
           /\ At(l, s, k + 1) \in Addresses /\ \A h \in Lists : At(l, s, k + 1) # AtFront(h)
           /\ Forward(m, l, s) => next(m, At(l, s, k)) = At(l, s, k + 1)
           /\ Backward(m, l, s) => prev(m, At(l, s, k + 1)) = At(l, s, k)
<1>1. /\ Len(s) \in Nat /\ k \in 0 .. (Len(s) + 1) /\ k + 1 \in 0 .. (Len(s) + 1)
      /\ k # Len(s) + 1 /\ k + 1 # 0
  BY Elements
<1>2. At(l, s, k) \in Addresses /\ \A h \in Lists : At(l, s, k) # AtBack(h)
  BY <1>1, Positions
<1>3. At(l, s, k + 1) \in Addresses /\ \A h \in Lists : At(l, s, k + 1) # AtFront(h)
  BY <1>1, Positions
<1>4. Forward(m, l, s) => next(m, At(l, s, k)) = At(l, s, k + 1)
  BY DEF Forward
<1>5. Backward(m, l, s) => prev(m, At(l, s, k + 1)) = At(l, s, k)
  BY DEF Backward
<1>6. QED
  BY <1>2, <1>3, <1>4, <1>5

LEMMA HeldInsertBefore ==
    ASSUME NEW m, NEW q, Held(m, q), NEW l \in Lists, NEW k \in 1 .. (Len(q[l]) + 1),
           NEW n \in Nodes, Unlinked(q, n)
    PROVE  Held(InsertBefore(m, n, At(l, q[l], k)), [q EXCEPT ![l] = InsertAt(q[l], k, n)])
<1> DEFINE s == q[l]
           a == At(l, s, k - 1)
           b == At(l, s, k)
           g == InsertBefore(m, n, b)
<1>1. Memory(m) /\ Apart(q) /\ Forwards(m, q) /\ Backwards(m, q)
  BY DEF Held
<1>2. s \in Seq(Nodes) /\ Len(s) \in Nat /\ Forward(m, l, s) /\ Backward(m, l, s)
  BY <1>1, Elements DEF Apart, Forwards, Backwards
<1>3. k - 1 \in 0 .. Len(s) /\ (k - 1) + 1 = k /\ k - 1 \in 0 .. (Len(s) + 1)
      /\ k \in 0 .. (Len(s) + 1)
  BY <1>2
<1>4. /\ a \in Addresses /\ \A h \in Lists : a # AtBack(h)
      /\ b \in Addresses /\ \A h \in Lists : b # AtFront(h)
      /\ prev(m, b) = a
  <2> HIDE DEF s
  <2>1. /\ At(l, s, k - 1) \in Addresses /\ \A h \in Lists : At(l, s, k - 1) # AtBack(h)
        /\ At(l, s, (k - 1) + 1) \in Addresses
        /\ \A h \in Lists : At(l, s, (k - 1) + 1) # AtFront(h)
        /\ prev(m, At(l, s, (k - 1) + 1)) = At(l, s, k - 1)
    BY <1>2, <1>3, Neighbours, ZenonT(60)
  <2>2. QED
    BY <1>3, <2>1
<1>5. a # n /\ b # n
  BY <1>1, <1>3, UnlinkedPositions
<1> HIDE DEF a, b
<1>6. Memory(g) /\ NextSpliced(m, g, n, a, b) /\ PrevSpliced(m, g, n, a, b)
  BY <1>1, <1>4, <1>5, InsertBeforeWrites
<1> HIDE DEF g
<1>7. Forwards(g, [q EXCEPT ![l] = InsertAt(q[l], k, n)])
  BY <1>1, <1>6, ForwardInserted DEF a, b
<1>8. Backwards(g, [q EXCEPT ![l] = InsertAt(q[l], k, n)])
  BY <1>1, <1>6, BackwardInserted DEF a, b
<1>9. Apart([q EXCEPT ![l] = InsertAt(q[l], k, n)])
  BY <1>1, ApartInserted
<1>10. QED
  BY <1>6, <1>7, <1>8, <1>9 DEF Held, g, b

LEMMA HeldAddHead ==
    ASSUME NEW m, NEW q, Held(m, q), NEW l \in Lists, NEW n \in Nodes, Unlinked(q, n)
    PROVE  Held(AddHead(m, l, n), [q EXCEPT ![l] = InsertAt(q[l], 1, n)])
<1> DEFINE s == q[l]
           b == At(l, s, 1)
           g == AddHead(m, l, n)
<1>1. Memory(m) /\ Apart(q) /\ Forwards(m, q) /\ Backwards(m, q)
  BY DEF Held
<1>2. s \in Seq(Nodes) /\ Len(s) \in Nat /\ Forward(m, l, s)
  BY <1>1, Elements DEF Apart, Forwards
<1>3. 0 \in 0 .. Len(s) /\ 0 + 1 = 1 /\ 1 - 1 = 0 /\ 1 \in 0 .. (Len(s) + 1)
      /\ 1 \in 1 .. (Len(s) + 1)
  BY <1>2
<1>4. At(l, s, 0) = AtFront(l)
  BY DEF At
<1>5. /\ b \in Addresses /\ \A h \in Lists : b # AtFront(h)
      /\ next(m, AtFront(l)) = b
  <2> HIDE DEF s
  <2>1. /\ At(l, s, 0 + 1) \in Addresses
        /\ \A h \in Lists : At(l, s, 0 + 1) # AtFront(h)
        /\ next(m, At(l, s, 0)) = At(l, s, 0 + 1)
    BY <1>2, <1>3, Neighbours, ZenonT(60)
  <2>2. QED
    BY <1>3, <1>4, <2>1
<1>6. b # n
  BY <1>1, <1>3, UnlinkedPositions
<1> HIDE DEF b
<1>7. Memory(g) /\ NextSpliced(m, g, n, AtFront(l), b) /\ PrevSpliced(m, g, n, AtFront(l), b)
  BY <1>1, <1>5, <1>6, AddHeadWrites
<1>8. NextSpliced(m, g, n, At(l, q[l], 1 - 1), At(l, q[l], 1))
  BY <1>3, <1>4, <1>7 DEF b
<1>9. PrevSpliced(m, g, n, At(l, q[l], 1 - 1), At(l, q[l], 1))
  BY <1>3, <1>4, <1>7 DEF b
<1>10. 1 \in 1 .. (Len(q[l]) + 1)
  BY <1>3
<1> HIDE DEF g, s
<1>11. Forwards(g, [q EXCEPT ![l] = InsertAt(q[l], 1, n)])
  BY <1>1, <1>8, <1>10, ForwardInserted
<1>12. Backwards(g, [q EXCEPT ![l] = InsertAt(q[l], 1, n)])
  BY <1>1, <1>9, <1>10, BackwardInserted
<1>13. Apart([q EXCEPT ![l] = InsertAt(q[l], 1, n)])
  BY <1>1, <1>10, ApartInserted
<1>14. QED
  BY <1>7, <1>11, <1>12, <1>13 DEF Held, g

LEMMA HeldAddTail ==
    ASSUME NEW m, NEW q, Held(m, q), NEW l \in Lists, NEW n \in Nodes, Unlinked(q, n)
    PROVE  Held(AddTail(m, l, n), [q EXCEPT ![l] = InsertAt(q[l], Len(q[l]) + 1, n)])
<1>1. Len(q[l]) \in Nat
  BY Elements DEF Held, Apart
<1>2. Len(q[l]) + 1 \in 1 .. (Len(q[l]) + 1) /\ At(l, q[l], Len(q[l]) + 1) = AtBack(l)
  BY <1>1 DEF At
<1>3. QED
  BY <1>2, HeldInsertBefore DEF AddTail

\* The place enqueue() finds is the one the sequences have.
Stop(s, n) == {i \in 1 .. Len(s) : Pri[n] >= Pri[s[i]]}

EnqueuedAt(s, n) == IF Stop(s, n) = {} THEN Len(s) + 1 ELSE Min(Stop(s, n))

LEMMA EnqueuedAtFacts ==
    ASSUME NEW s \in Seq(Nodes), NEW n \in Nodes
    PROVE  /\ EnqueuedAt(s, n) \in 1 .. (Len(s) + 1)
           /\ Stop(s, n) # {} => EnqueuedAt(s, n) \in 1 .. Len(s)
           /\ Ideal!InsertionPoint(s, n) = EnqueuedAt(s, n)
<1> DEFINE k == EnqueuedAt(s, n)
           S == Stop(s, n)
           N == Len(s)
           Fits(j) == /\ \A i \in 1 .. (j - 1) : Pri[n] < Pri[s[i]]
                      /\ j <= N => Pri[n] >= Pri[s[j]]
<1>1. N \in Nat /\ Pri[n] \in Int /\ \A i \in 1 .. N : s[i] \in Nodes /\ Pri[s[i]] \in Int
  BY Elements, ListAssumption
<1>2. \A i : i \in S <=> i \in 1 .. N /\ Pri[n] >= Pri[s[i]]
  BY DEF Stop
<1>3. k = IF S = {} THEN N + 1 ELSE Min(S)
  BY DEF EnqueuedAt
<1>4. S # {} => k \in S /\ \A i \in S : k <= i
  <2>1. S \subseteq Nat
    BY <1>1, <1>2
  <2> HIDE DEF S, k
  <2>2. QED
    BY <1>3, <2>1, MinIsLeast
<1> HIDE DEF S, k
<1>5. k \in 1 .. (N + 1) /\ (S # {} => k \in 1 .. N) /\ Fits(k)
  <2> HIDE DEF N
  <2>1. CASE S = {}
    <3>1. k = N + 1 /\ k - 1 = N /\ ~ (k <= N)
      BY <1>1, <1>3, <2>1
    <3>2. \A i \in 1 .. N : Pri[n] < Pri[s[i]]
      BY <1>1, <1>2, <2>1
    <3>3. QED
      BY <1>1, <2>1, <3>1, <3>2
  <2>2. CASE S # {}
    <3>1. k \in 1 .. N /\ Pri[n] >= Pri[s[k]]
      BY <1>2, <1>4, <2>2
    <3>2. ASSUME NEW i \in 1 .. (k - 1)
          PROVE  Pri[n] < Pri[s[i]]
      <4>1. i \in 1 .. N /\ ~ (k <= i)
        BY <1>1, <3>1
      <4>2. i \notin S
        BY <1>4, <2>2, <4>1
      <4>3. QED
        BY <1>1, <1>2, <4>1, <4>2
    <3>3. k \in 1 .. (N + 1)
      BY <1>1, <3>1
    <3>4. QED
      BY <2>2, <3>1, <3>2, <3>3
  <2>3. QED
    BY <2>1, <2>2
<1>6. \A j \in 1 .. (N + 1) : Fits(j) => j = k
  <2> HIDE DEF N
  <2>1. ASSUME NEW j \in 1 .. (N + 1), Fits(j)
        PROVE  j = k
    <3>1. ~ (j < k)
      <4>1. SUFFICES ASSUME j < k
                     PROVE  FALSE
        OBVIOUS
      <4>2. j \in 1 .. (k - 1) /\ j <= N /\ j \in 1 .. N
        BY <1>1, <1>5, <4>1
      <4>3. Pri[n] < Pri[s[j]] /\ Pri[n] >= Pri[s[j]]
        BY <1>5, <2>1, <4>2
      <4>4. QED
        BY <1>1, <4>2, <4>3
    <3>2. ~ (k < j)
      <4>1. SUFFICES ASSUME k < j
                     PROVE  FALSE
        OBVIOUS
      <4>2. k \in 1 .. (j - 1) /\ k <= N /\ k \in 1 .. N
        BY <1>1, <1>5, <4>1
      <4>3. Pri[n] < Pri[s[k]] /\ Pri[n] >= Pri[s[k]]
        BY <1>5, <2>1, <4>2
      <4>4. QED
        BY <1>1, <4>2, <4>3
    <3>3. QED
      BY <1>1, <1>5, <3>1, <3>2
  <2>2. QED
    BY <2>1
<1>7. Ideal!InsertionPoint(s, n) = CHOOSE j \in 1 .. (N + 1) : Fits(j)
  BY DEF Ideal!InsertionPoint
<1> HIDE DEF Fits, N
<1>8. Ideal!InsertionPoint(s, n) = k
  BY <1>5, <1>6, <1>7
<1>9. QED
  BY <1>5, <1>8 DEF k, S, N

LEMMA HeldEnqueue ==
    ASSUME NEW m, NEW q, Held(m, q), NEW l \in Lists, NEW n \in Nodes, Unlinked(q, n)
    PROVE  Held(Enqueue(m, l, n), [q EXCEPT ![l] = InsertAt(q[l], EnqueuedAt(q[l], n), n)])
<1> DEFINE s == q[l]
           k == EnqueuedAt(s, n)
<1>1. s \in Seq(Nodes) /\ Walk(m, l) = s
  BY WalkHeld DEF Held
<1>2. k \in 1 .. (Len(s) + 1) /\ (Stop(s, n) # {} => k \in 1 .. Len(s))
  BY <1>1, EnqueuedAtFacts
<1>3. Enqueue(m, l, n) = IF Stop(s, n) = {} THEN AddTail(m, l, n)
                         ELSE InsertBefore(m, n, s[Min(Stop(s, n))])
  BY <1>1 DEF Enqueue, Stop
<1>4. CASE Stop(s, n) = {}
  <2>1. k = Len(s) + 1
    BY <1>4 DEF EnqueuedAt
  <2>2. QED
    BY <1>3, <1>4, <2>1, HeldAddTail
<1>5. CASE Stop(s, n) # {}
  <2>1. k = Min(Stop(s, n))
    BY <1>5 DEF EnqueuedAt
  <2> HIDE DEF k
  <2>2. At(l, s, k) = s[k]
    <3>1. Len(s) \in Nat
      BY <1>1, Elements
    <3>2. k # 0 /\ k # Len(s) + 1
      BY <1>2, <1>5, <3>1
    <3>3. QED
      BY <3>2 DEF At
  <2>3. Enqueue(m, l, n) = InsertBefore(m, n, At(l, s, k))
    BY <1>3, <1>5, <2>1, <2>2
  <2>4. Held(InsertBefore(m, n, At(l, q[l], k)), [q EXCEPT ![l] = InsertAt(q[l], k, n)])
    BY <1>2, HeldInsertBefore
  <2>5. QED
    BY <2>3, <2>4 DEF k
<1>6. QED
  BY <1>4, <1>5

LEMMA HeldRemoveHead ==
    ASSUME NEW m, NEW q, Held(m, q), NEW l \in Lists
    PROVE  /\ Len(q[l]) = 0 => RemoveHead(m, l) = m
           /\ Len(q[l]) # 0 => Held(RemoveHead(m, l), [q EXCEPT ![l] = RemoveAt(q[l], 1)])
<1> DEFINE s == q[l]
           n == At(l, s, 1)
           b == At(l, s, 2)
           g == RemoveHead(m, l)
<1>1. Memory(m) /\ Apart(q) /\ Forwards(m, q) /\ Backwards(m, q)
  BY DEF Held
<1>2. s \in Seq(Nodes) /\ Len(s) \in Nat /\ Forward(m, l, s)
      /\ \A i \in 1 .. Len(s) : s[i] \in Nodes
  BY <1>1, Elements DEF Apart, Forwards
<1>3. GetHead(m, l) = IF Len(s) = 0 THEN NULL ELSE s[1]
  BY <1>1, WalkHeld
<1>4. Len(s) = 0 => g = m
  BY <1>3 DEF RemoveHead
<1>5. ASSUME Len(s) # 0
      PROVE  Held(g, [q EXCEPT ![l] = RemoveAt(q[l], 1)])
  <2>1. /\ 0 \in 0 .. Len(s) /\ 1 \in 0 .. Len(s) /\ 1 \in 1 .. Len(s)
        /\ 0 + 1 = 1 /\ 1 + 1 = 2 /\ 1 - 1 = 0
    BY <1>2, <1>5
  <2>2. At(l, s, 0) = AtFront(l)
    BY DEF At
  <2>3. n \in Addresses /\ next(m, AtFront(l)) = n
    <3> HIDE DEF s
    <3>1. At(l, s, 0 + 1) \in Addresses /\ next(m, At(l, s, 0)) = At(l, s, 0 + 1)
      BY <1>2, <2>1, Neighbours, ZenonT(60)
    <3>2. QED
      BY <2>1, <2>2, <3>1
  <2>4. b \in Addresses /\ next(m, n) = b /\ \A h \in Lists : b # AtFront(h)
    <3> HIDE DEF s
    <3>1. /\ At(l, s, 1 + 1) \in Addresses /\ next(m, At(l, s, 1)) = At(l, s, 1 + 1)
          /\ \A h \in Lists : At(l, s, 1 + 1) # AtFront(h)
      BY <1>2, <2>1, Neighbours, ZenonT(60)
    <3>2. QED
      BY <2>1, <3>1
  <2>5. GetHead(m, l) # NULL
    BY <1>2, <1>3, <1>5, <2>1, AddressFacts
  <2> HIDE DEF n, b
  <2>6. Memory(g) /\ NextAs(m, g, AtFront(l), b) /\ PrevAs(m, g, b, AtFront(l))
    BY <1>1, <2>3, <2>4, <2>5, RemoveHeadWrites
  <2>7. NextAs(m, g, At(l, q[l], 1 - 1), At(l, q[l], 1 + 1))
    BY <2>1, <2>2, <2>6 DEF b
  <2>8. PrevAs(m, g, At(l, q[l], 1 + 1), At(l, q[l], 1 - 1))
    BY <2>1, <2>2, <2>6 DEF b
  <2>9. 1 \in 1 .. Len(q[l])
    BY <2>1
  <2> HIDE DEF g, s
  <2>10. Forwards(g, [q EXCEPT ![l] = RemoveAt(q[l], 1)])
    BY <1>1, <2>7, <2>9, ForwardRemoved
  <2>11. Backwards(g, [q EXCEPT ![l] = RemoveAt(q[l], 1)])
    BY <1>1, <2>8, <2>9, BackwardRemoved
  <2>12. Apart([q EXCEPT ![l] = RemoveAt(q[l], 1)])
    BY <1>1, <2>9, ApartRemoved
  <2>13. QED
    BY <2>6, <2>10, <2>11, <2>12 DEF Held
<1>6. QED
  BY <1>4, <1>5

\* The first store of remove().
LEMMA HeldStore1 ==
    ASSUME NEW m, NEW q, Held(m, q), NEW l \in Lists, NEW k \in 1 .. Len(q[l])
    PROVE  /\ Memory(Store1(m, q[l][k]))
           /\ Forwards(Store1(m, q[l][k]), [q EXCEPT ![l] = RemoveAt(q[l], k)])
           /\ Backwards(Store1(m, q[l][k]), q)
           /\ next(Store1(m, q[l][k]), q[l][k]) = At(l, q[l], k + 1)
<1> DEFINE s == q[l]
           n == s[k]
           a == At(l, s, k - 1)
           b == At(l, s, k + 1)
           g == Store1(m, n)
<1>1. Memory(m) /\ Apart(q) /\ Forwards(m, q) /\ Backwards(m, q)
  BY DEF Held
<1>2. s \in Seq(Nodes) /\ Len(s) \in Nat /\ Forward(m, l, s) /\ Backward(m, l, s)
  BY <1>1, Elements DEF Apart, Forwards, Backwards
<1>3. /\ k - 1 \in 0 .. Len(s) /\ (k - 1) + 1 = k /\ k \in 0 .. Len(s) /\ k \in 0 .. (Len(s) + 1)
      /\ k - 1 \in 0 .. (Len(s) + 1) /\ k # k - 1
  BY <1>2
<1>4. n = At(l, s, k) /\ n \in Addresses
  <2> HIDE DEF s
  <2>1. At(l, s, k) = s[k] /\ At(l, s, k) \in Addresses
    BY <1>2, <1>3, Positions
  <2>2. QED
    BY <2>1
<1>5. a \in Addresses /\ prev(m, n) = a /\ \A h \in Lists : a # AtBack(h)
  <2> HIDE DEF s, n
  <2>1. /\ At(l, s, k - 1) \in Addresses /\ \A h \in Lists : At(l, s, k - 1) # AtBack(h)
        /\ prev(m, At(l, s, (k - 1) + 1)) = At(l, s, k - 1)
    BY <1>2, <1>3, Neighbours, ZenonT(60)
  <2>2. QED
    BY <1>3, <1>4, <2>1
<1>6. b \in Addresses /\ next(m, n) = b /\ \A h \in Lists : b # AtFront(h)
  <2> HIDE DEF s, n
  <2>1. /\ At(l, s, k + 1) \in Addresses /\ \A h \in Lists : At(l, s, k + 1) # AtFront(h)
        /\ next(m, At(l, s, k)) = At(l, s, k + 1)
    BY <1>2, <1>3, Neighbours, ZenonT(60)
  <2>2. QED
    BY <1>4, <2>1
<1>7. a # n
  <2>1. At(l, q[l], k - 1) # At(l, q[l], k)
    BY <1>1, <1>3, PositionsApart
  <2>2. QED
    BY <1>4, <2>1
<1> HIDE DEF n, a, b
<1>8. Memory(g) /\ NextAs(m, g, a, b) /\ \A p \in Addresses : prev(g, p) = prev(m, p)
  BY <1>1, <1>4, <1>5, <1>6, Store1Writes
<1> HIDE DEF g
<1>9. Forwards(g, [q EXCEPT ![l] = RemoveAt(q[l], k)])
  BY <1>1, <1>8, ForwardRemoved DEF a, b
<1>10. Backwards(g, q)
  <2>1. ASSUME NEW h \in Lists, NEW i \in 0 .. Len(q[h])
        PROVE  prev(g, At(h, q[h], i + 1)) = At(h, q[h], i)
    <3>1. q[h] \in Seq(Nodes) /\ i + 1 \in 0 .. (Len(q[h]) + 1)
      BY <1>1, Elements DEF Apart
    <3>2. At(h, q[h], i + 1) \in Addresses
      BY <3>1, Positions
    <3>3. QED
      BY <1>1, <1>8, <3>2 DEF Backwards, Backward
  <2>2. QED
    BY <2>1 DEF Backwards, Backward
<1>11. next(g, n) = b
  BY <1>4, <1>6, <1>7, <1>8 DEF NextAs
<1>12. QED
  BY <1>8, <1>9, <1>10, <1>11 DEF g, n, b

\* The second store, which needs the first only for the chain of next pointers.
LEMMA HeldStore2 ==
    ASSUME NEW m, Memory(m), NEW r, Apart(r), Backwards(m, r),
           NEW l \in Lists, NEW k \in 1 .. Len(r[l]),
           Forwards(m, [r EXCEPT ![l] = RemoveAt(r[l], k)]),
           next(m, r[l][k]) = At(l, r[l], k + 1)
    PROVE  Held(Store2(m, r[l][k]), [r EXCEPT ![l] = RemoveAt(r[l], k)])
<1> DEFINE s == r[l]
           n == s[k]
           a == At(l, s, k - 1)
           b == At(l, s, k + 1)
           g == Store2(m, n)
           u == [r EXCEPT ![l] = RemoveAt(r[l], k)]
<1>1. s \in Seq(Nodes) /\ Len(s) \in Nat /\ Backward(m, l, s)
  BY Elements DEF Apart, Backwards
<1>2. /\ k - 1 \in 0 .. Len(s) /\ (k - 1) + 1 = k /\ k \in 0 .. Len(s) /\ k \in 0 .. (Len(s) + 1)
  BY <1>1
<1>3. n = At(l, s, k) /\ n \in Addresses
  <2> HIDE DEF s
  <2>1. At(l, s, k) = s[k] /\ At(l, s, k) \in Addresses
    BY <1>1, <1>2, Positions
  <2>2. QED
    BY <2>1
<1>4. a \in Addresses /\ prev(m, n) = a
  <2> HIDE DEF s, n
  <2>1. /\ At(l, s, k - 1) \in Addresses
        /\ prev(m, At(l, s, (k - 1) + 1)) = At(l, s, k - 1)
    BY <1>1, <1>2, Neighbours, ZenonT(60)
  <2>2. QED
    BY <1>2, <1>3, <2>1
<1>5. b \in Addresses /\ next(m, n) = b /\ \A h \in Lists : b # AtFront(h)
  <2> HIDE DEF s
  <2>1. At(l, s, k + 1) \in Addresses /\ \A h \in Lists : At(l, s, k + 1) # AtFront(h)
    BY <1>1, <1>2, Neighbours
  <2>2. QED
    BY <2>1 DEF s
<1> HIDE DEF n, a, b
<1>6. Memory(g) /\ PrevAs(m, g, b, a) /\ \A p \in Addresses : next(g, p) = next(m, p)
  BY <1>3, <1>4, <1>5, Store2Writes
<1> HIDE DEF g
<1>7. Apart(u)
  BY ApartRemoved
<1>8. Backwards(g, u)
  BY <1>6, BackwardRemoved DEF a, b
<1>9. Forwards(m, u)
  OBVIOUS
<1> HIDE DEF u
<1>10. Forwards(g, u)
  <2>1. ASSUME NEW h \in Lists
        PROVE  Forward(g, h, u[h])
    <3>1. Forward(m, h, u[h]) /\ u[h] \in Seq(Nodes) /\ Len(u[h]) \in Nat
      BY <1>7, <1>9, Elements DEF Apart, Forwards
    <3>2. ASSUME NEW i \in 0 .. Len(u[h])
          PROVE  next(g, At(h, u[h], i)) = At(h, u[h], i + 1)
      <4>1. i \in 0 .. (Len(u[h]) + 1)
        BY <3>1
      <4>2. At(h, u[h], i) \in Addresses
        BY <3>1, <4>1, Positions
      <4>3. QED
        BY <1>6, <3>1, <4>2 DEF Forward
    <3>3. next(g, AtBack(h)) = NULL
      BY <1>6, <3>1, AddressFacts DEF Forward
    <3>4. QED
      BY <3>2, <3>3 DEF Forward
  <2>2. QED
    BY <2>1 DEF Forwards
<1>11. QED
  BY <1>6, <1>7, <1>8, <1>10 DEF Held, g, n, u

LEMMA HeldRemoveTail ==
    ASSUME NEW m, NEW q, Held(m, q), NEW l \in Lists, Len(q[l]) # 0
    PROVE  Held(RemoveTail(m, l), [q EXCEPT ![l] = RemoveAt(q[l], Len(q[l]))])
<1> DEFINE k == Len(q[l])
           n == q[l][k]
           g == Store1(m, n)
<1>1. Memory(m) /\ Apart(q) /\ Forwards(m, q) /\ Backwards(m, q)
  BY DEF Held
<1>2. q[l] \in Seq(Nodes) /\ Len(q[l]) \in Nat /\ Backward(m, l, q[l])
  BY <1>1, Elements DEF Apart, Backwards
<1>3. k \in 1 .. Len(q[l])
  BY <1>2
<1>4. m[<<l, "tailPrev">>] = n
  <2>1. prev(m, AtBack(l)) = At(l, q[l], Len(q[l]))
    BY <1>2, BackwardAt
  <2>2. At(l, q[l], Len(q[l])) = n
    BY <1>2 DEF At
  <2>3. QED
    BY <2>1, <2>2, CellFacts DEF prev
<1>5. RemoveTail(m, l) = Store2(g, n)
  BY <1>4 DEF RemoveTail
<1> HIDE DEF k
<1>6. /\ Memory(g) /\ Backwards(g, q)
      /\ Forwards(g, [q EXCEPT ![l] = RemoveAt(q[l], k)])
      /\ next(g, q[l][k]) = At(l, q[l], k + 1)
  BY <1>3, HeldStore1
<1> HIDE DEF g
<1>7. Held(Store2(g, q[l][k]), [q EXCEPT ![l] = RemoveAt(q[l], k)])
  BY <1>1, <1>3, <1>6, HeldStore2
<1>8. QED
  BY <1>5, <1>7 DEF k

-----------------------------------------------------------------------------
(***************************************************************************)
(* The same functions on sequences.                                        *)
(***************************************************************************)
LEMMA InsertedSame ==
    ASSUME NEW s \in Seq(Nodes), NEW k \in 1 .. (Len(s) + 1), NEW n,
           NEW t \in Seq(Nodes), Inserted(s, k, n, t),
           NEW u \in Seq(Nodes), Inserted(s, k, n, u)
    PROVE  t = u
<1>1. Len(t) = Len(s) + 1 /\ Len(u) = Len(s) + 1
  BY DEF Inserted
<1>2. \A i \in 1 .. (Len(s) + 1) : t[i] = u[i]
  BY DEF Inserted
<1>3. QED
  BY <1>1, <1>2, SeqEqual

LEMMA HeadAndTail ==
    ASSUME NEW s \in Seq(Nodes), NEW n \in Nodes
    PROVE  /\ Ideal!AddHead(s, n) = InsertAt(s, 1, n)
           /\ Ideal!AddTail(s, n) = InsertAt(s, Len(s) + 1, n)
           /\ Ideal!Enqueue(s, n) = InsertAt(s, EnqueuedAt(s, n), n)
<1>1. Len(s) \in Nat /\ 1 \in 1 .. (Len(s) + 1) /\ Len(s) + 1 \in 1 .. (Len(s) + 1)
  BY Elements
<1>2. /\ InsertAt(s, 1, n) \in Seq(Nodes) /\ Inserted(s, 1, n, InsertAt(s, 1, n))
      /\ InsertAt(s, Len(s) + 1, n) \in Seq(Nodes)
      /\ Inserted(s, Len(s) + 1, n, InsertAt(s, Len(s) + 1, n))
  BY <1>1, InsertedAt
<1>3. <<n>> \o s \in Seq(Nodes) /\ Inserted(s, 1, n, <<n>> \o s)
  <2> DEFINE w == <<n>>
  <2>1. w \in Seq(Nodes) /\ Len(w) = 1 /\ w[1] = n
    OBVIOUS
  <2> HIDE DEF w
  <2>2. /\ w \o s \in Seq(Nodes)
        /\ Len(w \o s) = Len(w) + Len(s)
        /\ \A j \in 1 .. Len(w) + Len(s) :
              (w \o s)[j] = IF j <= Len(w) THEN w[j] ELSE s[j - Len(w)]
    BY <2>1, ConcatProperties
  <2>3. Len(w) + Len(s) = Len(s) + 1
    BY <1>1, <2>1
  <2>4. ASSUME NEW j \in 1 .. (Len(s) + 1)
        PROVE  (w \o s)[j] = IF j < 1 THEN s[j] ELSE IF j = 1 THEN n ELSE s[j - 1]
    <3>1. (w \o s)[j] = IF j <= 1 THEN w[j] ELSE s[j - 1]
      BY <2>1, <2>2, <2>3
    <3>2. ~ (j < 1) /\ (j <= 1 <=> j = 1)
      BY <1>1
    <3>3. QED
      BY <2>1, <3>1, <3>2
  <2>5. QED
    BY <2>2, <2>3, <2>4 DEF Inserted, w
<1>4. Append(s, n) \in Seq(Nodes) /\ Inserted(s, Len(s) + 1, n, Append(s, n))
  <2>1. /\ Append(s, n) \in Seq(Nodes)
        /\ Len(Append(s, n)) = Len(s) + 1
        /\ \A i \in 1 .. Len(s) : Append(s, n)[i] = s[i]
        /\ Append(s, n)[Len(s) + 1] = n
    BY AppendProperties
  <2> DEFINE t == Append(s, n)
             N == Len(s)
  <2>2. t \in Seq(Nodes) /\ Len(t) = N + 1 /\ (\A i \in 1 .. N : t[i] = s[i]) /\ t[N + 1] = n
    BY <2>1
  <2>3. N \in Nat
    BY <1>1
  <2> HIDE DEF t, N
  <2>4. ASSUME NEW j \in 1 .. (N + 1)
        PROVE  t[j] = IF j < N + 1 THEN s[j] ELSE IF j = N + 1 THEN n ELSE s[j - 1]
    <3>1. j < N + 1 => j \in 1 .. N
      BY <2>3
    <3>2. j < N + 1 \/ j = N + 1
      BY <2>3
    <3>3. ~ (N + 1 < N + 1)
      BY <2>3
    <3>4. QED
      BY <2>2, <3>1, <3>2, <3>3
  <2>5. QED
    BY <2>2, <2>4 DEF Inserted, t, N
<1>5. <<n>> \o s = InsertAt(s, 1, n)
  BY <1>1, <1>2, <1>3, InsertedSame
<1>6. Append(s, n) = InsertAt(s, Len(s) + 1, n)
  BY <1>1, <1>2, <1>4, InsertedSame
<1>7. Ideal!InsertionPoint(s, n) = EnqueuedAt(s, n)
  BY EnqueuedAtFacts
<1>8. QED
  BY <1>5, <1>6, <1>7
     DEF Ideal!AddHead, Ideal!AddTail, Ideal!Enqueue, Ideal!InsertAt, InsertAt

\* The list l has become s.
LEMMA IsSuccessor ==
    ASSUME NEW q, NEW l \in Lists, NEW free,
           free = Nodes \ UNION {ToSet(q[h]) : h \in Lists},
           NEW s \in Ideal!Changed(q[l], free)
    PROVE  [q EXCEPT ![l] = s] \in Ideal!Successors(q)
<1> DEFINE Becomes(h) == {[q EXCEPT ![h] = t] : t \in Ideal!Changed(q[h], free)}
<1>1. Ideal!Successors(q) = UNION {Becomes(h) : h \in Lists}
  BY DEF Ideal!Successors, Ideal!ToSet, ToSet
<1>2. [q EXCEPT ![l] = s] \in Becomes(l)
  OBVIOUS
<1> HIDE DEF Becomes
<1>3. QED
  BY <1>1, <1>2

LEMMA InsertSuccessor ==
    ASSUME NEW q, Apart(q), NEW l \in Lists, NEW n \in Nodes, Unlinked(q, n),
           NEW k \in {1, Len(q[l]) + 1, EnqueuedAt(q[l], n)}
    PROVE  [q EXCEPT ![l] = InsertAt(q[l], k, n)] \in Ideal!Successors(q)
<1> DEFINE free == Nodes \ UNION {ToSet(q[h]) : h \in Lists}
<1>1. n \in free
  <2>1. ASSUME NEW h \in Lists
        PROVE  n \notin ToSet(q[h])
    <3>1. ToSet(q[h]) = {q[h][i] : i \in 1 .. Len(q[h])}
      BY Elements DEF Apart
    <3>2. QED
      BY <3>1 DEF Unlinked
  <2>2. QED
    BY <2>1
<1>2. q[l] \in Seq(Nodes)
  BY DEF Apart
<1>3. InsertAt(q[l], k, n) \in Ideal!Linked(q[l], n)
  BY <1>2, HeadAndTail DEF Ideal!Linked
<1>4. InsertAt(q[l], k, n) \in Ideal!Changed(q[l], free)
  BY <1>1, <1>3 DEF Ideal!Changed
<1> HIDE DEF free
<1>5. QED
  BY <1>4, IsSuccessor DEF free

LEMMA RemoveSuccessor ==
    ASSUME NEW q, Apart(q), NEW l \in Lists, NEW k \in 1 .. Len(q[l])
    PROVE  [q EXCEPT ![l] = RemoveAt(q[l], k)] \in Ideal!Successors(q)
<1> DEFINE free == Nodes \ UNION {ToSet(q[h]) : h \in Lists}
           s == q[l]
<1>1. s \in Seq(Nodes) /\ DOMAIN s = 1 .. Len(s)
  BY Elements DEF Apart
<1>2. s[k] \in ToSet(s)
  BY <1>1 DEF ToSet
<1>3. \A j \in 1 .. Len(s) : s[j] = s[k] => j = k
  BY DEF Apart
<1>4. Ideal!Position(s, s[k]) = k
  BY <1>3 DEF Ideal!Position
<1>5. Ideal!Unlink(s, s[k]) = RemoveAt(s, k)
  BY <1>4 DEF Ideal!Unlink, Ideal!RemoveAt, RemoveAt
<1>6. RemoveAt(s, k) \in Ideal!Changed(s, free)
  BY <1>2, <1>5 DEF Ideal!Changed, Ideal!ToSet, ToSet
<1> HIDE DEF free
<1>7. QED
  BY <1>6, IsSuccessor DEF free

-----------------------------------------------------------------------------
(***************************************************************************)
(* The first state, and the steps: the pointers hold lists again, and the  *)
(* ones the next pointers hold have changed as lists do, or not at all.    *)
(***************************************************************************)
LEMMA ListsAre == Lists = {"thread_wait", "thread_ready"}
<1>1. DOMAIN SearchOrder = {1, 2}
  BY DEF SearchOrder
<1>2. QED
  BY <1>1 DEF Lists, ToSet, SearchOrder

LEMMA NewListCells ==
    ASSUME NEW m, Memory(m), NEW l \in Lists
    PROVE  /\ Memory(NewList(m, l))
           /\ NewList(m, l)[<<l, "head">>] = AtBack(l)
           /\ NewList(m, l)[<<l, "tail">>] = NULL
           /\ NewList(m, l)[<<l, "tailPrev">>] = AtFront(l)
           /\ \A h \in Lists : h # l =>
                 \A f \in {"head", "tail", "tailPrev"} : NewList(m, l)[<<h, f>>] = m[<<h, f>>]
<1>1. <<l, "head">> \in Cells /\ <<l, "tail">> \in Cells /\ <<l, "tailPrev">> \in Cells
  BY CellFacts
<1>2. \A h \in Lists : \A f \in {"head", "tail", "tailPrev"} : <<h, f>> \in Cells
  BY CellFacts
<1> DEFINE m1 == [m EXCEPT ![<<l, "head">>] = AtBack(l)]
           m2 == [m1 EXCEPT ![<<l, "tail">>] = NULL]
           m3 == [m2 EXCEPT ![<<l, "tailPrev">>] = AtFront(l)]
<1>3. NewList(m, l) = m3
  BY DEF NewList, AtFront, AtBack
<1>4. AtBack(l) \in Addresses /\ AtFront(l) \in Addresses
  BY AddressFacts
<1>5. /\ m1 \in [Cells -> Addresses \cup {NULL}]
      /\ \A c \in Cells : m1[c] = IF c = <<l, "head">> THEN AtBack(l) ELSE m[c]
  BY <1>1, <1>4 DEF Memory
<1> HIDE DEF m1
<1>6. /\ m2 \in [Cells -> Addresses \cup {NULL}]
      /\ \A c \in Cells : m2[c] = IF c = <<l, "tail">> THEN NULL ELSE m1[c]
  BY <1>1, <1>5
<1> HIDE DEF m2
<1>7. /\ m3 \in [Cells -> Addresses \cup {NULL}]
      /\ \A c \in Cells : m3[c] = IF c = <<l, "tailPrev">> THEN AtFront(l) ELSE m2[c]
  BY <1>1, <1>4, <1>6
<1> HIDE DEF m3
<1>8. m3[<<l, "head">>] = AtBack(l) /\ m3[<<l, "tail">>] = NULL
      /\ m3[<<l, "tailPrev">>] = AtFront(l)
  BY <1>1, <1>5, <1>6, <1>7
<1>9. ASSUME NEW h \in Lists, h # l, NEW f \in {"head", "tail", "tailPrev"}
      PROVE  m3[<<h, f>>] = m[<<h, f>>]
  BY <1>2, <1>5, <1>6, <1>7, <1>9
<1>10. QED
  BY <1>3, <1>7, <1>8, <1>9 DEF Memory

LEMMA InitHeld ==
    ASSUME Init
    PROVE  Held(mem, [l \in Lists |-> <<>>])
<1> DEFINE m0 == [c \in Cells |-> NULL]
           m1 == NewList(m0, "thread_wait")
           m2 == NewList(m1, "thread_ready")
           q  == [l \in Lists |-> <<>>]
<1>1. mem = m2
  BY DEF Init
<1>2. Memory(m0)
  BY DEF Memory
<1>3. "thread_wait" \in Lists /\ "thread_ready" \in Lists
  BY ListsAre
<1> HIDE DEF m0
<1>4. /\ Memory(m1)
      /\ m1[<<"thread_wait", "head">>] = AtBack("thread_wait")
      /\ m1[<<"thread_wait", "tail">>] = NULL
      /\ m1[<<"thread_wait", "tailPrev">>] = AtFront("thread_wait")
  BY <1>2, <1>3, NewListCells
<1> HIDE DEF m1
<1>5. /\ Memory(m2)
      /\ m2[<<"thread_ready", "head">>] = AtBack("thread_ready")
      /\ m2[<<"thread_ready", "tail">>] = NULL
      /\ m2[<<"thread_ready", "tailPrev">>] = AtFront("thread_ready")
      /\ \A h \in Lists : h # "thread_ready" =>
            \A f \in {"head", "tail", "tailPrev"} : m2[<<h, f>>] = m1[<<h, f>>]
  BY <1>3, <1>4, NewListCells
<1> HIDE DEF m2
<1>6. \A l \in Lists : /\ m2[<<l, "head">>] = AtBack(l)
                       /\ m2[<<l, "tail">>] = NULL
                       /\ m2[<<l, "tailPrev">>] = AtFront(l)
  BY <1>3, <1>4, <1>5, ListsAre
<1>7. Apart(q) /\ \A l \in Lists : q[l] = <<>> /\ Len(q[l]) = 0
  BY DEF Apart
<1> HIDE DEF q
<1>8. ASSUME NEW l \in Lists
      PROVE  Forward(m2, l, q[l]) /\ Backward(m2, l, q[l])
  <2>1. /\ next(m2, AtFront(l)) = AtBack(l)
        /\ next(m2, AtBack(l)) = NULL
        /\ prev(m2, AtBack(l)) = AtFront(l)
    BY <1>6, CellFacts DEF next, prev
  <2>2. At(l, q[l], 0) = AtFront(l) /\ At(l, q[l], 0 + 1) = AtBack(l)
    BY <1>7 DEF At
  <2>3. \A i \in 0 .. Len(q[l]) : i = 0
    BY <1>7
  <2>4. QED
    BY <2>1, <2>2, <2>3 DEF Forward, Backward
<1>9. QED
  BY <1>1, <1>5, <1>7, <1>8 DEF Held, Forwards, Backwards, q

StepTo(q) ==
    /\ Memory(mem')
    /\ \E u, v \in [Lists -> Seq(Nodes)] :
          Linking(u, v)' /\ (u = q \/ u \in Ideal!Successors(q))

LEMMA LinkingHeld ==
    ASSUME Memory(mem), removing = NULL, NEW q, NEW r, Linking(q, r)
    PROVE  Held(mem, q) /\ q = r
  BY DEF Held, Linking

LEMMA HeldSteps ==
    ASSUME NEW q, NEW u, Held(mem', u), removing' = NULL, u = q \/ u \in Ideal!Successors(q)
    PROVE  StepTo(q)
<1>1. u \in [Lists -> Seq(Nodes)]
  BY DEF Held, Apart
<1>2. Linking(u, u)'
  BY DEF Held, Linking
<1>3. QED
  BY <1>1, <1>2 DEF StepTo, Held

LEMMA InsertSteps ==
    ASSUME Memory(mem), NEW q, NEW r, Linking(q, r),
           NEW l \in Lists, NEW n \in Nodes, Insert(l, n)
    PROVE  StepTo(q)
<1>1. removing = NULL /\ removing' = NULL
  BY DEF Insert, Change
<1>2. Held(mem, q) /\ Apart(q) /\ Forwards(mem, q)
  BY <1>1, LinkingHeld DEF Held
<1>3. Unlinked(q, n)
  <2>1. ASSUME NEW h \in Lists, NEW i \in 1 .. Len(q[h])
        PROVE  q[h][i] # n
    <3>1. n \notin ToSet(Walk(mem, h))
      BY DEF Insert, Linked
    <3>2. Walk(mem, h) = q[h] /\ ToSet(q[h]) = {q[h][j] : j \in 1 .. Len(q[h])}
      BY <1>2, WalkHeld, Elements
    <3>3. QED
      BY <3>1, <3>2
  <2>2. QED
    BY <2>1 DEF Unlinked
<1>4. CASE mem' = AddHead(mem, l, n)
  <2> DEFINE u == [q EXCEPT ![l] = InsertAt(q[l], 1, n)]
  <2>1. Held(mem', u)
    BY <1>2, <1>3, <1>4, HeldAddHead
  <2>2. u \in Ideal!Successors(q)
    BY <1>2, <1>3, InsertSuccessor
  <2> HIDE DEF u
  <2>3. QED
    BY <1>1, <2>1, <2>2, HeldSteps
<1>5. CASE mem' = AddTail(mem, l, n)
  <2> DEFINE u == [q EXCEPT ![l] = InsertAt(q[l], Len(q[l]) + 1, n)]
  <2>1. Held(mem', u)
    BY <1>2, <1>3, <1>5, HeldAddTail
  <2>2. u \in Ideal!Successors(q)
    BY <1>2, <1>3, InsertSuccessor
  <2> HIDE DEF u
  <2>3. QED
    BY <1>1, <2>1, <2>2, HeldSteps
<1>6. CASE mem' = Enqueue(mem, l, n)
  <2> DEFINE u == [q EXCEPT ![l] = InsertAt(q[l], EnqueuedAt(q[l], n), n)]
  <2>1. Held(mem', u)
    BY <1>2, <1>3, <1>6, HeldEnqueue
  <2>2. u \in Ideal!Successors(q)
    BY <1>2, <1>3, InsertSuccessor
  <2> HIDE DEF u
  <2>3. QED
    BY <1>1, <2>1, <2>2, HeldSteps
<1>7. QED
  BY <1>4, <1>5, <1>6 DEF Insert, Change

LEMMA TakeSteps ==
    ASSUME Memory(mem), NEW q, NEW r, Linking(q, r),
           NEW l \in Lists, TakeHead(l) \/ TakeTail(l)
    PROVE  StepTo(q)
<1>1. removing = NULL /\ removing' = NULL
  BY DEF TakeHead, TakeTail, Change
<1>2. Held(mem, q) /\ Apart(q) /\ Forwards(mem, q)
  BY <1>1, LinkingHeld DEF Held
<1>3. GetHead(mem, l) = IF Len(q[l]) = 0 THEN NULL ELSE q[l][1]
  BY <1>2, WalkHeld
<1>4. Len(q[l]) \in Nat
  BY <1>2, Elements DEF Apart
<1>5. CASE TakeHead(l) /\ Len(q[l]) = 0
  <2>1. mem' = mem
    BY <1>2, <1>5, HeldRemoveHead DEF TakeHead, Change
  <2>2. QED
    BY <1>1, <1>2, <2>1, HeldSteps
<1>6. CASE TakeHead(l) /\ Len(q[l]) # 0
  <2> DEFINE u == [q EXCEPT ![l] = RemoveAt(q[l], 1)]
  <2>1. Held(mem', u)
    BY <1>2, <1>6, HeldRemoveHead DEF TakeHead, Change
  <2>2. 1 \in 1 .. Len(q[l])
    BY <1>4, <1>6
  <2>3. u \in Ideal!Successors(q)
    BY <1>2, <2>2, RemoveSuccessor
  <2> HIDE DEF u
  <2>4. QED
    BY <1>1, <2>1, <2>3, HeldSteps
<1>7. CASE TakeTail(l)
  <2> DEFINE u == [q EXCEPT ![l] = RemoveAt(q[l], Len(q[l]))]
  <2>1. Len(q[l]) # 0
    BY <1>3, <1>7 DEF TakeTail
  <2>2. Held(mem', u)
    BY <1>2, <1>7, <2>1, HeldRemoveTail DEF TakeTail, Change
  <2>3. Len(q[l]) \in 1 .. Len(q[l])
    BY <1>4, <2>1
  <2>4. u \in Ideal!Successors(q)
    BY <1>2, <2>3, RemoveSuccessor
  <2> HIDE DEF u
  <2>5. QED
    BY <1>1, <2>2, <2>4, HeldSteps
<1>8. QED
  BY <1>5, <1>6, <1>7

LEMMA ForwardSteps ==
    ASSUME Memory(mem), NEW q, NEW r, Linking(q, r), NEW n \in Nodes, UnlinkForward(n)
    PROVE  StepTo(q)
<1>1. removing = NULL /\ removing' = n /\ mem' = Store1(mem, n) /\ n # NULL
  BY AddressFacts DEF UnlinkForward
<1>2. Held(mem, q) /\ Apart(q) /\ Forwards(mem, q)
  BY <1>1, LinkingHeld DEF Held
<1>3. PICK l \in Lists : n \in ToSet(Walk(mem, l))
  BY DEF UnlinkForward, Linked
<1>4. Walk(mem, l) = q[l] /\ ToSet(q[l]) = {q[l][j] : j \in 1 .. Len(q[l])}
  BY <1>2, WalkHeld, Elements
<1>5. PICK k \in 1 .. Len(q[l]) : q[l][k] = n
  BY <1>3, <1>4
<1> DEFINE u == [q EXCEPT ![l] = RemoveAt(q[l], k)]
<1>6. /\ Memory(mem') /\ Forwards(mem', u) /\ Backwards(mem', q)
      /\ next(mem', n) = At(l, q[l], k + 1)
  BY <1>1, <1>2, <1>5, HeldStore1
<1>7. Apart(u) /\ u \in Ideal!Successors(q)
  BY <1>2, ApartRemoved, RemoveSuccessor
<1>8. u \in [Lists -> Seq(Nodes)] /\ q \in [Lists -> Seq(Nodes)]
  BY <1>2, <1>7 DEF Apart
<1>9. \E h \in Lists : \E j \in 1 .. Len(q[h]) :
         /\ q[h][j] = removing'
         /\ u = [q EXCEPT ![h] = RemoveAt(q[h], j)]
         /\ next(mem', removing') = At(h, q[h], j + 1)
  BY <1>1, <1>5, <1>6
<1> HIDE DEF u
<1>10. Linking(u, q)'
  BY <1>1, <1>2, <1>6, <1>7, <1>9 DEF Linking
<1>11. QED
  BY <1>6, <1>7, <1>8, <1>10 DEF StepTo

LEMMA BackwardSteps ==
    ASSUME Memory(mem), NEW q, NEW r, Linking(q, r), UnlinkBackward
    PROVE  StepTo(q)
<1>1. removing # NULL /\ removing' = NULL /\ mem' = Store2(mem, removing)
  BY DEF UnlinkBackward
<1>2. Apart(r) /\ Backwards(mem, r) /\ Forwards(mem, q)
  BY DEF Linking
<1>3. PICK l \in Lists :
         \E k \in 1 .. Len(r[l]) : /\ r[l][k] = removing
                                   /\ q = [r EXCEPT ![l] = RemoveAt(r[l], k)]
                                   /\ next(mem, removing) = At(l, r[l], k + 1)
  BY <1>1 DEF Linking
<1>4. PICK k \in 1 .. Len(r[l]) : /\ r[l][k] = removing
                                  /\ q = [r EXCEPT ![l] = RemoveAt(r[l], k)]
                                  /\ next(mem, removing) = At(l, r[l], k + 1)
  BY <1>3
<1> DEFINE g == Store2(mem, removing)
<1>5. Held(g, q)
  BY <1>2, <1>4, HeldStore2
<1> HIDE DEF g
<1>6. Held(mem', q)
  BY <1>1, <1>5 DEF g
<1>7. QED
  BY <1>1, <1>6, HeldSteps

LEMMA Steps ==
    ASSUME Memory(mem), NEW q, NEW r, Linking(q, r), [Next]_vars
    PROVE  StepTo(q)
<1>1. q \in [Lists -> Seq(Nodes)] /\ r \in [Lists -> Seq(Nodes)]
  BY DEF Linking, Apart
<1>2. CASE UNCHANGED <<mem, removing>>
  <2>1. Linking(q, r)'
    BY <1>2 DEF Linking
  <2>2. QED
    BY <1>1, <1>2, <2>1 DEF StepTo
<1>3. CASE Next
  <2>1. CASE \E l \in Lists, n \in Nodes : Insert(l, n)
    BY <2>1, InsertSteps
  <2>2. CASE \E l \in Lists : TakeHead(l) \/ TakeTail(l)
    BY <2>2, TakeSteps
  <2>3. CASE \E n \in Nodes : UnlinkForward(n)
    BY <2>3, ForwardSteps
  <2>4. CASE UnlinkBackward
    BY <2>4, BackwardSteps
  <2>5. CASE \E s \in Names : FindThread(s)
    BY <1>2, <2>5 DEF FindThread
  <2>6. QED
    BY <1>3, <2>1, <2>2, <2>3, <2>4, <2>5 DEF Next
<1>4. QED
  BY <1>2, <1>3 DEF vars

-----------------------------------------------------------------------------
(***************************************************************************)
(* strcmp(), and the search that uses it.                                  *)
(***************************************************************************)
LEMMA LeastOfTwo ==
    ASSUME NEW a \in Nat, NEW b \in Nat
    PROVE  /\ Min({a, b}) \in Nat /\ Min({a, b}) <= a /\ Min({a, b}) <= b
           /\ a = b => Min({a, b}) = a
<1>1. Min({a, b}) \in {a, b} /\ \A m \in {a, b} : Min({a, b}) <= m
  BY MinIsLeast
<1>2. QED
  BY <1>1

\* It takes two strings for equal that are, and two that differ in the last
\* character only.
LEMMA StrCmpZero ==
    ASSUME NEW s, NEW t, s \in Seq(ToSet(s)), t \in Seq(ToSet(t))
    PROVE  StrCmp(s, t) = 0 <=> s = t \/ LastDiffers(s, t)
<1> DEFINE a == Len(s)
           b == Len(t)
           M == Min({a, b})
           differ == {i \in 1 .. M : s[i] # t[i]}
           d == Min(differ)
           stop == IF differ = {} THEN M + 1 ELSE d + 1
<1>1. a \in Nat /\ b \in Nat
  BY Elements
<1>2. M \in Nat /\ M <= a /\ M <= b /\ (a = b => M = a)
  BY <1>1, LeastOfTwo
<1>3. StrCmp(s, t) = CASE stop > a /\ stop > b -> 0
                       [] stop > a /\ stop <= b -> -1
                       [] OTHER -> 1
  BY DEF StrCmp
<1>4. differ # {} => d \in differ /\ \A i \in differ : d <= i
  <2>1. differ \subseteq Nat
    BY <1>2
  <2> HIDE DEF differ
  <2>2. QED
    BY <2>1, MinIsLeast
<1>5. \A i : i \in differ <=> i \in 1 .. M /\ s[i] # t[i]
  OBVIOUS
<1>6. s = t <=> a = b /\ \A i \in 1 .. a : s[i] = t[i]
  <2>1. ASSUME a = b, \A i \in 1 .. a : s[i] = t[i]
        PROVE  s = t
    <3>1. s = [i \in 1 .. a |-> s[i]]
      BY Elements
    <3>2. t = [i \in 1 .. b |-> t[i]]
      BY Elements
    <3> HIDE DEF a, b
    <3>3. [i \in 1 .. a |-> s[i]] = [i \in 1 .. b |-> t[i]]
      BY <2>1
    <3>4. QED
      BY <3>1, <3>2, <3>3
  <2>2. QED
    BY <2>1
<1>7. LastDiffers(s, t) <=> s # t /\ a = b /\ \A i \in 1 .. a - 1 : s[i] = t[i]
  BY DEF LastDiffers
<1> HIDE DEF a, b, M, differ, d
<1>8. stop \in Nat
  BY <1>2, <1>4, <1>5
<1>9. StrCmp(s, t) = 0 <=> stop > a /\ stop > b
  <2> HIDE DEF stop
  <2>1. stop > a /\ stop > b => StrCmp(s, t) = 0
    BY <1>1, <1>3, <1>8
  <2>2. ~ (stop > a /\ stop > b) => StrCmp(s, t) \in {-1, 1}
    BY <1>1, <1>3, <1>8
  <2>3. QED
    BY <2>1, <2>2
<1>10. CASE differ = {}
  <2>1. stop = M + 1
    BY <1>10
  <2>2. StrCmp(s, t) = 0 <=> a = b
    BY <1>1, <1>2, <1>9, <2>1
  <2>3. a = b => s = t
    BY <1>2, <1>5, <1>6, <1>10
  <2>4. QED
    BY <1>6, <1>7, <2>2, <2>3
<1>11. CASE differ # {}
  <2>1. stop = d + 1 /\ d \in 1 .. M /\ s[d] # t[d] /\ \A i \in differ : d <= i
    BY <1>4, <1>5, <1>11
  <2>2. s # t
    <3>1. d \in 1 .. a
      BY <1>1, <1>2, <2>1
    <3>2. QED
      BY <1>6, <2>1, <3>1
  <2>3. StrCmp(s, t) = 0 <=> d = a /\ d = b
    BY <1>1, <1>2, <1>9, <2>1
  <2>4. ASSUME d = a, d = b
        PROVE  LastDiffers(s, t)
    <3>1. ASSUME NEW i \in 1 .. a - 1
          PROVE  s[i] = t[i]
      <4>1. i \in 1 .. M /\ ~ (d <= i)
        BY <1>1, <1>2, <2>4
      <4>2. QED
        BY <1>5, <2>1, <4>1
    <3>2. QED
      BY <1>7, <2>2, <2>4, <3>1
  <2>5. ASSUME LastDiffers(s, t)
        PROVE  d = a /\ d = b
    <3>1. a = b /\ \A i \in 1 .. a - 1 : s[i] = t[i]
      BY <1>7, <2>5
    <3>2. d \notin 1 .. a - 1
      BY <2>1, <3>1
    <3>3. QED
      BY <1>1, <1>2, <2>1, <3>1, <3>2
  <2>6. QED
    BY <2>2, <2>3, <2>4, <2>5
<1>12. QED
  BY <1>10, <1>11

\* The nodes in the lists.
InLists(q) == {n \in Nodes : \E l \in Lists : \E i \in 1 .. Len(q[l]) : q[l][i] = n}

LEMMA SearchFinds ==
    ASSUME NEW m, NEW q, Apart(q), Forwards(m, q), NEW s
    PROVE  \/ /\ Search(m, s) = NULL
              /\ \A n \in InLists(q) : StrCmp(name[n], s) # 0
           \/ /\ Search(m, s) \in InLists(q)
              /\ StrCmp(name[Search(m, s)], s) = 0
<1> DEFINE w == q["thread_wait"]
           r == q["thread_ready"]
           list == w \o r
           hits == {i \in 1 .. Len(list) : StrCmp(name[list[i]], s) = 0}
<1>1. "thread_wait" \in Lists /\ "thread_ready" \in Lists
  BY ListsAre
<1>2. w \in Seq(Nodes) /\ r \in Seq(Nodes) /\ Walk(m, "thread_wait") = w
      /\ Walk(m, "thread_ready") = r
  BY <1>1, WalkHeld
<1>3. SearchOrder[1] = "thread_wait" /\ SearchOrder[2] = "thread_ready"
  BY SMTT(60) DEF SearchOrder
<1>4. Search(m, s) = IF hits = {} THEN NULL ELSE list[Min(hits)]
  BY <1>2, <1>3 DEF Search
<1>5. /\ Len(w) \in Nat /\ Len(r) \in Nat
      /\ (\A i \in 1 .. Len(w) : w[i] \in Nodes) /\ (\A i \in 1 .. Len(r) : r[i] \in Nodes)
  BY <1>2, Elements
<1> HIDE DEF w, r
<1>6. /\ list \in Seq(Nodes)
      /\ Len(list) = Len(w) + Len(r)
      /\ \A i \in 1 .. Len(w) + Len(r) :
            list[i] = IF i <= Len(w) THEN w[i] ELSE r[i - Len(w)]
  BY <1>2, ConcatProperties
<1> HIDE DEF list
<1>7. \A i \in 1 .. Len(list) : list[i] \in InLists(q)
  <2>1. ASSUME NEW i \in 1 .. Len(list)
        PROVE  list[i] \in InLists(q)
    <3>1. CASE i <= Len(w)
      <4>1. i \in 1 .. Len(w) /\ list[i] = w[i]
        BY <1>5, <1>6, <3>1
      <4>2. QED
        BY <1>1, <1>5, <4>1 DEF InLists, w
    <3>2. CASE ~ (i <= Len(w))
      <4>1. i - Len(w) \in 1 .. Len(r) /\ list[i] = r[i - Len(w)]
        BY <1>5, <1>6, <3>2
      <4>2. QED
        BY <1>1, <1>5, <4>1 DEF InLists, r
    <3>3. QED
      BY <3>1, <3>2
  <2>2. QED
    BY <2>1
<1>8. \A n \in InLists(q) : \E i \in 1 .. Len(list) : list[i] = n
  <2>1. ASSUME NEW n \in InLists(q)
        PROVE  \E i \in 1 .. Len(list) : list[i] = n
    <3>1. (\E i \in 1 .. Len(w) : w[i] = n) \/ (\E i \in 1 .. Len(r) : r[i] = n)
      BY ListsAre DEF InLists, w, r
    <3>2. ASSUME NEW i \in 1 .. Len(w), w[i] = n
          PROVE  \E j \in 1 .. Len(list) : list[j] = n
      <4>1. i \in 1 .. Len(w) + Len(r) /\ i <= Len(w)
        BY <1>5
      <4>2. QED
        BY <1>6, <3>2, <4>1
    <3>3. ASSUME NEW i \in 1 .. Len(r), r[i] = n
          PROVE  \E j \in 1 .. Len(list) : list[j] = n
      <4> DEFINE j == i + Len(w)
      <4>1. j \in 1 .. Len(w) + Len(r) /\ ~ (j <= Len(w)) /\ j - Len(w) = i
        BY <1>5
      <4> HIDE DEF j
      <4>2. list[j] = n
        BY <1>6, <3>3, <4>1
      <4>3. QED
        BY <1>6, <4>1, <4>2
    <3>4. QED
      BY <3>1, <3>2, <3>3
  <2>2. QED
    BY <2>1
<1>9. \A i : i \in hits <=> i \in 1 .. Len(list) /\ StrCmp(name[list[i]], s) = 0
  OBVIOUS
<1>10. Len(list) \in Nat
  BY <1>5, <1>6
<1> HIDE DEF hits
<1>11. CASE hits = {}
  <2>1. ASSUME NEW n \in InLists(q)
        PROVE  StrCmp(name[n], s) # 0
    <3>1. PICK i \in 1 .. Len(list) : list[i] = n
      BY <1>8
    <3>2. i \notin hits
      BY <1>11
    <3>3. QED
      BY <1>9, <3>1, <3>2
  <2>2. QED
    BY <1>4, <1>11, <2>1
<1>12. CASE hits # {}
  <2>1. hits \subseteq Nat
    BY <1>9, <1>10
  <2>2. Min(hits) \in hits
    BY <1>12, <2>1, MinIsLeast
  <2>3. QED
    BY <1>4, <1>7, <1>9, <1>12, <2>2
<1>13. QED
  BY <1>11, <1>12

LEMMA LinkedIs ==
    ASSUME NEW q, Apart(q), Forwards(mem, q), NEW l \in Lists
    PROVE  Linked(l) = {q[l][i] : i \in 1 .. Len(q[l])} /\ Linked(l) \subseteq Nodes
<1>1. q[l] \in Seq(Nodes) /\ Walk(mem, l) = q[l]
  BY WalkHeld
<1>2. Linked(l) = ToSet(q[l])
  BY <1>1 DEF Linked
<1>3. ToSet(q[l]) = {q[l][i] : i \in 1 .. Len(q[l])} /\ \A i \in 1 .. Len(q[l]) : q[l][i] \in Nodes
  BY <1>1, Elements
<1>4. QED
  BY <1>2, <1>3

-----------------------------------------------------------------------------
(***************************************************************************)
(* The invariant.                                                          *)
(***************************************************************************)
LEMMA InitInv == Init => ListInv
<1>1. SUFFICES ASSUME Init
               PROVE  ListInv
  OBVIOUS
<1> DEFINE q == [l \in Lists |-> <<>>]
<1>2. Held(mem, q)
  BY <1>1, InitHeld
<1> HIDE DEF q
<1>3. q \in [Lists -> Seq(Nodes)] /\ Linking(q, q)
  BY <1>1, <1>2 DEF Held, Linking, Apart, Init
<1>4. QED
  BY <1>1, <1>2, <1>3 DEF ListInv, Held, Init

LEMMA StepInv == ListInv /\ [Next]_vars => ListInv'
<1>1. SUFFICES ASSUME ListInv, [Next]_vars
               PROVE  ListInv'
  OBVIOUS
<1>2. Memory(mem) /\ removing \in Nodes \cup {NULL}
  BY <1>1 DEF ListInv
<1>3. PICK q, r \in [Lists -> Seq(Nodes)] : Linking(q, r)
  BY <1>1 DEF ListInv
<1>4. StepTo(q)
  BY <1>1, <1>2, <1>3, Steps
<1>5. Memory(mem') /\ \E u, v \in [Lists -> Seq(Nodes)] : Linking(u, v)'
  BY <1>4 DEF StepTo
<1>6. /\ removing' \in Nodes \cup {NULL}
      /\ sought' \in Names \cup {NULL}
      /\ found' \in Nodes \cup {NULL}
      /\ sought' # NULL => found' = Search(mem', sought')
  <2>1. CASE UNCHANGED vars
    BY <1>1, <2>1 DEF ListInv, vars
  <2>2. CASE \E m : Change(m)
    BY <1>2, <2>2 DEF Change
  <2>3. CASE \E n \in Nodes : UnlinkForward(n)
    BY <2>3 DEF UnlinkForward
  <2>4. CASE UnlinkBackward
    BY <2>4 DEF UnlinkBackward
  <2>5. CASE \E s \in Names : FindThread(s)
    <3>1. PICK s \in Names : FindThread(s)
      BY <2>5
    <3>2. /\ mem' = mem /\ removing' = removing
          /\ sought' = s /\ found' = Search(mem, s)
      BY <3>1 DEF FindThread
    <3>3. Search(mem, s) \in Nodes \cup {NULL}
      <4>1. Apart(q) /\ Forwards(mem, q)
        BY <1>3 DEF Linking
      <4>2. Search(mem, s) = NULL \/ Search(mem, s) \in InLists(q)
        BY <4>1, SearchFinds
      <4>3. QED
        BY <4>2 DEF InLists
    <3>4. QED
      BY <1>2, <3>2, <3>3
  <2>6. Next => \/ \E m : Change(m)
                \/ \E n \in Nodes : UnlinkForward(n)
                \/ UnlinkBackward
                \/ \E s \in Names : FindThread(s)
    BY DEF Next, Insert, TakeHead, TakeTail
  <2>7. QED
    BY <1>1, <2>1, <2>2, <2>3, <2>4, <2>5, <2>6
<1>7. QED
  BY <1>5, <1>6 DEF ListInv

\* The pointers hold lists in every state, also between the two stores of
\* remove().
THEOREM ListsKept == Spec => []ListInv
  BY InitInv, StepInv, PTL DEF Spec

-----------------------------------------------------------------------------
(***************************************************************************)
(* What the invariant says.                                                *)
(***************************************************************************)
LEMMA InvTyped == ListInv => TypeOK
<1>1. SUFFICES ASSUME ListInv
               PROVE  TypeOK
  OBVIOUS
<1>2. PICK q, r \in [Lists -> Seq(Nodes)] : Linking(q, r)
  BY <1>1 DEF ListInv
<1>3. ASSUME NEW l \in Lists
      PROVE  /\ mem[AtFront(l)] # NULL
             /\ mem[AtBack(l)] = NULL
             /\ mem[<<l, "tailPrev">>] # NULL
  <2>1. /\ q[l] \in Seq(Nodes) /\ r[l] \in Seq(Nodes)
        /\ Len(q[l]) \in Nat /\ Len(r[l]) \in Nat
        /\ Forward(mem, l, q[l]) /\ Backward(mem, l, r[l])
    BY <1>2, Elements DEF Linking, Forwards, Backwards
  <2>2. /\ next(mem, AtFront(l)) = At(l, q[l], 1) /\ next(mem, AtBack(l)) = NULL
        /\ prev(mem, AtBack(l)) = At(l, r[l], Len(r[l]))
    BY <2>1, ForwardAt, BackwardAt
  <2>3. /\ mem[AtFront(l)] = At(l, q[l], 1)
        /\ mem[AtBack(l)] = NULL
        /\ mem[<<l, "tailPrev">>] = At(l, r[l], Len(r[l]))
    BY <2>2, CellFacts DEF next, prev, AtFront, AtBack
  <2>4. 1 \in 0 .. (Len(q[l]) + 1) /\ Len(r[l]) \in 0 .. (Len(r[l]) + 1)
    BY <2>1
  <2>5. At(l, q[l], 1) # NULL
    BY <2>1, <2>4, Positions
  <2>6. At(l, r[l], Len(r[l])) # NULL
    BY <2>1, <2>4, Positions
  <2>7. QED
    BY <2>3, <2>5, <2>6
<1>4. QED
  BY <1>1, <1>3 DEF ListInv, Memory, TypeOK

\* The code's cells hold addresses or NULL, and the ones of the list heads
\* hold NULL exactly where list.c says.
THEOREM ListsTyped == Spec => []TypeOK
  BY ListsKept, InvTyped, PTL

LEMMA NotThere ==
    ASSUME NEW s \in Seq(Nodes), NEW e, \A i \in 1 .. Len(s) : s[i] # e
    PROVE  RemoveFirst(s, e) = s
  BY DEF RemoveFirst

LEMMA RemoveFirstIs ==
    ASSUME NEW s \in Seq(Nodes), Distinct(s), NEW k \in 1 .. Len(s)
    PROVE  RemoveFirst(s, s[k]) = RemoveAt(s, k)
<1> DEFINE I == {i \in 1 .. Len(s) : s[i] = s[k]}
<1>1. I = {k}
  BY DEF Distinct
<1>2. Min(I) = k
  <2>1. k \in Nat
    BY Elements
  <2>2. {k} \subseteq Nat /\ k \in {k} /\ \A m \in {k} : k <= m
    BY <2>1
  <2>3. Min({k}) = k
    BY <2>2, MinIs
  <2> HIDE DEF I
  <2>4. QED
    BY <1>1, <2>3
<1>3. SelectInSeq(s, LAMBDA v : v = s[k]) = k
  BY <1>1, <1>2 DEF SelectInSeq
<1>4. \E i \in 1 .. Len(s) : s[i] = s[k]
  OBVIOUS
<1>5. QED
  BY <1>3, <1>4 DEF RemoveFirst

LEMMA RemovedReversed ==
    ASSUME NEW s \in Seq(Nodes), NEW k \in 1 .. Len(s)
    PROVE  /\ Len(s) - k + 1 \in 1 .. Len(s)
           /\ Reverse(s)[Len(s) - k + 1] = s[k]
           /\ RemoveAt(Reverse(s), Len(s) - k + 1) = Reverse(RemoveAt(s, k))
<1> DEFINE N == Len(s)
           z == Reverse(s)
           j == N - k + 1
           t == RemoveAt(s, k)
           x == RemoveAt(z, j)
           y == Reverse(t)
<1>1. N \in Nat /\ k \in 1 .. N
  BY Elements
<1>2. z \in Seq(Nodes) /\ Len(z) = N /\ \A i \in 1 .. N : z[i] = s[N - i + 1]
  BY Reversed
<1>3. t \in Seq(Nodes) /\ Len(t) = N - 1
      /\ \A i \in 1 .. (N - 1) : t[i] = IF i < k THEN s[i] ELSE s[i + 1]
  BY RemovedAt DEF Removed
<1> HIDE DEF N, z, t
<1>4. y \in Seq(Nodes) /\ Len(y) = N - 1 /\ \A i \in 1 .. (N - 1) : y[i] = t[(N - 1) - i + 1]
  BY <1>3, Reversed, SMTT(60)
<1>5. j \in 1 .. N /\ N - j + 1 = k
  BY <1>1
<1> HIDE DEF j, y
<1>6. x \in Seq(Nodes) /\ Len(x) = N - 1
      /\ \A i \in 1 .. (N - 1) : x[i] = IF i < j THEN z[i] ELSE z[i + 1]
  BY <1>2, <1>5, RemovedAt DEF Removed
<1> HIDE DEF x
<1>7. ASSUME NEW i \in 1 .. (N - 1)
      PROVE  x[i] = y[i]
  <2> DEFINE h == (N - 1) - i + 1
  <2>1. h \in 1 .. (N - 1) /\ i \in 1 .. N /\ i + 1 \in 1 .. N
        /\ N - (i + 1) + 1 = h /\ N - i + 1 = h + 1
    BY <1>1
  <2>2. i < j <=> ~ (h < k)
    BY <1>1 DEF j
  <2>3. y[i] = IF h < k THEN s[h] ELSE s[h + 1]
    BY <1>3, <1>4, <2>1
  <2>4. z[i] = s[h + 1] /\ z[i + 1] = s[h]
    <3>1. z[i] = s[N - i + 1] /\ z[i + 1] = s[N - (i + 1) + 1]
      BY <1>2, <2>1
    <3>2. QED
      BY <2>1, <3>1
  <2> HIDE DEF h
  <2>5. QED
    BY <1>6, <2>2, <2>3, <2>4
<1>8. x = y
  BY <1>4, <1>6, <1>7, SeqEqual
<1>9. z[j] = s[k]
  BY <1>2, <1>5
<1>10. QED
  BY <1>5, <1>8, <1>9 DEF N, z, j, t, x, y

LEMMA InvLinked == ListInv => WellLinked
<1>1. SUFFICES ASSUME ListInv
               PROVE  WellLinked
  OBVIOUS
<1>2. PICK q, r \in [Lists -> Seq(Nodes)] : Linking(q, r)
  BY <1>1 DEF ListInv
<1>3. Apart(q) /\ Apart(r) /\ Forwards(mem, q) /\ Backwards(mem, r)
      /\ (removing = NULL => q = r)
  BY <1>2 DEF Linking
<1>4. ASSUME NEW l \in Lists
      PROVE  /\ IsInjective(Walk(mem, l))
             /\ IsInjective(WalkBack(mem, l))
             /\ Rest(l) = Reverse(Walk(mem, l))
             /\ removing = NULL /\ Walk(mem, l) # <<>> => GetTail(mem, l) = Last(Walk(mem, l))
  <2>1. /\ q[l] \in Seq(Nodes) /\ Distinct(q[l]) /\ Walk(mem, l) = q[l]
        /\ GetHead(mem, l) = IF Len(q[l]) = 0 THEN NULL ELSE q[l][1]
    BY <1>3, WalkHeld
  <2>2. r[l] \in Seq(Nodes) /\ Distinct(r[l]) /\ Backward(mem, l, r[l])
    BY <1>3 DEF Apart, Distinct, Backwards
  <2>3. WalkBack(mem, l) = Reverse(r[l])
    BY <2>2, WalkBackIs
  <2>4. Reverse(r[l]) \in Seq(Nodes) /\ Len(Reverse(r[l])) = Len(r[l]) /\ Distinct(Reverse(r[l]))
        /\ \A i \in 1 .. Len(r[l]) : Reverse(r[l])[i] = r[l][Len(r[l]) - i + 1]
    BY <2>2, Reversed
  <2>5. IsInjective(Walk(mem, l))
    <3>1. DOMAIN q[l] = 1 .. Len(q[l])
      BY <2>1, Elements
    <3>2. QED
      BY <2>1, <3>1 DEF IsInjective, Distinct
  <2>6. IsInjective(WalkBack(mem, l))
    <3> DEFINE z == Reverse(r[l])
    <3>1. z \in Seq(Nodes) /\ Distinct(z)
      BY <2>4
    <3> HIDE DEF z
    <3>2. IsInjective(z)
      BY <3>1, Elements DEF IsInjective, Distinct
    <3>3. QED
      BY <2>3, <3>2 DEF z
  <2>7. /\ Len(r[l]) \in Nat
        /\ \A i \in 1 .. Len(r[l]) : Len(r[l]) - i + 1 \in 1 .. Len(r[l])
    BY <2>2, Elements
  <2>8. (\A i \in 1 .. Len(r[l]) : r[l][i] # removing)
           => RemoveFirst(Reverse(r[l]), removing) = Reverse(r[l])
    BY <2>4, <2>7, NotThere
  <2>9. Rest(l) = Reverse(Walk(mem, l))
    <3>1. CASE removing = NULL
      <4>1. \A i \in 1 .. Len(r[l]) : r[l][i] # removing
        BY <2>2, <3>1, Elements, AddressFacts
      <4>2. QED
        BY <1>3, <2>1, <2>3, <2>8, <3>1, <4>1 DEF Rest
    <3>2. CASE removing # NULL
      <4>1. PICK h \in Lists : \E j \in 1 .. Len(r[h]) :
                /\ r[h][j] = removing
                /\ q = [r EXCEPT ![h] = RemoveAt(r[h], j)]
        BY <1>2, <3>2 DEF Linking
      <4>2. PICK k \in 1 .. Len(r[h]) : /\ r[h][k] = removing
                                        /\ q = [r EXCEPT ![h] = RemoveAt(r[h], k)]
        BY <4>1
      <4>3. CASE h = l
        <5>1. q[l] = RemoveAt(r[l], k) /\ k \in 1 .. Len(r[l]) /\ r[l][k] = removing
          BY <4>2, <4>3
        <5> DEFINE z == Reverse(r[l])
                   j == Len(r[l]) - k + 1
        <5>2. j \in 1 .. Len(r[l]) /\ z[j] = removing /\ RemoveAt(z, j) = Reverse(RemoveAt(r[l], k))
          BY <2>2, <5>1, RemovedReversed
        <5>3. z \in Seq(Nodes) /\ Distinct(z) /\ j \in 1 .. Len(z)
          BY <2>4, <5>2
        <5> HIDE DEF z, j
        <5>4. RemoveFirst(z, removing) = RemoveAt(z, j)
          BY <5>2, <5>3, RemoveFirstIs
        <5>5. QED
          BY <2>1, <2>3, <5>1, <5>2, <5>4 DEF Rest, z
      <4>4. CASE h # l
        <5>1. q[l] = r[l]
          BY <4>2, <4>4
        <5>2. \A i \in 1 .. Len(r[l]) : r[l][i] # removing
          BY <1>3, <4>2, <4>4 DEF Apart
        <5>3. QED
          BY <2>1, <2>3, <2>8, <5>1, <5>2 DEF Rest
      <4>5. QED
        BY <4>3, <4>4
    <3>3. QED
      BY <3>1, <3>2
  <2>10. ASSUME removing = NULL, Walk(mem, l) # <<>>
         PROVE  GetTail(mem, l) = Last(Walk(mem, l))
    <3>1. q[l] # <<>> /\ q[l] = r[l] /\ Len(q[l]) \in Nat
      BY <1>3, <2>1, <2>10, Elements
    <3>2. Len(q[l]) # 0
      BY <2>1, <3>1, EmptySeq
    <3>3. 1 \in 1 .. Len(q[l]) /\ Len(q[l]) # Len(q[l]) + 1
      BY <3>1, <3>2
    <3>4. GetHead(mem, l) # NULL
      BY <2>1, <3>2, <3>3, Elements, AddressFacts
    <3>5. prev(mem, AtBack(l)) = At(l, r[l], Len(r[l]))
      BY <2>2, BackwardAt
    <3>6. mem[<<l, "tailPrev">>] = q[l][Len(q[l])]
      BY <3>1, <3>2, <3>3, <3>5, CellFacts DEF prev, At
    <3>7. QED
      BY <2>1, <3>4, <3>6 DEF GetTail, Last
  <2>11. QED
    BY <2>5, <2>6, <2>9, <2>10
<1>5. ASSUME NEW k \in Lists, NEW l \in Lists, k # l
      PROVE  Linked(k) \cap Linked(l) = {}
  <2>1. Linked(k) = {q[k][i] : i \in 1 .. Len(q[k])} /\ Linked(l) = {q[l][i] : i \in 1 .. Len(q[l])}
    BY <1>3, LinkedIs
  <2>2. QED
    BY <1>3, <1>5, <2>1 DEF Apart
<1>6. QED
  BY <1>4, <1>5 DEF WellLinked

\* Both walks over every list visit the same nodes, each once and in
\* opposite orders, and no node is in two lists.
THEOREM ListsWellLinked == Spec => []WellLinked
  BY ListsKept, InvLinked, PTL

LEMMA InvFinds == ListInv => FindsTheNamed
<1>1. SUFFICES ASSUME ListInv
               PROVE  FindsTheNamed
  OBVIOUS
<1>2. PICK q, r \in [Lists -> Seq(Nodes)] : Linking(q, r)
  BY <1>1 DEF ListInv
<1> DEFINE linked == UNION {Linked(l) : l \in Lists}
           namesakes == {n \in linked : name[n] = sought}
<1>3. Apart(q) /\ Forwards(mem, q)
  BY <1>2 DEF Linking
<1>4. linked = InLists(q)
  <2>1. \A l \in Lists : Linked(l) = {q[l][i] : i \in 1 .. Len(q[l])} /\ Linked(l) \subseteq Nodes
    BY <1>3, LinkedIs
  <2>2. \A n : n \in linked <=> \E l \in Lists : n \in Linked(l)
    OBVIOUS
  <2> HIDE DEF linked
  <2>3. \A n : n \in linked <=> n \in InLists(q)
    BY <2>1, <2>2 DEF InLists
  <2>4. QED
    BY <2>3
<1> HIDE DEF linked
<1>5. ASSUME sought # NULL, \A n \in linked : ~ LastDiffers(name[n], sought)
      PROVE  IF namesakes = {} THEN found = NULL ELSE found \in namesakes
  <2>1. sought \in Names /\ found = Search(mem, sought)
    BY <1>1, <1>5 DEF ListInv
  <2>2. ASSUME NEW n \in linked
        PROVE  StrCmp(name[n], sought) = 0 <=> name[n] = sought
    <3>1. n \in Nodes
      BY <1>4 DEF InLists
    <3>2. name[n] \in Seq(ToSet(name[n])) /\ sought \in Seq(ToSet(sought))
      BY <2>1, <3>1, ListAssumption
    <3>3. StrCmp(name[n], sought) = 0 <=> name[n] = sought \/ LastDiffers(name[n], sought)
      BY <3>2, StrCmpZero
    <3>4. QED
      BY <1>5, <3>3
  <2>3. \/ found = NULL /\ \A n \in linked : StrCmp(name[n], sought) # 0
        \/ found \in linked /\ StrCmp(name[found], sought) = 0
    BY <1>3, <1>4, <2>1, SearchFinds
  <2>4. \/ found = NULL /\ namesakes = {}
        \/ found \in namesakes
    BY <2>2, <2>3
  <2>5. QED
    BY <2>4
<1>6. QED
  BY <1>5 DEF FindsTheNamed, linked

\* find_thread() finds a thread of the name it was given exactly if there is
\* one, unless a name differs from it in the last character only.
THEOREM ThreadsFound == Spec => []FindsTheNamed
  BY ListsKept, InvFinds, PTL

-----------------------------------------------------------------------------
(***************************************************************************)
(* The refinement.                                                         *)
(***************************************************************************)
LEMMA InitRefines == Init => Ideal!Init
<1>1. SUFFICES ASSUME Init
               PROVE  Ideal!Init
  OBVIOUS
<1> DEFINE q == [l \in Lists |-> <<>>]
<1>2. Held(mem, q) /\ \A l \in Lists : q[l] = <<>>
  BY <1>1, InitHeld
<1> HIDE DEF q
<1>3. \A l \in Lists : Walk(mem, l) = <<>>
  BY <1>2, WalkHeld DEF Held
<1>4. QED
  BY <1>3 DEF Ideal!Init

LEMMA StepRefines ==
    ListInv /\ [Next]_vars => [Ideal!Next]_([l \in Lists |-> Walk(mem, l)])
<1>1. SUFFICES ASSUME ListInv, [Next]_vars
               PROVE  [Ideal!Next]_([l \in Lists |-> Walk(mem, l)])
  OBVIOUS
<1>2. Memory(mem)
  BY <1>1 DEF ListInv
<1>3. PICK q, r \in [Lists -> Seq(Nodes)] : Linking(q, r)
  BY <1>1 DEF ListInv
<1>4. StepTo(q)
  BY <1>1, <1>2, <1>3, Steps
<1>5. PICK u, v \in [Lists -> Seq(Nodes)] :
         Linking(u, v)' /\ (u = q \/ u \in Ideal!Successors(q))
  BY <1>4 DEF StepTo
<1>6. Apart(q) /\ Forwards(mem, q) /\ Apart(u) /\ Forwards(mem', u)
  BY <1>3, <1>5 DEF Linking
<1>7. [l \in Lists |-> Walk(mem, l)] = q
  <2>1. \A l \in Lists : Walk(mem, l) = q[l]
    BY <1>6, WalkHeld
  <2>2. QED
    BY <2>1
<1>8. [l \in Lists |-> Walk(mem', l)] = u
  <2>1. \A l \in Lists : Walk(mem', l) = u[l]
    BY <1>6, WalkHeld
  <2>2. QED
    BY <2>1
<1>9. QED
  BY <1>5, <1>7, <1>8 DEF Ideal!Next

\* Seen from get_head() and get_next(), every function of list.c changes one
\* sequence of nodes in one step, remove() at the first of its two stores.
THEOREM ImplementsQueues == Spec => ListsAreSequences
<1>1. Init => Ideal!Init
  BY InitRefines
<1>2. ListInv /\ [Next]_vars => [Ideal!Next]_([l \in Lists |-> Walk(mem, l)])
  BY StepRefines
<1>3. QED
  BY <1>1, <1>2, ListsKept, PTL DEF Spec, ListsAreSequences, Ideal!Spec
=============================================================================
