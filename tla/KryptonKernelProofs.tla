------------------------- MODULE KryptonKernelProofs -------------------------
(***************************************************************************)
(* IInv is inductive, and the safety properties that follow from it.       *)
(***************************************************************************)
EXTENDS KryptonKernelInv, SequenceTheorems, WellFoundedInduction, TLAPS

(***************************************************************************)
(* What the operations of list.c do to the nodes of a list, of any length: *)
(* to their set, their order and their distinctness.                       *)
(***************************************************************************)
\* A set of natural numbers that is not empty has a least element.
LEMMA LeastNatural ==
    ASSUME NEW S, S \subseteq Nat, S # {}
    PROVE  \E k \in S : \A m \in S : k <= m
<1> DEFINE Less == {ss \in Nat \X Nat : ss[1] < ss[2]}
<1>1. IsWellFoundedOn(Less, Nat)
  BY NatLessThanWellFounded DEF OpToRel
<1> HIDE DEF Less
<1>2. PICK k \in S : \A m \in S : ~ (<<m, k>> \in Less)
  BY <1>1, WFMin
<1>3. \A m \in S : k <= m
  <2>1. SUFFICES ASSUME NEW m \in S, ~ (k <= m)
                 PROVE  FALSE
    OBVIOUS
  <2>2. m \in Nat /\ k \in Nat /\ m < k
    BY <2>1
  <2>3. <<m, k>> \in Less
    BY <2>2 DEF Less
  <2>4. QED
    BY <1>2, <2>3
<1>4. QED
  BY <1>3

(***************************************************************************)
(* The walk of enqueue() always ends at some place: the search for the     *)
(* insertion point is never without an answer.                             *)
(***************************************************************************)
LEMMA InsertionPointExists ==
    ASSUME NEW s \in Seq(Threads), NEW n \in Threads
    PROVE  LET k == InsertionPoint(s, n)
           IN  /\ k \in 1 .. (Len(s) + 1)
               /\ \A j \in 1 .. (k - 1) : Pri[n] < Pri[s[j]]
               /\ k <= Len(s) => Pri[n] >= Pri[s[k]]
<1> DEFINE Stops == {k \in Nat : /\ k >= 1
                                 /\ k <= Len(s) + 1
                                 /\ k <= Len(s) => Pri[n] >= Pri[s[k]]}
<1>1. Len(s) \in Nat
  OBVIOUS
<1>2. Len(s) + 1 \in Stops
  BY <1>1
<1>3. PICK k \in Stops : \A m \in Stops : k <= m
  <2> HIDE DEF Stops
  <2>1. Stops # {}
    BY <1>2
  <2>2. Stops \in SUBSET Nat
    BY DEF Stops
  <2>3. QED
    BY <2>1, <2>2, LeastNatural
<1>4. \A j \in 1 .. (k - 1) : Pri[n] < Pri[s[j]]
  <2>1. SUFFICES ASSUME NEW j \in 1 .. (k - 1), ~ (Pri[n] < Pri[s[j]])
                 PROVE  FALSE
    OBVIOUS
  <2>2. j \in Nat /\ j < k /\ 1 <= j /\ j <= Len(s)
    BY <1>1, <1>3
  <2>3. s[j] \in Threads
    BY <2>2
  <2>4. Pri[n] \in Int /\ Pri[s[j]] \in Int
    BY <2>3, PriAssumption
  <2>5. j \in Stops
    BY <1>1, <2>1, <2>2, <2>4
  <2>6. QED
    BY <1>3, <2>2, <2>5
<1>5. k \in 1 .. (Len(s) + 1) /\ (k <= Len(s) => Pri[n] >= Pri[s[k]])
  BY <1>1, <1>3
<1>6. QED
  BY <1>4, <1>5 DEF InsertionPoint

(***************************************************************************)
(* enqueue() node by node: what stood before the insertion point keeps its *)
(* place, what stood from there on moves back by one.                      *)
(***************************************************************************)
LEMMA EnqueueElements ==
    ASSUME NEW s \in Seq(Threads), NEW n \in Threads
    PROVE  LET k == InsertionPoint(s, n)
           IN  /\ Enqueue(s, n) \in Seq(Threads)
               /\ Len(Enqueue(s, n)) = Len(s) + 1
               /\ \A i \in 1 .. (Len(s) + 1) :
                     Enqueue(s, n)[i] = IF i < k THEN s[i]
                                        ELSE IF i = k THEN n ELSE s[i - 1]
<1> DEFINE k == InsertionPoint(s, n)
<1>1. k \in 1 .. (Len(s) + 1)
  BY InsertionPointExists
<1>2. Enqueue(s, n) = (SubSeq(s, 1, k - 1) \o <<n>>) \o SubSeq(s, k, Len(s))
  BY DEF Enqueue, InsertAt
<1> HIDE DEF k
<1> DEFINE front == SubSeq(s, 1, k - 1)
           back  == SubSeq(s, k, Len(s))
<1>3. /\ front \in Seq(Threads)
      /\ Len(front) = k - 1
      /\ \A i \in 1 .. (k - 1) : front[i] = s[i]
  BY <1>1
<1>4. /\ back \in Seq(Threads)
      /\ Len(back) = Len(s) - k + 1
      /\ \A i \in 1 .. (Len(s) - k + 1) : back[i] = s[k + i - 1]
  BY <1>1
<1> HIDE DEF front, back
<1>5. /\ front \o <<n>> \in Seq(Threads)
      /\ Len(front \o <<n>>) = k
      /\ \A i \in 1 .. k : (front \o <<n>>)[i] = IF i < k THEN s[i] ELSE n
  BY <1>1, <1>3
<1>6. /\ (front \o <<n>>) \o back \in Seq(Threads)
      /\ Len((front \o <<n>>) \o back) = Len(s) + 1
      /\ \A i \in 1 .. (Len(s) + 1) :
            ((front \o <<n>>) \o back)[i] =
                IF i <= k THEN (front \o <<n>>)[i] ELSE back[i - k]
  <2>1. Len(front \o <<n>>) + Len(back) = Len(s) + 1
    <3>1. Len(s) \in Nat /\ k \in Int
      BY <1>1
    <3>2. Len(front \o <<n>>) = k /\ Len(back) = Len(s) - k + 1
      BY <1>4, <1>5
    <3>3. QED
      BY <3>1, <3>2
  <2> DEFINE u == front \o <<n>>
  <2>2. u \in Seq(Threads) /\ back \in Seq(Threads) /\ Len(u) = k /\ Len(back) \in Nat
    BY <1>4, <1>5
  <2> HIDE DEF u
  <2>3. /\ u \o back \in Seq(Threads)
        /\ Len(u \o back) = Len(u) + Len(back)
    BY <2>2
  <2>4. \A i \in 1 .. (Len(u) + Len(back)) :
            (u \o back)[i] = IF i <= Len(u) THEN u[i] ELSE back[i - Len(u)]
    BY <2>2
  <2>5. Len(u) + Len(back) = Len(s) + 1
    BY <2>1 DEF u
  <2>6. QED
    BY <2>2, <2>3, <2>4, <2>5 DEF u
<1>7. ASSUME NEW i \in 1 .. (Len(s) + 1)
      PROVE  ((front \o <<n>>) \o back)[i] =
                IF i < k THEN s[i] ELSE IF i = k THEN n ELSE s[i - 1]
  <2>1. CASE i <= k
    BY <1>1, <1>5, <1>6, <2>1
  <2>2. CASE i > k
    <3>1. i - k \in 1 .. (Len(s) - k + 1) /\ k + (i - k) - 1 = i - 1
      BY <1>1, <2>2
    <3>2. QED
      BY <1>1, <1>4, <1>6, <2>2, <3>1
  <2>3. i \in Int /\ k \in Int
    BY <1>1
  <2>4. i <= k \/ i > k
    BY <2>3
  <2>5. QED
    BY <2>1, <2>2, <2>4
<1>8. QED
  BY <1>2, <1>6, <1>7 DEF k, front, back

(***************************************************************************)
(* enqueue() links the new node and loses none that was linked.            *)
(***************************************************************************)
LEMMA EnqueueToSet ==
    ASSUME NEW s \in Seq(Threads), NEW n \in Threads
    PROVE  ToSet(Enqueue(s, n)) = ToSet(s) \cup {n}
<1> DEFINE k == InsertionPoint(s, n)
           q == Enqueue(s, n)
<1>1. k \in 1 .. (Len(s) + 1)
  BY InsertionPointExists
<1>2. /\ q \in Seq(Threads)
      /\ Len(q) = Len(s) + 1
      /\ \A i \in 1 .. (Len(s) + 1) :
            q[i] = IF i < k THEN s[i] ELSE IF i = k THEN n ELSE s[i - 1]
  BY EnqueueElements
<1>3. DOMAIN q = 1 .. (Len(s) + 1) /\ DOMAIN s = 1 .. Len(s) /\ Len(s) \in Nat
  BY <1>2
<1> HIDE DEF k, q
<1>4. ASSUME NEW i \in DOMAIN q
      PROVE  q[i] \in ToSet(s) \cup {n}
  <2>1. CASE i < k
    BY <1>1, <1>2, <1>3, <2>1 DEF ToSet
  <2>2. CASE i = k
    BY <1>1, <1>2, <1>3, <2>2
  <2>3. CASE i > k
    <3>1. i - 1 \in DOMAIN s /\ q[i] = s[i - 1]
      BY <1>1, <1>2, <1>3, <2>3
    <3>2. QED
      BY <3>1 DEF ToSet
  <2>4. QED
    BY <1>1, <1>3, <2>1, <2>2, <2>3
<1>5. ASSUME NEW j \in DOMAIN s
      PROVE  s[j] \in ToSet(q)
  <2>1. CASE j < k
    <3>1. j \in DOMAIN q /\ q[j] = s[j]
      BY <1>1, <1>2, <1>3, <2>1
    <3>2. QED
      BY <3>1 DEF ToSet
  <2>2. CASE j >= k
    <3>1. j + 1 \in DOMAIN q /\ q[j + 1] = s[j]
      BY <1>1, <1>2, <1>3, <2>2
    <3>2. QED
      BY <3>1 DEF ToSet
  <2>3. QED
    BY <1>1, <1>3, <2>1, <2>2
<1>6. n \in ToSet(q)
  <2>1. k \in DOMAIN q /\ q[k] = n
    BY <1>1, <1>2, <1>3
  <2>2. QED
    BY <2>1 DEF ToSet
<1>7. QED
  BY <1>4, <1>5, <1>6 DEF ToSet, q

(***************************************************************************)
(* enqueue() of a node that is not linked yet links no node twice.         *)
(***************************************************************************)
LEMMA EnqueueDistinct ==
    ASSUME NEW s \in Seq(Threads), NEW n \in Threads, Distinct(s), n \notin ToSet(s)
    PROVE  Distinct(Enqueue(s, n))
<1> DEFINE k == InsertionPoint(s, n)
           q == Enqueue(s, n)
           old(i) == IF i < k THEN i ELSE i - 1
<1>1. k \in 1 .. (Len(s) + 1) /\ Len(s) \in Nat
  BY InsertionPointExists
<1>2. /\ Len(q) = Len(s) + 1
      /\ \A i \in 1 .. (Len(s) + 1) :
            q[i] = IF i < k THEN s[i] ELSE IF i = k THEN n ELSE s[i - 1]
  BY EnqueueElements
<1>3. \A i \in 1 .. Len(s) : s[i] # n
  BY DEF ToSet
<1> HIDE DEF k, q
<1>4. \A i \in 1 .. (Len(s) + 1) : i # k => old(i) \in 1 .. Len(s) /\ q[i] = s[old(i)]
  BY <1>1, <1>2
<1>5. \A i, j \in 1 .. (Len(s) + 1) : i # k /\ j # k /\ old(i) = old(j) => i = j
  BY <1>1
<1> HIDE DEF old
<1>6. ASSUME NEW i \in 1 .. Len(q), NEW j \in 1 .. Len(q), q[i] = q[j]
      PROVE  i = j
  <2>1. q[k] = n
    BY <1>1, <1>2
  <2>2. CASE i = k
    BY <1>2, <1>3, <1>4, <1>6, <2>1, <2>2
  <2>3. CASE j = k
    BY <1>2, <1>3, <1>4, <1>6, <2>1, <2>3
  <2>4. CASE i # k /\ j # k
    BY <1>2, <1>4, <1>5, <1>6, <2>4 DEF Distinct
  <2>5. QED
    BY <2>2, <2>3, <2>4
<1>7. QED
  BY <1>6 DEF Distinct, q

(***************************************************************************)
(* enqueue() keeps a list in order of falling priority.                    *)
(***************************************************************************)
LEMMA EnqueueSorted ==
    ASSUME NEW s \in Seq(Threads), NEW n \in Threads, Sorted(s)
    PROVE  Sorted(Enqueue(s, n))
<1> DEFINE k == InsertionPoint(s, n)
           q == Enqueue(s, n)
<1>1. /\ k \in 1 .. (Len(s) + 1)
      /\ \A j \in 1 .. (k - 1) : Pri[n] < Pri[s[j]]
      /\ k <= Len(s) => Pri[n] >= Pri[s[k]]
  BY InsertionPointExists
<1>2. /\ Len(q) = Len(s) + 1
      /\ \A i \in 1 .. (Len(s) + 1) :
            q[i] = IF i < k THEN s[i] ELSE IF i = k THEN n ELSE s[i - 1]
  BY EnqueueElements
<1>3. Len(s) \in Nat /\ Pri[n] \in Int /\ \A i \in 1 .. Len(s) : Pri[s[i]] \in Int
  <2>1. \A i \in 1 .. Len(s) : s[i] \in Threads
    OBVIOUS
  <2>2. QED
    BY <2>1, PriAssumption
<1> HIDE DEF k, q
<1>4. \A i \in 1 .. Len(s) : i >= k => Pri[n] >= Pri[s[i]]
  BY <1>1, <1>3 DEF Sorted
<1>5. ASSUME NEW i \in 1 .. Len(q), NEW j \in 1 .. Len(q), i < j
      PROVE  Pri[q[i]] >= Pri[q[j]]
  <2>1. i \in 1 .. (Len(s) + 1) /\ j \in 1 .. (Len(s) + 1)
    BY <1>2
  <2>2. CASE j < k
    BY <1>1, <1>2, <1>3, <1>5, <2>1, <2>2 DEF Sorted
  <2>3. CASE j = k
    <3>1. q[j] = n /\ q[i] = s[i] /\ i \in 1 .. (k - 1)
      BY <1>1, <1>2, <1>5, <2>1, <2>3
    <3>2. Pri[n] < Pri[s[i]]
      BY <1>1, <3>1
    <3>3. i \in 1 .. Len(s)
      BY <1>1, <1>3, <3>1
    <3>4. Pri[n] \in Int /\ Pri[s[i]] \in Int
      BY <1>3, <3>3
    <3>5. Pri[s[i]] >= Pri[n]
      BY <3>2, <3>4
    <3>6. QED
      BY <3>1, <3>5
  <2>4. CASE j > k
    <3>1. q[j] = s[j - 1] /\ j - 1 \in 1 .. Len(s) /\ j - 1 >= k
      BY <1>1, <1>2, <1>3, <2>1, <2>4
    <3>2. CASE i < k
      BY <1>1, <1>2, <1>3, <2>1, <3>1, <3>2, SMTT(60) DEF Sorted
    <3>3. CASE i = k
      BY <1>1, <1>2, <1>4, <2>1, <3>1, <3>3
    <3>4. CASE i > k
      <4>1. q[i] = s[i - 1] /\ i - 1 \in 1 .. Len(s) /\ i - 1 < j - 1
        BY <1>1, <1>2, <1>3, <1>5, <2>1, <3>4
      <4>2. Pri[s[i - 1]] >= Pri[s[j - 1]]
        BY <3>1, <4>1 DEF Sorted
      <4>3. QED
        BY <3>1, <4>1, <4>2
    <3>5. QED
      BY <1>1, <2>1, <3>2, <3>3, <3>4
  <2>5. QED
    BY <1>1, <2>1, <2>2, <2>3, <2>4
<1>6. QED
  BY <1>5 DEF Sorted, q

(***************************************************************************)
(* remove() node by node: what stood behind the removed node moves up.     *)
(***************************************************************************)
LEMMA UnlinkElements ==
    ASSUME NEW s \in Seq(Threads), NEW n \in ToSet(s)
    PROVE  LET k == Position(s, n)
           IN  /\ k \in 1 .. Len(s)
               /\ s[k] = n
               /\ Unlink(s, n) \in Seq(Threads)
               /\ Len(Unlink(s, n)) = Len(s) - 1
               /\ \A i \in 1 .. (Len(s) - 1) :
                     Unlink(s, n)[i] = IF i < k THEN s[i] ELSE s[i + 1]
<1> DEFINE k     == Position(s, n)
           front == SubSeq(s, 1, k - 1)
           back  == SubSeq(s, k + 1, Len(s))
<1>1. k \in 1 .. Len(s) /\ s[k] = n
  <2>1. \E j \in 1 .. Len(s) : s[j] = n
    BY DEF ToSet
  <2>2. QED
    BY <2>1 DEF Position
<1>2. Unlink(s, n) = front \o back
  BY DEF Unlink, RemoveAt
<1> HIDE DEF k
<1>3. /\ front \in Seq(Threads)
      /\ Len(front) = k - 1
      /\ \A i \in 1 .. (k - 1) : front[i] = s[i]
  BY <1>1
<1>4. /\ back \in Seq(Threads)
      /\ Len(back) = Len(s) - k
      /\ \A i \in 1 .. (Len(s) - k) : back[i] = s[k + i]
  BY <1>1
<1> HIDE DEF front, back
<1>5. k \in Int /\ Len(s) \in Nat /\ Len(front) + Len(back) = Len(s) - 1
  <2>1. k \in Int /\ Len(s) \in Nat
    BY <1>1
  <2>2. QED
    BY <1>3, <1>4, <2>1
<1>6. /\ front \o back \in Seq(Threads)
      /\ Len(front \o back) = Len(s) - 1
      /\ \A i \in 1 .. (Len(s) - 1) :
            (front \o back)[i] = IF i <= k - 1 THEN front[i] ELSE back[i - (k - 1)]
  <2>1. /\ front \o back \in Seq(Threads)
        /\ Len(front \o back) = Len(front) + Len(back)
        /\ \A i \in 1 .. Len(front) + Len(back) :
              (front \o back)[i] = IF i <= Len(front) THEN front[i]
                                                     ELSE back[i - Len(front)]
    <3>1. front \in Seq(Threads) /\ back \in Seq(Threads)
      BY <1>3, <1>4
    <3>2. QED
      BY <3>1, ConcatProperties
  <2>2. Len(front) = k - 1 /\ Len(front) + Len(back) = Len(s) - 1
    BY <1>3, <1>5
  <2>3. QED
    BY <2>1, <2>2, ZenonT(30)
<1>7. ASSUME NEW i \in 1 .. (Len(s) - 1)
      PROVE  (front \o back)[i] = IF i < k THEN s[i] ELSE s[i + 1]
  <2>1. CASE i < k
    BY <1>1, <1>3, <1>6, <2>1
  <2>2. CASE ~ (i < k)
    <3>1. i - (k - 1) \in 1 .. (Len(s) - k) /\ k + (i - (k - 1)) = i + 1
      BY <1>1, <1>5, <2>2
    <3>2. (front \o back)[i] = back[i - (k - 1)]
      BY <1>5, <1>6, <2>2
    <3>3. QED
      BY <1>4, <2>2, <3>1, <3>2
  <2>3. QED
    BY <2>1, <2>2
<1>8. QED
  BY <1>1, <1>2, <1>6, <1>7 DEF k

(***************************************************************************)
(* remove() takes out the node it is given and no other.                   *)
(***************************************************************************)
LEMMA UnlinkToSet ==
    ASSUME NEW s \in Seq(Threads), NEW n \in ToSet(s), Distinct(s)
    PROVE  ToSet(Unlink(s, n)) = ToSet(s) \ {n}
<1> DEFINE k == Position(s, n)
           q == Unlink(s, n)
<1>1. /\ k \in 1 .. Len(s)
      /\ s[k] = n
      /\ q \in Seq(Threads)
      /\ Len(q) = Len(s) - 1
      /\ \A i \in 1 .. (Len(s) - 1) : q[i] = IF i < k THEN s[i] ELSE s[i + 1]
  BY UnlinkElements
<1>2. DOMAIN q = 1 .. (Len(s) - 1) /\ DOMAIN s = 1 .. Len(s) /\ Len(s) \in Nat
  BY <1>1
<1> HIDE DEF k, q
<1>3. ASSUME NEW i \in DOMAIN q
      PROVE  q[i] \in ToSet(s) \ {n}
  <2>1. PICK j \in 1 .. Len(s) : j # k /\ q[i] = s[j]
    <3>1. CASE i < k
      BY <1>1, <1>2, <3>1
    <3>2. CASE ~ (i < k)
      <4>1. i + 1 \in 1 .. Len(s) /\ i + 1 # k /\ q[i] = s[i + 1]
        BY <1>1, <1>2, <3>2
      <4>2. QED
        BY <4>1
    <3>3. QED
      BY <3>1, <3>2
  <2>2. s[j] # n
    BY <1>1, <2>1 DEF Distinct
  <2>3. QED
    BY <1>2, <2>1, <2>2 DEF ToSet
<1>4. ASSUME NEW j \in DOMAIN s, s[j] # n
      PROVE  s[j] \in ToSet(q)
  <2>1. CASE j < k
    <3>1. j \in DOMAIN q /\ q[j] = s[j]
      BY <1>1, <1>2, <2>1
    <3>2. QED
      BY <3>1 DEF ToSet
  <2>2. CASE j > k
    <3>1. j - 1 \in DOMAIN q /\ q[j - 1] = s[j]
      BY <1>1, <1>2, <2>2
    <3>2. QED
      BY <3>1 DEF ToSet
  <2>3. QED
    BY <1>1, <1>2, <1>4, <2>1, <2>2
<1>5. QED
  BY <1>3, <1>4 DEF ToSet, q

(***************************************************************************)
(* remove() keeps a list free of double links and in order.                *)
(***************************************************************************)
LEMMA UnlinkDistinctSorted ==
    ASSUME NEW s \in Seq(Threads), NEW n \in ToSet(s)
    PROVE  /\ Distinct(s) => Distinct(Unlink(s, n))
           /\ Sorted(s) => Sorted(Unlink(s, n))
<1> DEFINE k == Position(s, n)
           q == Unlink(s, n)
           old(i) == IF i < k THEN i ELSE i + 1
<1>1. /\ k \in 1 .. Len(s)
      /\ Len(q) = Len(s) - 1
      /\ \A i \in 1 .. (Len(s) - 1) : q[i] = IF i < k THEN s[i] ELSE s[i + 1]
  BY UnlinkElements
<1>2. Len(s) \in Nat
  OBVIOUS
<1> HIDE DEF k, q
<1>3. \A i \in 1 .. Len(q) : old(i) \in 1 .. Len(s) /\ q[i] = s[old(i)]
  BY <1>1, <1>2
<1>4. \A i, j \in 1 .. Len(q) : /\ old(i) = old(j) => i = j
                                /\ i < j => old(i) < old(j)
  BY <1>1, <1>2
<1> HIDE DEF old
<1>5. ASSUME Distinct(s)
      PROVE  Distinct(q)
  BY <1>3, <1>4, <1>5 DEF Distinct
<1>6. ASSUME Sorted(s)
      PROVE  Sorted(q)
  BY <1>3, <1>4, <1>6 DEF Sorted
<1>7. QED
  BY <1>5, <1>6 DEF q

-----------------------------------------------------------------------------
(***************************************************************************)
(* The kernel.                                                             *)
(***************************************************************************)

USE KernelAssumption

(***************************************************************************)
(* The control stack under each of the three things done to it.            *)
(***************************************************************************)
LEMMA GotoStack ==
    ASSUME NEW pc \in KernelPC, kstack \in Seq(KernelPC), kstack # <<>>, Goto(pc)
    PROVE  /\ kstack' \in Seq(KernelPC)
           /\ Len(kstack') = Len(kstack)
           /\ kstack' # <<>>
           /\ kstack'[Len(kstack)] = pc
           /\ \A i \in 1 .. (Len(kstack) - 1) : kstack'[i] = kstack[i]
  BY DEF Goto

\* An interrupt or a system call pushes a frame, and ends a hlt beneath it.
LEMMA EnterStack ==
    ASSUME NEW pc \in KernelPC, kstack \in Seq(KernelPC), EnterKernel(pc)
    PROVE  /\ kstack' \in Seq(KernelPC)
           /\ Len(kstack') = Len(kstack) + 1
           /\ kstack' # <<>>
           /\ kstack'[Len(kstack) + 1] = pc
           /\ \A i \in 1 .. (Len(kstack) - 1) : kstack'[i] = kstack[i]
           /\ kstack # <<>> => kstack'[Len(kstack)] =
                                  IF Top = "halted" THEN "probe" ELSE Top
  BY DEF EnterKernel, Interrupted, At, Top, KernelPC, SwitchPC

\* The return from an interrupt pops a frame and keeps those beneath it.
LEMMA LeaveStack ==
    ASSUME kstack \in Seq(KernelPC), kstack # <<>>, LeaveKernel
    PROVE  /\ kstack' \in Seq(KernelPC)
           /\ Len(kstack') = Len(kstack) - 1
           /\ \A i \in 1 .. (Len(kstack) - 1) : kstack'[i] = kstack[i]
<1> DEFINE n == Len(kstack) - 1
<1>1. n \in Nat
  OBVIOUS
<1>2. \A i \in 1 .. n : kstack[i] \in KernelPC
  OBVIOUS
<1> HIDE DEF n
<1>3. /\ SubSeq(kstack, 1, n) \in Seq(KernelPC)
      /\ Len(SubSeq(kstack, 1, n)) = n
      /\ \A i \in 1 .. n : SubSeq(kstack, 1, n)[i] = kstack[i]
  BY <1>1, <1>2
<1>4. QED
  BY <1>3 DEF LeaveKernel, n

-----------------------------------------------------------------------------
(***************************************************************************)
(* The initial state.                                                      *)
(***************************************************************************)
LEMMA InitIInv == Init => IInv
<1> SUFFICES ASSUME Init PROVE IInv
  OBVIOUS
<1> USE DEF Init
<1>1. TypeOK
  <2>1. thread_flags \in [Threads -> SUBSET ThreadFlags]
    BY DEF ThreadFlags
  <2>2. upc \in [Threads -> UserPC] /\ ret \in [Threads -> UserPC]
    BY DEF UserPC, ForbidPC
  <2>3. num_msg \in [Threads -> 0 .. (UINT8 - 1)] /\ reg \in [Threads -> Int]
    OBVIOUS
  <2>4. message_list \in [Threads -> Seq(Messages)]
    OBVIOUS
  <2>5. thread_ready \in Seq(Threads) /\ kstack \in Seq(KernelPC)
    OBVIOUS
  <2>6. ts_curr_count \in -2 .. STD_TS_QUANTUM
    OBVIOUS
  <2>7. running_thread \in Threads /\ k_reenter \in Int /\ forbid_counter \in Int
    OBVIOUS
  <2>8. sig_wait \in [Threads -> SUBSET Signals] /\ sig_recvd \in [Threads -> SUBSET Signals]
    OBVIOUS
  <2>9. QED
    BY <2>1, <2>2, <2>3, <2>4, <2>5, <2>6, <2>7, <2>8 DEF TypeOK
<1>2. BootInv /\ SwitchInv /\ SignalFindsWaiter
  BY DEF BootInv, SwitchInv, SignalFindsWaiter
<1>3. NestingInv
  BY DEF NestingInv, NestingBounded
<1>4. ForbidInv
  BY DEF ForbidInv, ForbidExact, InForbid, ForbidPC
<1>5. QueueDiscipline
  <2>1. ToSet(thread_ready) = {} /\ Distinct(thread_ready)
    BY DEF ToSet, Distinct
  <2>2. OffQueues = {KernelThread} /\ Created = {KernelThread}
    BY DEF OffQueues, Created
  <2>3. QED
    BY <2>1, <2>2 DEF QueueDiscipline
<1>6. RequestInv
  BY DEF RequestInv
<1>7. QED
  BY <1>1, <1>2, <1>3, <1>4, <1>5, <1>6 DEF IInv

-----------------------------------------------------------------------------
(***************************************************************************)
(* Type correctness in four parts: the scheduler's state, the descriptors, *)
(* the kernel's control and the threads in ring 3.                         *)
(***************************************************************************)
SchedType ==
    /\ sys_flags \subseteq SysFlags
    /\ running_thread \in Threads
    /\ thread_ready \in Seq(Threads)
    /\ thread_wait \subseteq Threads
    /\ ts_curr_count \in -2 .. STD_TS_QUANTUM
    /\ forbid_counter \in Int

DescType ==
    /\ thread_flags \in [Threads -> SUBSET ThreadFlags]
    /\ sig_wait \in [Threads -> SUBSET Signals]
    /\ sig_recvd \in [Threads -> SUBSET Signals]
    /\ message_list \in [Threads -> Seq(Messages)]
    /\ num_msg \in [Threads -> 0 .. (UINT8 - 1)]

ControlType ==
    /\ k_reenter \in Int
    /\ kstack \in Seq(KernelPC)
    /\ sti \in BOOLEAN
    /\ next_thread \in Threads \cup {NULL}

UserType ==
    /\ upc \in [Threads -> UserPC]
    /\ ret \in [Threads -> UserPC]
    /\ reg \in [Threads -> Int]
    /\ return_message \in Messages \cup {NULL}
    /\ buf \in Threads \cup {NULL}

\* The four parts are the type invariant.
LEMMA TypeParts == TypeOK <=> SchedType /\ DescType /\ ControlType /\ UserType
  BY DEF TypeOK, SchedType, DescType, ControlType, UserType

\* The same of the state after a step.
LEMMA TypePartsNext ==
    ASSUME SchedType', DescType', ControlType', UserType'
    PROVE  TypeOK'
  BY DEF TypeOK, SchedType, DescType, ControlType, UserType

\* A step that leaves the variables of a part alone keeps that part.
LEMMA TypeFrame ==
    /\ SchedType /\ UNCHANGED sched => SchedType'
    /\ DescType /\ UNCHANGED desc => DescType'
    /\ ControlType /\ UNCHANGED <<k_reenter, kstack, sti, next_thread>> => ControlType'
    /\ UserType /\ UNCHANGED user => UserType'
<1>1. SchedType /\ UNCHANGED sched => SchedType'
  BY DEF SchedType, sched
<1>2. DescType /\ UNCHANGED desc => DescType'
  BY DEF DescType, desc
<1>3. ControlType /\ UNCHANGED <<k_reenter, kstack, sti, next_thread>> => ControlType'
  BY DEF ControlType
<1>4. UserType /\ UNCHANGED user => UserType'
  BY DEF UserType, user
<1>5. QED
  BY <1>1, <1>2, <1>3, <1>4

-----------------------------------------------------------------------------
(***************************************************************************)
(* What the nesting invariant says of the stack before and after a step.   *)
(***************************************************************************)
LEMMA StackShape ==
    ASSUME IInv
    PROVE  /\ kstack \in Seq(KernelPC)
           /\ kstack = <<>> => k_reenter = -1 /\ ~ sti
           /\ kstack # <<>> =>
                 /\ upc[KernelThread] # "boot"
                 /\ \/ Len(kstack) = 1 /\ k_reenter = 0
                    \/ /\ Len(kstack) = 2 /\ k_reenter = 1 /\ sti
                       /\ kstack[1] \in SwitchPC
                       /\ kstack[2] \in HandlerPC \cup {"panic"}
<1>1. kstack \in Seq(KernelPC)
  BY DEF IInv, TypeOK
<1>2. /\ k_reenter = Len(kstack) - 1
      /\ Len(kstack) <= 2
      /\ Len(kstack) = 2 => /\ sti /\ kstack[1] \in SwitchPC
                            /\ kstack[2] \in {"handled", "dispatch", "panic"}
      /\ sti => kstack # <<>>
  BY DEF IInv, NestingInv, NestingBounded
<1>3. CASE kstack = <<>>
  BY <1>1, <1>2, <1>3
<1>4. CASE kstack # <<>>
  <2>1. Len(kstack) \in {1, 2}
    BY <1>1, <1>2, <1>4
  <2>2. upc[KernelThread] # "boot"
    BY <1>4 DEF IInv, BootInv
  <2>3. QED
    BY <1>1, <1>2, <1>4, <2>1, <2>2 DEF HandlerPC
<1>5. QED
  BY <1>3, <1>4

\* An interrupt or a system call: pc is pushed.
LEMMA EnterShape ==
    ASSUME IInv, NEW pc \in {"handled", "panic"}, InterruptsOn, EnterKernel(pc)
    PROVE  /\ kstack' \in Seq(KernelPC)
           /\ kstack' # <<>>
           /\ upc[KernelThread] # "boot"
           /\ kstack = <<>> =>
                 Len(kstack') = 1 /\ kstack'[1] = pc /\ k_reenter' = 0 /\ ~ sti'
           /\ kstack # <<>> =>
                 /\ Len(kstack) = 1 /\ sti /\ kstack[1] \in SwitchPC
                 /\ Len(kstack') = 2 /\ kstack'[2] = pc /\ k_reenter' = 1 /\ sti'
                 /\ kstack'[1] = IF kstack[1] = "halted" THEN "probe" ELSE kstack[1]
<1>1. pc \in KernelPC
  BY DEF KernelPC
<1>2. /\ kstack \in Seq(KernelPC)
      /\ kstack' \in Seq(KernelPC)
      /\ Len(kstack') = Len(kstack) + 1
      /\ kstack' # <<>>
      /\ kstack'[Len(kstack) + 1] = pc
      /\ kstack # <<>> => kstack'[Len(kstack)] =
                             IF Top = "halted" THEN "probe" ELSE Top
  BY <1>1, StackShape, EnterStack
<1>3. k_reenter' = k_reenter + 1 /\ sti' = sti
  BY DEF EnterKernel
<1>4. CASE kstack = <<>>
  <2>1. Len(kstack) = 0 /\ Len(kstack) + 1 = 1
    BY <1>2, <1>4
  <2>2. Len(kstack') = 1 /\ kstack'[1] = pc
    BY <1>2, <2>1
  <2>3. upc[KernelThread] # "boot" /\ k_reenter = -1 /\ ~ sti
    BY <1>4, StackShape DEF InterruptsOn, InRing3
  <2>4. k_reenter' = 0 /\ ~ sti'
    BY <1>3, <2>3
  <2>5. QED
    BY <1>2, <1>4, <2>2, <2>3, <2>4
<1>5. CASE kstack # <<>>
  <2>1. sti /\ Top \in SwitchPC
    BY <1>5 DEF InterruptsOn, InRing3
  <2>2. Len(kstack) = 1 /\ k_reenter = 0 /\ upc[KernelThread] # "boot"
    BY <1>5, <2>1, StackShape DEF Top, SwitchPC, HandlerPC
  <2>3. QED
    BY <1>2, <1>3, <1>5, <2>1, <2>2 DEF Top
<1>6. QED
  BY <1>4, <1>5

\* A step of the kernel: the innermost pc goes from one value to another.
LEMMA GotoShape ==
    ASSUME IInv, NEW old \in KernelPC, NEW pc \in KernelPC, At(old), Goto(pc)
    PROVE  /\ kstack' \in Seq(KernelPC)
           /\ kstack # <<>> /\ kstack' # <<>>
           /\ Len(kstack') = Len(kstack)
           /\ Len(kstack) = 1 => kstack[1] = old /\ kstack'[1] = pc
           /\ Len(kstack) = 2 => kstack[2] = old /\ kstack'[2] = pc /\ kstack'[1] = kstack[1]
<1>1. kstack \in Seq(KernelPC) /\ kstack # <<>> /\ Len(kstack) \in {1, 2}
  BY StackShape DEF At
<1>2. /\ kstack' \in Seq(KernelPC)
      /\ Len(kstack') = Len(kstack)
      /\ kstack' # <<>>
      /\ kstack'[Len(kstack)] = pc
      /\ \A i \in 1 .. (Len(kstack) - 1) : kstack'[i] = kstack[i]
  BY <1>1, GotoStack
<1>3. kstack[Len(kstack)] = old
  BY DEF At, Top
<1>4. QED
  BY <1>1, <1>2, <1>3

\* The return from an interrupt or a system call.
LEMMA LeaveShape ==
    ASSUME IInv, kstack # <<>>, LeaveKernel
    PROVE  /\ kstack' \in Seq(KernelPC)
           /\ Len(kstack) = 1 => kstack' = <<>> /\ k_reenter' = -1
           /\ Len(kstack) = 2 =>
                 Len(kstack') = 1 /\ kstack'[1] = kstack[1] /\ k_reenter' = 0
<1>1. /\ kstack' \in Seq(KernelPC)
      /\ Len(kstack') = Len(kstack) - 1
      /\ \A i \in 1 .. (Len(kstack) - 1) : kstack'[i] = kstack[i]
  BY StackShape, LeaveStack
<1>2. k_reenter' = k_reenter - 1
  BY DEF LeaveKernel
<1>3. QED
  BY <1>1, <1>2, StackShape

\* Steps of a thread in ring 3 that leave the kernel's state alone.
LEMMA RingThreeFrame ==
    ASSUME IInv,
           UNCHANGED <<sys_flags, running_thread, thread_ready, thread_wait, desc,
                       k_reenter, kstack, sti, next_thread>>,
           InRing3,
           Created' = Created,
           upc'[KernelThread] # "boot"
    PROVE  /\ BootInv' /\ NestingInv' /\ SwitchInv'
           /\ QueueDiscipline' /\ SignalFindsWaiter' /\ RequestInv'
<1> USE DEF IInv, desc
<1>1. BootInv' /\ NestingInv' /\ SwitchInv'
  BY DEF BootInv, NestingInv, NestingBounded, SwitchInv
<1>2. QueueDiscipline'
  <2>1. OffQueues' = OffQueues
    BY DEF OffQueues
  <2>2. QED
    BY <2>1 DEF QueueDiscipline
<1>3. SignalFindsWaiter' /\ RequestInv'
  BY DEF SignalFindsWaiter, RequestInv
<1>4. QED
  BY <1>1, <1>2, <1>3

-----------------------------------------------------------------------------
(***************************************************************************)
(* The steps of threads in ring 3 that do not enter the kernel.            *)
(***************************************************************************)

\* In ring 3, a thread between forbid() and permit() is the one that runs.
LEMMA RingThreeForbid ==
    ASSUME IInv, NEW t \in Threads, User(t)
    PROVE  /\ kstack = <<>> /\ "NEED_TASK_SWITCH" \notin sys_flags
           /\ upc[KernelThread] # "boot" /\ upc[t] # "uncreated"
           /\ \A u \in Threads : InForbid(u) => u = t
           /\ ~ InForbid(t) => forbid_counter = 0
           /\ InForbid(t) => forbid_counter = 1
<1>1. kstack = <<>> /\ upc[KernelThread] # "boot" /\ running_thread = t
  BY DEF User, InRing3
<1>2. "NEED_TASK_SWITCH" \notin sys_flags
  BY <1>1 DEF IInv, SwitchInv
<1>3. upc[t] # "uncreated"
  BY <1>1 DEF IInv, QueueDiscipline, OffQueues, Created
<1>4. QED
  BY <1>1, <1>2, <1>3 DEF IInv, ForbidInv, ForbidExact

\* A thread that goes from one place in its program to another.
LEMMA ContinueCreated ==
    ASSUME TypeOK, NEW t \in Threads, upc[t] # "uncreated",
           NEW pc \in UserPC, pc \notin {"uncreated", "boot"},
           upc[KernelThread] # "boot", Continue(t, pc)
    PROVE  /\ upc' \in [Threads -> UserPC]
           /\ Created' = Created
           /\ upc'[KernelThread] # "boot"
           /\ upc'[t] = pc
           /\ \A u \in Threads : u # t => upc'[u] = upc[u]
<1>1. upc \in [Threads -> UserPC] /\ KernelThread \in Threads
  BY DEF TypeOK
<1>2. upc' = [upc EXCEPT ![t] = pc]
  BY DEF Continue
<1>3. QED
  BY <1>1, <1>2 DEF Created

\* A thread about to call kprintf() has not touched the kernel's state.
LEMMA CallPrintStep ==
    ASSUME IInv, NEW t \in Threads, CallPrint(t)
    PROVE  IInv'
<1>1. /\ upc[t] = "run" /\ Continue(t, "format") /\ User(t)
      /\ UNCHANGED <<sched, desc, ret, reg, return_message, buf, k_reenter, kstack, sti,
                     next_thread>>
  BY DEF CallPrint
<1>2. /\ upc' \in [Threads -> UserPC] /\ Created' = Created
      /\ upc'[KernelThread] # "boot" /\ upc'[t] = "format"
      /\ \A u \in Threads : u # t => upc'[u] = upc[u]
  BY <1>1, ContinueCreated, RingThreeForbid DEF IInv, UserPC
<1>3. TypeOK'
  <2>1. SchedType /\ DescType /\ ControlType /\ UserType
    BY TypeParts DEF IInv
  <2>2. SchedType' /\ DescType' /\ ControlType'
    BY <1>1, <2>1, TypeFrame
  <2>3. UserType'
    BY <1>1, <1>2, <2>1 DEF UserType
  <2>4. QED
    BY <2>2, <2>3, TypePartsNext
<1>4. ForbidInv'
  <2>1. \A u \in Threads : InForbid(u)' <=> InForbid(u)
    BY <1>1, <1>2 DEF InForbid, ForbidPC
  <2>2. \A u \in Threads : upc'[u] \in {"forbid_store", "permit_store"} => upc'[u] = upc[u]
    BY <1>2
  <2>3. ForbidExact'
    BY <1>1, <2>1 DEF IInv, ForbidInv, ForbidExact, sched
  <2>4. QED
    BY <1>1, <2>1, <2>2, <2>3 DEF IInv, ForbidInv, sched
<1>5. QED
  BY <1>1, <1>2, <1>3, <1>4, RingThreeFrame DEF IInv, sched, User

\* kprintf() fills its buffer outside forbid(): the counter is not involved.
LEMMA FormatStep ==
    ASSUME IInv, NEW t \in Threads, Format(t)
    PROVE  IInv'
<1>1. /\ upc[t] = "format" /\ Continue(t, "forbid_load") /\ User(t) /\ buf' = t
      /\ UNCHANGED <<sched, desc, ret, reg, return_message, k_reenter, kstack, sti,
                     next_thread>>
  BY DEF Format
<1>2. /\ upc' \in [Threads -> UserPC] /\ Created' = Created
      /\ upc'[KernelThread] # "boot" /\ upc'[t] = "forbid_load"
      /\ \A u \in Threads : u # t => upc'[u] = upc[u]
  BY <1>1, ContinueCreated, RingThreeForbid DEF IInv, UserPC
<1>3. TypeOK'
  <2>1. SchedType /\ DescType /\ ControlType /\ UserType
    BY TypeParts DEF IInv
  <2>2. SchedType' /\ DescType' /\ ControlType'
    BY <1>1, <2>1, TypeFrame
  <2>3. UserType'
    BY <1>1, <1>2, <2>1 DEF UserType
  <2>4. QED
    BY <2>2, <2>3, TypePartsNext
<1>4. ForbidInv'
  <2>1. \A u \in Threads : InForbid(u)' <=> InForbid(u)
    BY <1>1, <1>2 DEF InForbid, ForbidPC
  <2>2. \A u \in Threads : upc'[u] \in {"forbid_store", "permit_store"} => upc'[u] = upc[u]
    BY <1>2
  <2>3. ForbidExact'
    BY <1>1, <2>1 DEF IInv, ForbidInv, ForbidExact, sched
  <2>4. QED
    BY <1>1, <2>1, <2>2, <2>3 DEF IInv, ForbidInv, sched
<1>5. QED
  BY <1>1, <1>2, <1>3, <1>4, RingThreeFrame DEF IInv, sched, User

\* What forbid() or permit() loads is the counter nobody else can change.
LEMMA LoadStep ==
    ASSUME IInv, NEW t \in Threads, Load(t)
    PROVE  IInv'
<1>1. /\ User(t) /\ reg' = [reg EXCEPT ![t] = forbid_counter]
      /\ UNCHANGED <<sched, desc, ret, return_message, buf, k_reenter, kstack, sti,
                     next_thread>>
  BY DEF Load
<1>2. PICK pc \in {"forbid_store", "permit_store"} :
         /\ Continue(t, pc)
         /\ upc[t] = IF pc = "forbid_store" THEN "forbid_load" ELSE "permit_load"
  BY DEF Load
<1>3. /\ upc' \in [Threads -> UserPC] /\ Created' = Created
      /\ upc'[KernelThread] # "boot" /\ upc'[t] = pc
      /\ \A u \in Threads : u # t => upc'[u] = upc[u]
  BY <1>1, <1>2, ContinueCreated, RingThreeForbid DEF IInv, UserPC, ForbidPC
<1>4. TypeOK'
  <2>1. SchedType /\ DescType /\ ControlType /\ UserType
    BY TypeParts DEF IInv
  <2>2. SchedType' /\ DescType' /\ ControlType'
    BY <1>1, <2>1, TypeFrame
  <2>3. reg' \in [Threads -> Int]
    BY <1>1, <2>1 DEF SchedType, UserType
  <2>4. UserType'
    BY <1>1, <1>3, <2>1, <2>3 DEF UserType
  <2>5. QED
    BY <2>2, <2>4, TypePartsNext
<1>5. ForbidInv'
  <2>1. \A u \in Threads : InForbid(u)' <=> InForbid(u)
    BY <1>2, <1>3 DEF InForbid, ForbidPC
  <2>2. ForbidExact'
    BY <1>1, <2>1 DEF IInv, ForbidInv, ForbidExact, sched
  <2>3. /\ reg'[t] = forbid_counter
        /\ \A u \in Threads : u # t => reg'[u] = reg[u]
    BY <1>1 DEF IInv, TypeOK
  <2>4. pc = "forbid_store" => forbid_counter = 0
    BY <1>1, <1>2, RingThreeForbid DEF InForbid, ForbidPC
  <2>5. pc = "permit_store" => forbid_counter = 1
    BY <1>1, <1>2, RingThreeForbid DEF InForbid, ForbidPC
  <2>6. ASSUME NEW u \in Threads
        PROVE  /\ upc'[u] = "forbid_store" => reg'[u] = 0
               /\ upc'[u] = "permit_store" => reg'[u] = 1
    BY <1>3, <2>3, <2>4, <2>5 DEF IInv, ForbidInv
  <2>7. QED
    BY <1>1, <2>1, <2>2, <2>6 DEF IInv, ForbidInv, sched
<1>6. QED
  BY <1>1, <1>3, <1>4, <1>5, RingThreeFrame DEF IInv, sched, User

\* forbid() stores 1: it has loaded 0, and no other thread was inside.
LEMMA ForbidStoreStep ==
    ASSUME IInv, NEW t \in Threads, ForbidStore(t)
    PROVE  IInv'
<1>1. /\ User(t) /\ upc[t] = "forbid_store" /\ Continue(t, "write")
      /\ forbid_counter' = reg[t] + 1
      /\ reg' = [reg EXCEPT ![t] = 0]
      /\ UNCHANGED <<sys_flags, running_thread, thread_ready, thread_wait, ts_curr_count,
                     desc, ret, return_message, buf, k_reenter, kstack, sti, next_thread>>
  BY DEF ForbidStore
<1>2. /\ upc' \in [Threads -> UserPC] /\ Created' = Created
      /\ upc'[KernelThread] # "boot" /\ upc'[t] = "write"
      /\ \A u \in Threads : u # t => upc'[u] = upc[u]
  BY <1>1, ContinueCreated, RingThreeForbid DEF IInv, UserPC, ForbidPC
<1>3. forbid_counter' = 1
  BY <1>1 DEF IInv, ForbidInv
<1>4. TypeOK'
  <2>1. SchedType /\ DescType /\ ControlType /\ UserType
    BY TypeParts DEF IInv
  <2>2. DescType' /\ ControlType'
    BY <1>1, <2>1, TypeFrame
  <2>3. SchedType'
    BY <1>1, <1>3, <2>1 DEF SchedType
  <2>4. reg' \in [Threads -> Int]
    BY <1>1, <2>1 DEF UserType
  <2>5. UserType'
    BY <1>1, <1>2, <2>1, <2>4 DEF UserType
  <2>6. QED
    BY <2>2, <2>3, <2>5, TypePartsNext
<1>5. ForbidInv'
  <2>1. \A u \in Threads : InForbid(u)' <=> u = t
    BY <1>1, <1>2, RingThreeForbid DEF InForbid, ForbidPC
  <2>2. ForbidExact'
    BY <1>1, <1>3, <2>1 DEF ForbidExact, User
  <2>3. \A u \in Threads : u # t => reg'[u] = reg[u]
    BY <1>1 DEF IInv, TypeOK
  <2>4. ASSUME NEW u \in Threads
        PROVE  /\ upc'[u] = "forbid_store" => reg'[u] = 0
               /\ upc'[u] = "permit_store" => reg'[u] = 1
    BY <1>2, <2>3 DEF IInv, ForbidInv
  <2>5. kstack' = <<>> /\ "NEED_TASK_SWITCH" \notin sys_flags'
    BY <1>1, RingThreeForbid
  <2>6. QED
    BY <1>1, <2>2, <2>4, <2>5 DEF IInv, ForbidInv
<1>6. QED
  BY <1>1, <1>2, <1>4, <1>5, RingThreeFrame DEF IInv, User

\* permit() stores 0: it has loaded the 1 of the forbid() before it.
LEMMA PermitStoreStep ==
    ASSUME IInv, NEW t \in Threads, PermitStore(t)
    PROVE  IInv'
<1>1. /\ User(t) /\ upc[t] = "permit_store" /\ Continue(t, ret[t])
      /\ forbid_counter' = reg[t] - 1
      /\ reg' = [reg EXCEPT ![t] = 0]
      /\ ret' = [ret EXCEPT ![t] = "run"]
      /\ UNCHANGED <<sys_flags, running_thread, thread_ready, thread_wait, ts_curr_count,
                     desc, return_message, buf, k_reenter, kstack, sti, next_thread>>
  BY DEF PermitStore
<1>2. ret[t] \in {"run", "retrieve", "cycle", "format"}
  BY DEF IInv, ForbidInv
<1>3. /\ upc' \in [Threads -> UserPC] /\ Created' = Created
      /\ upc'[KernelThread] # "boot" /\ upc'[t] = ret[t]
      /\ \A u \in Threads : u # t => upc'[u] = upc[u]
  BY <1>1, <1>2, ContinueCreated, RingThreeForbid DEF IInv, UserPC, ForbidPC
<1>4. forbid_counter' = 0
  BY <1>1 DEF IInv, ForbidInv
<1>5. TypeOK'
  <2>1. SchedType /\ DescType /\ ControlType /\ UserType
    BY TypeParts DEF IInv
  <2>2. DescType' /\ ControlType'
    BY <1>1, <2>1, TypeFrame
  <2>3. SchedType'
    BY <1>1, <1>4, <2>1 DEF SchedType
  <2>4. reg' \in [Threads -> Int] /\ ret' \in [Threads -> UserPC]
    BY <1>1, <2>1 DEF UserType, UserPC
  <2>5. UserType'
    BY <1>1, <1>3, <2>1, <2>4 DEF UserType
  <2>6. QED
    BY <2>2, <2>3, <2>5, TypePartsNext
<1>6. ForbidInv'
  <2>1. \A u \in Threads : ~ InForbid(u)'
    BY <1>1, <1>2, <1>3, RingThreeForbid DEF InForbid, ForbidPC
  <2>2. ForbidExact'
    BY <1>4, <2>1 DEF ForbidExact
  <2>3. ASSUME NEW u \in Threads
        PROVE  /\ upc'[u] = "forbid_store" => reg'[u] = 0
               /\ upc'[u] = "permit_store" => reg'[u] = 1
               /\ ret'[u] \in {"run", "retrieve", "cycle", "format"}
    BY <1>1, <1>2, <1>3 DEF IInv, ForbidInv, TypeOK
  <2>4. QED
    BY <2>1, <2>2, <2>3 DEF ForbidInv
<1>7. QED
  BY <1>1, <1>3, <1>5, <1>6, RingThreeFrame DEF IInv, User

-----------------------------------------------------------------------------
(***************************************************************************)
(* The system calls.                                                       *)
(***************************************************************************)

\* A system call puts one frame on an empty stack.
LEMMA SysCallStack ==
    ASSUME IInv, NEW t \in Threads, User(t), EnterKernel("handled")
    PROVE  /\ kstack = <<>> /\ ~ sti
           /\ kstack' \in Seq(KernelPC) /\ kstack' # <<>>
           /\ Len(kstack') = 1 /\ kstack'[1] = "handled"
           /\ k_reenter' = 0 /\ sti' = sti /\ next_thread' = next_thread
<1>1. kstack = <<>> /\ InterruptsOn
  BY DEF User, InRing3, InterruptsOn
<1>2. sti' = sti /\ next_thread' = next_thread
  BY DEF EnterKernel
<1>3. QED
  BY <1>1, <1>2, EnterShape, StackShape

\* Calls that leave the scheduler's state alone.
LEMMA SysCallFrame ==
    ASSUME IInv, NEW t \in Threads, User(t), EnterKernel("handled"),
           UNCHANGED <<sched, thread_flags, sig_wait>>,
           Created' = Created, upc'[KernelThread] # "boot"
    PROVE  /\ BootInv' /\ NestingInv' /\ SwitchInv'
           /\ QueueDiscipline' /\ SignalFindsWaiter' /\ RequestInv'
<1> USE DEF sched
<1>1. /\ kstack = <<>> /\ kstack' # <<>> /\ Len(kstack') = 1 /\ kstack'[1] = "handled"
      /\ k_reenter' = 0 /\ ~ sti /\ sti' = sti
  BY SysCallStack
<1>2. "NEED_TASK_SWITCH" \notin sys_flags
  BY RingThreeForbid
<1>3. BootInv' /\ NestingInv' /\ SwitchInv'
  BY <1>1, <1>2 DEF BootInv, NestingInv, NestingBounded, SwitchInv
<1>4. QueueDiscipline'
  <2>1. OffQueues' = OffQueues
    BY <1>1, <1>2 DEF OffQueues
  <2>2. QED
    BY <2>1 DEF IInv, QueueDiscipline
<1>5. SignalFindsWaiter' /\ RequestInv'
  BY <1>1, <1>2 DEF IInv, SignalFindsWaiter, RequestInv, SwitchPC
<1>6. QED
  BY <1>3, <1>4, <1>5

\* System call 1 leaves the scheduler's state and the counter alone.
LEMMA MonitorWriteStep ==
    ASSUME IInv, NEW t \in Threads, MonitorWrite(t)
    PROVE  IInv'
<1>1. /\ User(t) /\ upc[t] = "write" /\ Continue(t, "permit_load")
      /\ EnterKernel("handled")
      /\ UNCHANGED <<sched, desc, ret, reg, return_message, buf>>
  BY DEF MonitorWrite
<1>2. /\ upc' \in [Threads -> UserPC] /\ Created' = Created
      /\ upc'[KernelThread] # "boot" /\ upc'[t] = "permit_load"
      /\ \A u \in Threads : u # t => upc'[u] = upc[u]
  BY <1>1, ContinueCreated, RingThreeForbid DEF IInv, UserPC, ForbidPC
<1>3. /\ kstack' \in Seq(KernelPC) /\ kstack' # <<>> /\ kstack'[1] = "handled"
      /\ k_reenter' = 0 /\ sti' = sti /\ next_thread' = next_thread
  BY <1>1, SysCallStack
<1>4. TypeOK'
  <2>1. SchedType /\ DescType /\ ControlType /\ UserType
    BY TypeParts DEF IInv
  <2>2. SchedType' /\ DescType'
    BY <1>1, <2>1, TypeFrame
  <2>3. ControlType'
    BY <1>3, <2>1 DEF ControlType
  <2>4. UserType'
    BY <1>1, <1>2, <2>1 DEF UserType
  <2>5. QED
    BY <2>2, <2>3, <2>4, TypePartsNext
<1>5. ForbidInv'
  <2>1. \A u \in Threads : InForbid(u)' <=> InForbid(u)
    BY <1>1, <1>2 DEF InForbid, ForbidPC
  <2>2. ForbidExact'
    BY <1>1, <2>1 DEF IInv, ForbidInv, ForbidExact, sched
  <2>3. \A u \in Threads : upc'[u] \in {"forbid_store", "permit_store"} => upc'[u] = upc[u]
    BY <1>2
  <2>4. QED
    BY <1>1, <1>3, <2>1, <2>2, <2>3 DEF IInv, ForbidInv, sched, HandlerPC
<1>6. QED
  BY <1>1, <1>2, <1>4, <1>5, SysCallFrame DEF IInv, desc

\* The driver goes on outside forbid(), and its return address changes at most.
LEMMA DriverForbid ==
    ASSUME IInv, User(Driver), EnterKernel("handled"),
           upc[Driver] \in {"retrieve", "empty", "cycle"},
           NEW pc \in {"retrieve", "empty", "cycle", "format"}, Continue(Driver, pc),
           \A u \in Threads : ret'[u] \in {"run", "retrieve", "cycle", "format"},
           UNCHANGED <<running_thread, forbid_counter, reg>>
    PROVE  /\ upc' \in [Threads -> UserPC] /\ Created' = Created
           /\ upc'[KernelThread] # "boot"
           /\ ForbidInv'
<1>1. Driver \in Threads
  OBVIOUS
<1>2. /\ upc' \in [Threads -> UserPC] /\ Created' = Created
      /\ upc'[KernelThread] # "boot" /\ upc'[Driver] = pc
      /\ \A u \in Threads : u # Driver => upc'[u] = upc[u]
  BY <1>1, ContinueCreated, RingThreeForbid DEF IInv, UserPC, ForbidPC
<1>3. \A u \in Threads : ~ InForbid(u) /\ ~ InForbid(u)'
  BY <1>1, <1>2, RingThreeForbid DEF InForbid, ForbidPC
<1>4. ForbidExact'
  BY <1>3 DEF IInv, ForbidInv, ForbidExact
<1>5. \A u \in Threads : upc'[u] \in {"forbid_store", "permit_store"} => upc'[u] = upc[u]
  BY <1>2
<1>6. QED
  BY <1>2, <1>3, <1>4, <1>5 DEF IInv, ForbidInv

\* The part of the type invariant that a system call's entry touches.
LEMMA SysCallControl ==
    ASSUME IInv, NEW t \in Threads, User(t), EnterKernel("handled")
    PROVE  ControlType'
<1>1. /\ kstack' \in Seq(KernelPC) /\ k_reenter' = 0
      /\ sti' = sti /\ next_thread' = next_thread
  BY SysCallStack
<1>2. ControlType
  BY TypeParts DEF IInv
<1>3. QED
  BY <1>1, <1>2 DEF ControlType

\* System call 2 reads the driver's port and changes no queue.
LEMMA MsgRetrieveStep ==
    ASSUME IInv, MsgRetrieve
    PROVE  IInv'
<1>1. /\ User(Driver) /\ upc[Driver] = "retrieve" /\ EnterKernel("handled")
      /\ UNCHANGED <<sched, desc, reg, buf>>
  BY DEF MsgRetrieve
<1>2. Driver \in Threads
  OBVIOUS
<1>3. SchedType /\ DescType /\ ControlType /\ UserType
  BY TypeParts DEF IInv
<1>4. PICK pc \in {"empty", "cycle", "format"} : Continue(Driver, pc)
  BY DEF MsgRetrieve
<1>5. \/ ret' = ret
      \/ ret' = [ret EXCEPT ![Driver] = "cycle"]
  BY DEF MsgRetrieve
<1>6. /\ ret' \in [Threads -> UserPC]
      /\ \A u \in Threads : ret'[u] \in {"run", "retrieve", "cycle", "format"}
  <2>1. \A u \in Threads : ret[u] \in {"run", "retrieve", "cycle", "format"}
    BY DEF IInv, ForbidInv
  <2>2. ret \in [Threads -> UserPC]
    BY <1>3 DEF UserType
  <2>3. QED
    BY <1>5, <2>1, <2>2 DEF UserPC
<1>7. return_message' \in Messages \cup {NULL}
  <2>1. CASE message_list[Driver] = <<>>
    BY <2>1 DEF MsgRetrieve
  <2>2. CASE message_list[Driver] # <<>>
    <3>1. message_list[Driver] \in Seq(Messages)
      BY <1>2, <1>3 DEF DescType
    <3>2. Head(message_list[Driver]) \in Messages
      BY <3>1, <2>2
    <3>3. QED
      BY <3>2, <2>2 DEF MsgRetrieve
  <2>3. QED
    BY <2>1, <2>2
<1>8. /\ upc' \in [Threads -> UserPC] /\ Created' = Created
      /\ upc'[KernelThread] # "boot"
      /\ ForbidInv'
  <2>1. UNCHANGED <<running_thread, forbid_counter, reg>>
    BY <1>1 DEF sched
  <2>2. QED
    BY <1>1, <1>4, <1>6, <2>1, DriverForbid
<1>9. TypeOK'
  <2>1. SchedType' /\ DescType'
    BY <1>1, <1>3, TypeFrame
  <2>2. ControlType'
    BY <1>1, <1>2, SysCallControl
  <2>3. UserType'
    BY <1>1, <1>3, <1>6, <1>7, <1>8 DEF UserType
  <2>4. QED
    BY <2>1, <2>2, <2>3, TypePartsNext
<1>10. QED
  BY <1>1, <1>2, <1>8, <1>9, SysCallFrame DEF IInv, desc

\* System call 3 takes a message from the port and changes no thread queue.
LEMMA MsgCycleStep ==
    ASSUME IInv, MsgCycle
    PROVE  IInv'
<1>1. /\ User(Driver) /\ upc[Driver] = "cycle" /\ EnterKernel("handled")
      /\ Continue(Driver, "retrieve") /\ return_message' = NULL
      /\ UNCHANGED <<sched, thread_flags, sig_wait, sig_recvd, num_msg, ret, reg, buf>>
  BY DEF MsgCycle
<1>2. Driver \in Threads
  OBVIOUS
<1>3. SchedType /\ DescType /\ ControlType /\ UserType
  BY TypeParts DEF IInv
<1>4. message_list' \in [Threads -> Seq(Messages)]
  <2>1. message_list \in [Threads -> Seq(Messages)]
    BY <1>3 DEF DescType
  <2>2. message_list[Driver] # <<>> => Tail(message_list[Driver]) \in Seq(Messages)
    BY <1>2, <2>1
  <2>3. QED
    BY <2>1, <2>2 DEF MsgCycle, RemoveHead
<1>5. \A u \in Threads : ret'[u] \in {"run", "retrieve", "cycle", "format"}
  BY <1>1 DEF IInv, ForbidInv
<1>6. /\ upc' \in [Threads -> UserPC] /\ Created' = Created
      /\ upc'[KernelThread] # "boot"
      /\ ForbidInv'
  <2>1. UNCHANGED <<running_thread, forbid_counter, reg>>
    BY <1>1 DEF sched
  <2>2. QED
    BY <1>1, <1>5, <2>1, DriverForbid
<1>7. TypeOK'
  <2>1. SchedType'
    BY <1>1, <1>3, TypeFrame
  <2>2. ControlType'
    BY <1>1, <1>2, SysCallControl
  <2>3. UserType'
    BY <1>1, <1>3, <1>6 DEF UserType
  <2>4. DescType'
    BY <1>1, <1>3, <1>4 DEF DescType
  <2>5. QED
    BY <2>1, <2>2, <2>3, <2>4, TypePartsNext
<1>8. QED
  BY <1>1, <1>2, <1>6, <1>7, SysCallFrame DEF IInv

\* A thread blocks, outside forbid().
LEMMA WaitCallStep ==
    ASSUME IInv, NEW t \in Threads, NEW flags \in SUBSET Signals,
           User(t), WaitCall(t, flags),
           upc' \in [Threads -> UserPC], Created' = Created,
           upc'[KernelThread] # "boot", ForbidInv'
    PROVE  IInv'
<1>1. /\ EnterKernel("handled") /\ Block(t, flags)
      /\ UNCHANGED <<running_thread, thread_ready, ts_curr_count, forbid_counter,
                     sig_recvd, message_list, num_msg, ret, reg, return_message, buf>>
  BY DEF WaitCall
<1>2. SchedType /\ DescType /\ ControlType /\ UserType
  BY TypeParts DEF IInv
<1>3. /\ kstack = <<>> /\ ~ sti /\ kstack' # <<>> /\ Len(kstack') = 1
      /\ kstack'[1] = "handled" /\ k_reenter' = 0 /\ sti' = sti
  BY <1>1, SysCallStack
<1>4. "NEED_TASK_SWITCH" \notin sys_flags /\ running_thread = t
  BY RingThreeForbid DEF User
<1>5. TypeOK'
  <2>1. ControlType'
    BY <1>1, SysCallControl
  <2>2. UserType'
    BY <1>1, <1>2 DEF UserType
  <2>3. SchedType'
    BY <1>1, <1>2 DEF SchedType, Block, SysFlags
  <2>4. DescType'
    <3>1. /\ thread_flags \in [Threads -> SUBSET ThreadFlags]
          /\ sig_wait \in [Threads -> SUBSET Signals]
      BY <1>2 DEF DescType
    <3>2. thread_flags' \in [Threads -> SUBSET ThreadFlags]
      <4>1. (thread_flags[t] \ {"TS_READY"}) \cup {"TS_WAIT"} \in SUBSET ThreadFlags
        BY <3>1 DEF ThreadFlags
      <4>2. QED
        BY <1>1, <3>1, <4>1 DEF Block
    <3>3. sig_wait' \in [Threads -> SUBSET Signals]
      <4>1. sig_wait[t] \cup flags \in SUBSET Signals
        BY <3>1
      <4>2. QED
        BY <1>1, <3>1, <4>1 DEF Block
    <3>4. QED
      BY <1>1, <1>2, <3>2, <3>3 DEF DescType
  <2>5. QED
    BY <2>1, <2>2, <2>3, <2>4, TypePartsNext
<1>6. BootInv'
  BY DEF BootInv
<1>7. NestingInv'
  BY <1>3 DEF NestingInv, NestingBounded
<1>8. SwitchInv'
  BY <1>3 DEF SwitchInv, HandlerPC
<1>9. QueueDiscipline'
  <2>1. OffQueues = {t}
    BY <1>3, <1>4 DEF OffQueues
  <2>2. CASE t \in Root
    <3>1. OffQueues' = {} /\ thread_wait' = thread_wait \cup {t}
      BY <1>1, <1>3, <2>2 DEF OffQueues, Block
    <3>2. QED
      BY <1>1, <2>1, <3>1 DEF IInv, QueueDiscipline
  <2>3. CASE t \notin Root
    <3>1. OffQueues' = {t} /\ thread_wait' = thread_wait
      BY <1>1, <1>3, <1>4, <2>3 DEF OffQueues, Block
    <3>2. QED
      BY <1>1, <2>1, <3>1 DEF IInv, QueueDiscipline
  <2>4. QED
    BY <2>2, <2>3
<1>10. SignalFindsWaiter'
  BY <1>1, <1>2 DEF IInv, SignalFindsWaiter, Block, DescType
<1>11. RequestInv'
  <2>1. \A u \in Threads : "TB_SIGNAL" \notin thread_flags'[u]
    <3>1. \A u \in Threads : "TB_SIGNAL" \notin thread_flags[u]
      BY DEF IInv, RequestInv
    <3>2. thread_flags \in [Threads -> SUBSET ThreadFlags]
      BY <1>2 DEF DescType
    <3>3. QED
      BY <1>1, <3>1, <3>2 DEF Block
  <2>2. "NEED_SCHEDULE" \in sys_flags' => thread_ready' = <<>>
    BY <1>1, <1>3 DEF IInv, RequestInv, Block
  <2>3. QED
    BY <1>3, <2>1, <2>2 DEF RequestInv, SwitchPC
<1>12. QED
  BY <1>5, <1>6, <1>7, <1>8, <1>9, <1>10, <1>11 DEF IInv

\* The driver blocks for ST_MESG and is from then on in the wait queue.
LEMMA MsgWaitStep ==
    ASSUME IInv, MsgWait
    PROVE  IInv'
<1>1. /\ User(Driver) /\ upc[Driver] = "empty"
      /\ WaitCall(Driver, {"ST_MESG"}) /\ Continue(Driver, "retrieve")
  BY DEF MsgWait
<1>2. Driver \in Threads /\ {"ST_MESG"} \in SUBSET Signals
  BY DEF Signals
<1>3. /\ EnterKernel("handled")
      /\ UNCHANGED <<running_thread, forbid_counter, ret, reg>>
  BY <1>1 DEF WaitCall
<1>4. \A u \in Threads : ret'[u] \in {"run", "retrieve", "cycle", "format"}
  BY <1>3 DEF IInv, ForbidInv
<1>5. /\ upc' \in [Threads -> UserPC] /\ Created' = Created
      /\ upc'[KernelThread] # "boot"
      /\ ForbidInv'
  BY <1>1, <1>3, <1>4, DriverForbid
<1>6. QED
  BY <1>1, <1>2, <1>5, WaitCallStep

\* A wait() of a thread's own, with any set of signals.
LEMMA WaitStep ==
    ASSUME IInv, NEW t \in Threads, NEW flags \in WaitFlags, Wait(t, flags)
    PROVE  IInv'
<1>1. User(t) /\ upc[t] = "run" /\ WaitCall(t, flags) /\ upc' = upc
  BY DEF Wait
<1>2. flags \in SUBSET Signals
  OBVIOUS
<1>3. UNCHANGED <<running_thread, forbid_counter, ret, reg>>
  BY <1>1 DEF WaitCall
<1>4. \A u \in Threads : ~ InForbid(u) /\ ~ InForbid(u)'
  BY <1>1, RingThreeForbid DEF InForbid, ForbidPC
<1>5. ForbidExact'
  BY <1>3, <1>4 DEF IInv, ForbidInv, ForbidExact
<1>6. ForbidInv'
  BY <1>1, <1>3, <1>4, <1>5 DEF IInv, ForbidInv
<1>7. /\ upc' \in [Threads -> UserPC] /\ Created' = Created
      /\ upc'[KernelThread] # "boot"
  BY <1>1, RingThreeForbid DEF IInv, TypeOK, Created
<1>8. QED
  BY <1>1, <1>2, <1>6, <1>7, WaitCallStep

-----------------------------------------------------------------------------
(***************************************************************************)
(* The hardware interrupts.                                                *)
(***************************************************************************)

\* Whatever the handler does to the scheduler's state within these limits,
\* the interrupted switch and the other invariants are not disturbed.
LEMMA InterruptFrame ==
    ASSUME IInv, NEW pc \in {"handled", "panic"}, InterruptsOn, EnterKernel(pc),
           UNCHANGED <<running_thread, forbid_counter, user>>,
           "NEED_TASK_SWITCH" \in sys_flags' => "NEED_TASK_SWITCH" \in sys_flags,
           \A t \in Threads : "TB_SIGNAL" \notin thread_flags'[t],
           ToSet(thread_ready) \subseteq ToSet(thread_ready'),
           ToSet(thread_ready') \subseteq ToSet(thread_ready) \cup {Driver},
           thread_wait' \subseteq thread_wait,
           kstack # <<>> /\ kstack[1] \in {"install", "exit"} =>
               thread_ready' = thread_ready
    PROVE  /\ ControlType' /\ UserType'
           /\ BootInv' /\ NestingInv' /\ SwitchInv' /\ ForbidInv' /\ RequestInv'
           /\ OffQueues' = OffQueues /\ Created' = Created
<1>1. /\ kstack' \in Seq(KernelPC) /\ kstack' # <<>> /\ upc[KernelThread] # "boot"
      /\ kstack = <<>> =>
            Len(kstack') = 1 /\ kstack'[1] = pc /\ k_reenter' = 0 /\ ~ sti'
      /\ kstack # <<>> =>
            /\ Len(kstack) = 1 /\ sti /\ kstack[1] \in SwitchPC
            /\ Len(kstack') = 2 /\ kstack'[2] = pc /\ k_reenter' = 1 /\ sti'
            /\ kstack'[1] = IF kstack[1] = "halted" THEN "probe" ELSE kstack[1]
  BY EnterShape
<1>2. SchedType /\ DescType /\ ControlType /\ UserType
  BY TypeParts DEF IInv
<1>3. sti' = sti /\ next_thread' = next_thread
  BY DEF EnterKernel
<1>4. ControlType' /\ UserType'
  <2>1. k_reenter' \in Int
    BY <1>1
  <2>2. QED
    BY <1>1, <1>2, <1>3, <2>1, TypeFrame DEF ControlType
<1>5. upc' = upc /\ ret' = ret /\ reg' = reg
  BY DEF user
<1>6. "NEED_TASK_SWITCH" \notin sys_flags /\ "NEED_TASK_SWITCH" \notin sys_flags'
  BY <1>1 DEF IInv, SwitchInv, HandlerPC, SwitchPC
<1>7. BootInv' /\ Created' = Created
  BY <1>1, <1>5 DEF BootInv, Created
<1>8. NestingInv'
  <2>1. CASE kstack = <<>>
    <3>1. Len(kstack') = 1 /\ k_reenter' = 0 /\ ~ sti'
      BY <1>1, <2>1
    <3>2. QED
      BY <3>1 DEF NestingInv, NestingBounded
  <2>2. CASE kstack # <<>>
    <3>1. Len(kstack') = 2 /\ k_reenter' = 1 /\ sti'
      BY <1>1, <2>2
    <3>2. kstack'[2] \in {"handled", "dispatch", "panic"} /\ kstack'[1] \in SwitchPC
      BY <1>1, <2>2 DEF SwitchPC
    <3>3. QED
      BY <1>1, <3>1, <3>2 DEF NestingInv, NestingBounded
  <2>3. QED
    BY <2>1, <2>2
<1>9. SwitchInv'
  BY <1>1, <1>3, <1>6 DEF IInv, SwitchInv
<1>10. ForbidInv'
  <2>1. \A t \in Threads : InForbid(t)' <=> InForbid(t)
    BY <1>5 DEF InForbid
  <2>2. ForbidExact'
    BY <2>1 DEF IInv, ForbidInv, ForbidExact
  <2>3. \A t \in Threads : InForbid(t) => kstack = <<>>
    BY <1>1 DEF IInv, ForbidInv, HandlerPC, SwitchPC
  <2>4. kstack = <<>> => kstack'[1] \in HandlerPC \cup {"panic"}
    BY <1>1 DEF HandlerPC
  <2>5. QED
    BY <1>5, <1>6, <2>1, <2>2, <2>3, <2>4 DEF IInv, ForbidInv
<1>11. RequestInv'
  <2>1. CASE kstack = <<>>
    BY <1>1, <1>6, <2>1 DEF RequestInv, SwitchPC
  <2>2. CASE kstack # <<>>
    <3>1. ToSet(thread_ready') \subseteq {Driver}
      BY <1>1, <2>2 DEF IInv, RequestInv
    <3>2. kstack'[1] \in {"install", "exit"} =>
              thread_ready' = <<>> /\ Driver \notin thread_wait'
      BY <1>1, <2>2 DEF IInv, RequestInv
    <3>3. kstack'[1] \in SwitchPC /\ sti'
      BY <1>1, <2>2 DEF SwitchPC
    <3>4. QED
      BY <1>1, <3>1, <3>2, <3>3 DEF RequestInv, SwitchPC
  <2>3. QED
    BY <2>1, <2>2
<1>12. OffQueues' = OffQueues
  <2>1. CASE kstack = <<>>
    BY <1>1, <1>6, <2>1 DEF OffQueues
  <2>2. CASE kstack # <<>>
    BY <1>1, <1>3, <1>6, <2>2 DEF OffQueues, SwitchPC
  <2>3. QED
    BY <2>1, <2>2
<1>13. QED
  BY <1>4, <1>7, <1>8, <1>9, <1>10, <1>11, <1>12

\* An interrupt that leaves the queues and the descriptors alone.
LEMMA QuietInterrupt ==
    ASSUME IInv, NEW pc \in {"handled", "panic"}, InterruptsOn, EnterKernel(pc),
           UNCHANGED <<running_thread, thread_ready, thread_wait, forbid_counter,
                       desc, user>>,
           "NEED_TASK_SWITCH" \in sys_flags' => "NEED_TASK_SWITCH" \in sys_flags,
           SchedType'
    PROVE  IInv'
<1>1. /\ ControlType' /\ UserType'
      /\ BootInv' /\ NestingInv' /\ SwitchInv' /\ ForbidInv' /\ RequestInv'
      /\ OffQueues' = OffQueues /\ Created' = Created
  <2>1. \A t \in Threads : "TB_SIGNAL" \notin thread_flags'[t]
    BY DEF IInv, RequestInv, desc
  <2>2. QED
    BY <2>1, InterruptFrame
<1>2. TypeOK'
  <2>1. DescType'
    BY TypeParts, TypeFrame DEF IInv
  <2>2. QED
    BY <1>1, <2>1, TypePartsNext
<1>3. QueueDiscipline' /\ SignalFindsWaiter'
  BY <1>1 DEF IInv, QueueDiscipline, SignalFindsWaiter, desc
<1>4. QED
  BY <1>1, <1>2, <1>3 DEF IInv

\* timer_callback() counts down to -2 and asks for the scheduler on the way.
LEMMA TimerTickStep ==
    ASSUME IInv, TimerTick
    PROVE  IInv'
<1>1. /\ InterruptsOn /\ EnterKernel("handled")
      /\ UNCHANGED <<running_thread, thread_ready, thread_wait, forbid_counter, desc, user>>
      /\ sys_flags' \subseteq sys_flags \cup {"TIME_SLICE_EXPIRED", "NEED_SCHEDULE"}
      /\ ts_curr_count' = IF ts_curr_count < -1 THEN ts_curr_count ELSE ts_curr_count - 1
  BY DEF TimerTick, SliceEnds, CountDown
<1>2. SchedType'
  <2>1. SchedType
    BY TypeParts DEF IInv
  <2>2. ts_curr_count' \in -2 .. STD_TS_QUANTUM
    BY <1>1, <2>1 DEF SchedType
  <2>3. sys_flags' \subseteq SysFlags
    BY <1>1, <2>1 DEF SchedType, SysFlags
  <2>4. QED
    BY <1>1, <2>1, <2>2, <2>3 DEF SchedType
<1>3. QED
  BY <1>1, <1>2, QuietInterrupt

\* A key release, or the panic of a press that finds no driver: no queue changes.
LEMMA KeyReleaseStep ==
    ASSUME IInv, KeyRelease \/ KeyPanic
    PROVE  IInv'
<1>1. PICK pc \in {"handled", "panic"} :
         InterruptsOn /\ EnterKernel(pc) /\ UNCHANGED <<sched, desc, user>>
  BY DEF KeyRelease, KeyPanic
<1>2. SchedType'
  BY <1>1, TypeParts, TypeFrame DEF IInv
<1>3. UNCHANGED <<sys_flags, running_thread, thread_ready, thread_wait, forbid_counter>>
  BY <1>1 DEF sched
<1>4. QED
  BY <1>1, <1>2, <1>3, QuietInterrupt

\* A key press: the post, and the signal if the driver waits for it.
LEMMA KeyPressStep ==
    ASSUME IInv, NEW m \in FreeMessages, KeyPress(m)
    PROVE  IInv'
<1>1. /\ InterruptsOn /\ EnterKernel("handled")
      /\ message_list' = [message_list EXCEPT ![Driver] = Append(@, m)]
      /\ num_msg' = [num_msg EXCEPT ![Driver] = (@ + 1) % UINT8]
      /\ Signal(Driver, {"ST_MESG"})
      /\ UNCHANGED <<running_thread, ts_curr_count, forbid_counter, user>>
  BY DEF KeyPress, AddTail
<1>2. Driver \in Threads /\ m \in Messages /\ {"ST_MESG"} \subseteq Signals
  BY DEF FreeMessages, Signals
<1>3. SchedType /\ DescType
  BY TypeParts DEF IInv
<1>4. message_list' \in [Threads -> Seq(Messages)] /\ num_msg' \in [Threads -> 0 .. (UINT8 - 1)]
  <2>1. message_list \in [Threads -> Seq(Messages)] /\ num_msg \in [Threads -> 0 .. (UINT8 - 1)]
    BY <1>3 DEF DescType
  <2>2. Append(message_list[Driver], m) \in Seq(Messages)
    BY <1>2, <2>1
  <2>3. (num_msg[Driver] + 1) % UINT8 \in 0 .. (UINT8 - 1)
    <3>1. num_msg[Driver] + 1 \in Int
      BY <1>2, <2>1
    <3>2. \A x \in Int : x % UINT8 \in 0 .. (UINT8 - 1)
      OBVIOUS
    <3>3. QED
      BY <3>1, <3>2
  <2>4. QED
    BY <1>1, <2>1, <2>2, <2>3
<1>5. CASE "ST_MESG" \notin sig_wait[Driver]
  <2>1. UNCHANGED <<sig_recvd, sig_wait, thread_wait, thread_ready, thread_flags, sys_flags>>
    BY <1>1, <1>5 DEF Signal
  <2>2. /\ ControlType' /\ UserType'
        /\ BootInv' /\ NestingInv' /\ SwitchInv' /\ ForbidInv' /\ RequestInv'
        /\ OffQueues' = OffQueues /\ Created' = Created
    <3>1. \A t \in Threads : "TB_SIGNAL" \notin thread_flags'[t]
      BY <2>1 DEF IInv, RequestInv
    <3>2. QED
      BY <1>1, <2>1, <3>1, InterruptFrame
  <2>3. SchedType'
    BY <1>1, <1>3, <2>1 DEF SchedType
  <2>4. DescType'
    BY <1>3, <1>4, <2>1 DEF DescType
  <2>5. TypeOK'
    BY <2>2, <2>3, <2>4, TypePartsNext
  <2>6. QueueDiscipline' /\ SignalFindsWaiter'
    BY <2>1, <2>2 DEF IInv, QueueDiscipline, SignalFindsWaiter
  <2>7. QED
    BY <2>2, <2>5, <2>6 DEF IInv
<1>6. CASE "ST_MESG" \in sig_wait[Driver]
  <2>1. /\ sig_recvd' = [sig_recvd EXCEPT ![Driver] = @ \cup {"ST_MESG"}]
        /\ sig_wait' = [sig_wait EXCEPT ![Driver] = @ \ {"ST_MESG"}]
        /\ thread_wait' = thread_wait \ {Driver}
        /\ thread_ready' = Enqueue(thread_ready, Driver)
        /\ thread_flags' = [thread_flags EXCEPT ![Driver] =
                               (@ \ {"TS_WAIT"}) \cup {"TS_READY"}]
        /\ sys_flags' = sys_flags \cup {"NEED_SCHEDULE"}
    BY <1>1, <1>6 DEF Signal, Readied
  <2>2. Driver \in thread_wait
    BY <1>2, <1>6 DEF IInv, SignalFindsWaiter
  <2>3. Driver \notin ToSet(thread_ready) /\ Driver \notin OffQueues /\ Distinct(thread_ready)
    BY <2>2 DEF IInv, QueueDiscipline
  <2>4. /\ thread_ready' \in Seq(Threads)
        /\ ToSet(thread_ready') = ToSet(thread_ready) \cup {Driver}
        /\ Distinct(thread_ready')
    <3>1. thread_ready \in Seq(Threads)
      BY <1>3 DEF SchedType
    <3>2. QED
      BY <1>2, <2>1, <2>3, <3>1, EnqueueElements, EnqueueToSet, EnqueueDistinct
  <2>5. \A t \in Threads : "TB_SIGNAL" \notin thread_flags'[t]
    <3>1. \A t \in Threads : "TB_SIGNAL" \notin thread_flags[t]
      BY DEF IInv, RequestInv
    <3>2. thread_flags \in [Threads -> SUBSET ThreadFlags]
      BY <1>3 DEF DescType
    <3>3. QED
      BY <2>1, <3>1, <3>2
  <2>6. ~ (kstack # <<>> /\ kstack[1] \in {"install", "exit"})
    <3>1. SUFFICES ASSUME kstack # <<>>, kstack[1] \in {"install", "exit"}
                   PROVE  FALSE
      OBVIOUS
    <3>2. sti
      BY <1>1, <3>1, EnterShape
    <3>3. Driver \notin thread_wait
      BY <3>1, <3>2 DEF IInv, RequestInv, SwitchPC
    <3>4. QED
      BY <2>2, <3>3
  <2>7. /\ ControlType' /\ UserType'
        /\ BootInv' /\ NestingInv' /\ SwitchInv' /\ ForbidInv' /\ RequestInv'
        /\ OffQueues' = OffQueues /\ Created' = Created
    <3>1. "NEED_TASK_SWITCH" \in sys_flags' => "NEED_TASK_SWITCH" \in sys_flags
      BY <2>1
    <3>2. thread_wait' \subseteq thread_wait
      BY <2>1
    <3>3. QED
      BY <1>1, <2>4, <2>5, <2>6, <3>1, <3>2, InterruptFrame
  <2>8. SchedType'
    <3>1. sys_flags' \subseteq SysFlags /\ thread_wait' \subseteq Threads
      BY <1>3, <2>1 DEF SchedType, SysFlags
    <3>2. QED
      BY <1>1, <1>3, <2>4, <3>1 DEF SchedType
  <2>9. DescType'
    <3>1. sig_recvd' \in [Threads -> SUBSET Signals]
      BY <1>2, <1>3, <2>1 DEF DescType
    <3>2. sig_wait' \in [Threads -> SUBSET Signals]
      BY <1>3, <2>1 DEF DescType
    <3>3. thread_flags' \in [Threads -> SUBSET ThreadFlags]
      <4>1. thread_flags \in [Threads -> SUBSET ThreadFlags]
        BY <1>3 DEF DescType
      <4>2. (thread_flags[Driver] \ {"TS_WAIT"}) \cup {"TS_READY"} \in SUBSET ThreadFlags
        BY <1>2, <4>1 DEF ThreadFlags
      <4>3. QED
        BY <2>1, <4>1, <4>2
    <3>4. QED
      BY <1>4, <3>1, <3>2, <3>3 DEF DescType
  <2>10. TypeOK'
    BY <2>7, <2>8, <2>9, TypePartsNext
  <2>11. QueueDiscipline'
    BY <2>1, <2>2, <2>3, <2>4, <2>7 DEF IInv, QueueDiscipline
  <2>12. SignalFindsWaiter'
    BY <1>3, <2>1 DEF IInv, SignalFindsWaiter, DescType
  <2>13. QED
    BY <2>7, <2>10, <2>11, <2>12 DEF IInv
<1>7. QED
  BY <1>5, <1>6

-----------------------------------------------------------------------------
(***************************************************************************)
(* Boot.                                                                   *)
(***************************************************************************)
LEMMA CreateThreadStep ==
    ASSUME IInv, NEW t \in Threads, CreateThread(t)
    PROVE  IInv'
<1>1. /\ upc[KernelThread] = "boot" /\ upc[t] = "uncreated"
      /\ thread_flags' = [thread_flags EXCEPT ![t] = {"TS_READY", "TB_LAUNCH"}]
      /\ thread_ready' = Enqueue(thread_ready, t)
      /\ upc' = [upc EXCEPT ![t] = StartOf(t)]
      /\ ret' = [ret EXCEPT ![t] = IF t = Driver THEN "retrieve" ELSE "run"]
      /\ UNCHANGED <<sys_flags, running_thread, thread_wait, ts_curr_count,
                     forbid_counter, sig_wait, sig_recvd, message_list, num_msg,
                     reg, return_message, buf, k_reenter, kstack, sti, next_thread>>
  BY DEF CreateThread
<1>2. KernelThread \in Threads /\ t # KernelThread
  BY <1>1
<1>3. StartOf(t) \in {"run", "format", "retrieve"}
  BY DEF StartOf
<1>4. SchedType /\ DescType /\ ControlType /\ UserType
  BY TypeParts DEF IInv
<1>5. kstack = <<>> /\ sys_flags = {} /\ ~ sti
  BY <1>1, StackShape DEF IInv, BootInv
<1>6. upc \in [Threads -> UserPC]
  BY <1>4 DEF UserType
<1>7. /\ upc'[t] \in {"run", "format", "retrieve"}
      /\ \A u \in Threads : u # t => upc'[u] = upc[u]
      /\ upc'[KernelThread] = "boot"
  BY <1>1, <1>2, <1>3, <1>6
<1>8. Created' = Created \cup {t} /\ t \notin Created
  BY <1>1, <1>7 DEF Created
<1>9. OffQueues = {running_thread} /\ OffQueues' = {running_thread}
  BY <1>1, <1>5 DEF OffQueues
<1>10. t \notin ToSet(thread_ready) /\ t \notin thread_wait /\ t # running_thread
  BY <1>8, <1>9 DEF IInv, QueueDiscipline
<1>11. /\ thread_ready' \in Seq(Threads)
       /\ ToSet(thread_ready') = ToSet(thread_ready) \cup {t}
       /\ Distinct(thread_ready')
  <2>1. thread_ready \in Seq(Threads) /\ Distinct(thread_ready)
    BY <1>4 DEF IInv, QueueDiscipline, SchedType
  <2>2. QED
    BY <1>1, <1>10, <2>1, EnqueueElements, EnqueueToSet, EnqueueDistinct
<1>12. TypeOK'
  <2>1. SchedType'
    BY <1>1, <1>4, <1>11 DEF SchedType
  <2>2. DescType'
    <3>1. {"TS_READY", "TB_LAUNCH"} \in SUBSET ThreadFlags
      BY DEF ThreadFlags
    <3>2. thread_flags' \in [Threads -> SUBSET ThreadFlags]
      BY <1>1, <1>4, <3>1 DEF DescType
    <3>3. QED
      BY <1>1, <1>4, <3>2 DEF DescType
  <2>3. ControlType'
    BY <1>1, <1>4, TypeFrame
  <2>4. UserType'
    <3>1. StartOf(t) \in UserPC
      BY <1>3 DEF UserPC
    <3>2. upc' \in [Threads -> UserPC]
      BY <1>1, <1>6, <3>1
    <3>3. ret' \in [Threads -> UserPC]
      BY <1>1, <1>4 DEF UserType, UserPC
    <3>4. QED
      BY <1>1, <1>4, <3>2, <3>3 DEF UserType
  <2>5. QED
    BY <2>1, <2>2, <2>3, <2>4, TypePartsNext
<1>13. BootInv' /\ NestingInv' /\ SwitchInv'
  BY <1>1, <1>5 DEF IInv, BootInv, NestingInv, NestingBounded, SwitchInv
<1>14. ForbidInv'
  <2>1. \A u \in Threads : InForbid(u)' <=> InForbid(u)
    BY <1>1, <1>7 DEF InForbid, ForbidPC
  <2>2. ForbidExact'
    BY <1>1, <2>1 DEF IInv, ForbidInv, ForbidExact
  <2>3. \A u \in Threads : upc'[u] \in {"forbid_store", "permit_store"} => upc'[u] = upc[u]
    BY <1>7
  <2>4. \A u \in Threads : ret'[u] \in {"run", "retrieve", "cycle", "format"}
    BY <1>1, <1>4 DEF IInv, ForbidInv, UserType
  <2>5. QED
    BY <1>1, <2>1, <2>2, <2>3, <2>4 DEF IInv, ForbidInv
<1>15. QueueDiscipline'
  BY <1>1, <1>8, <1>9, <1>10, <1>11 DEF IInv, QueueDiscipline
<1>16. SignalFindsWaiter'
  BY <1>1 DEF IInv, SignalFindsWaiter
<1>17. RequestInv'
  <2>1. \A u \in Threads : "TB_SIGNAL" \notin thread_flags'[u]
    BY <1>1, <1>4 DEF IInv, RequestInv, DescType
  <2>2. QED
    BY <1>1, <1>5, <2>1 DEF RequestInv
<1>18. QED
  BY <1>12, <1>13, <1>14, <1>15, <1>16, <1>17 DEF IInv

\* enter_user_mode() is still inside the forbid() init() began with.
LEMMA EnterUserModeStep ==
    ASSUME IInv, EnterUserMode
    PROVE  IInv'
<1>1. /\ upc[KernelThread] = "boot"
      /\ upc' = [upc EXCEPT ![KernelThread] = "permit_load"]
      /\ UNCHANGED <<sched, desc, reg, return_message, buf, k_reenter, kstack, sti,
                     next_thread>>
  BY DEF EnterUserMode
<1>2. PICK pc \in {"format", "run"} : ret' = [ret EXCEPT ![KernelThread] = pc]
  BY DEF EnterUserMode
<1>3. SchedType /\ DescType /\ ControlType /\ UserType
  BY TypeParts DEF IInv
<1>4. upc \in [Threads -> UserPC] /\ KernelThread \in Threads
  BY <1>3 DEF UserType
<1>5. /\ upc'[KernelThread] = "permit_load"
      /\ \A u \in Threads : u # KernelThread => upc'[u] = upc[u]
  BY <1>1, <1>4
<1>6. TypeOK'
  <2>1. upc' \in [Threads -> UserPC]
    BY <1>1, <1>4 DEF UserPC, ForbidPC
  <2>2. ret' \in [Threads -> UserPC]
    BY <1>2, <1>3 DEF UserType, UserPC
  <2>3. UserType'
    BY <1>1, <1>3, <2>1, <2>2 DEF UserType
  <2>4. SchedType' /\ DescType' /\ ControlType'
    BY <1>1, <1>3, TypeFrame
  <2>5. QED
    BY <2>3, <2>4, TypePartsNext
<1>7. ForbidInv'
  <2>1. \A u \in Threads : InForbid(u)' <=> InForbid(u)
    BY <1>1, <1>5 DEF InForbid, ForbidPC
  <2>2. ForbidExact'
    BY <1>1, <2>1 DEF IInv, ForbidInv, ForbidExact, sched
  <2>3. \A u \in Threads : upc'[u] \in {"forbid_store", "permit_store"} => upc'[u] = upc[u]
    BY <1>5
  <2>4. \A u \in Threads : ret'[u] \in {"run", "retrieve", "cycle", "format"}
    BY <1>2, <1>3 DEF IInv, ForbidInv, UserType
  <2>5. QED
    BY <1>1, <2>1, <2>2, <2>3, <2>4 DEF IInv, ForbidInv, sched
<1>8. Created' = Created
  BY <1>1, <1>4, <1>5 DEF Created
<1>9. kstack = <<>> /\ sys_flags = {}
  BY <1>1 DEF IInv, BootInv
<1>10. BootInv' /\ NestingInv' /\ SwitchInv'
  BY <1>1, <1>9 DEF IInv, BootInv, NestingInv, NestingBounded, SwitchInv, sched
<1>11. QueueDiscipline' /\ SignalFindsWaiter' /\ RequestInv'
  <2>1. OffQueues' = OffQueues
    BY <1>1 DEF OffQueues, sched
  <2>2. QueueDiscipline' /\ SignalFindsWaiter'
    BY <1>1, <1>8, <2>1 DEF IInv, QueueDiscipline, SignalFindsWaiter, sched, desc
  <2>3. RequestInv'
    BY <1>1 DEF IInv, RequestInv, sched, desc
  <2>4. QED
    BY <2>2, <2>3
<1>12. QED
  BY <1>6, <1>7, <1>10, <1>11 DEF IInv

-----------------------------------------------------------------------------
(***************************************************************************)
(* The scheduler, the dispatcher and the switch.                           *)
(***************************************************************************)

\* The steps of the switch itself are never those of a nested interrupt.
LEMMA SwitchAtTheBottom ==
    ASSUME IInv, NEW pc \in SwitchPC, At(pc)
    PROVE  kstack # <<>> /\ Len(kstack) = 1 /\ kstack[1] = pc /\ k_reenter = 0
<1>1. kstack # <<>> /\ kstack[Len(kstack)] = pc
  BY DEF At, Top
<1>2. QED
  BY <1>1, StackShape DEF HandlerPC, SwitchPC

\* ... and their successors leave one frame on the stack.
LEMMA SwitchGoto ==
    ASSUME IInv, NEW old \in SwitchPC, NEW pc \in SwitchPC, At(old), Goto(pc),
           UNCHANGED k_reenter
    PROVE  /\ kstack # <<>> /\ kstack[1] = old /\ Len(kstack) = 1
           /\ kstack' \in Seq(KernelPC) /\ kstack' # <<>>
           /\ Len(kstack') = 1 /\ kstack'[1] = pc
           /\ NestingInv'
<1>1. kstack # <<>> /\ Len(kstack) = 1 /\ kstack[1] = old /\ k_reenter = 0
  BY SwitchAtTheBottom
<1>2. old \in KernelPC /\ pc \in KernelPC
  BY DEF KernelPC
<1>3. kstack' \in Seq(KernelPC) /\ kstack' # <<>> /\ Len(kstack') = 1 /\ kstack'[1] = pc
  BY <1>1, <1>2, GotoShape
<1>4. k_reenter' = 0
  BY <1>1
<1>5. NestingInv'
  BY <1>3, <1>4 DEF NestingInv, NestingBounded
<1>6. QED
  BY <1>1, <1>3, <1>5

\* The kernel's own steps leave the threads in ring 3 where they are.
LEMMA KernelFrame ==
    ASSUME IInv, kstack # <<>>, UNCHANGED user
    PROVE  UserType' /\ Created' = Created /\ BootInv'
<1>1. UserType'
  BY TypeParts, TypeFrame DEF IInv
<1>2. upc' = upc /\ upc[KernelThread] # "boot"
  BY StackShape DEF user
<1>3. Created' = Created /\ BootInv'
  BY <1>2 DEF Created, BootInv
<1>4. QED
  BY <1>1, <1>3

\* The counter stays exact in a step that lets whoever is inside run on.
LEMMA ForbidFrame ==
    ASSUME IInv, UNCHANGED <<user, forbid_counter>>,
           \A t \in Threads : InForbid(t) =>
               /\ running_thread' = running_thread
               /\ "NEED_TASK_SWITCH" \notin sys_flags'
               /\ kstack' = <<>> \/ kstack'[1] \in HandlerPC \cup {"panic"}
    PROVE  ForbidInv'
<1>1. upc' = upc /\ ret' = ret /\ reg' = reg
  BY DEF user
<1>2. \A t \in Threads : InForbid(t)' <=> InForbid(t)
  BY <1>1 DEF InForbid
<1>3. ForbidExact'
  <2>1. forbid_counter' = IF \E t \in Threads : InForbid(t)' THEN 1 ELSE 0
    BY <1>2 DEF IInv, ForbidInv, ForbidExact
  <2>2. \A t \in Threads : InForbid(t)' => t = running_thread'
    BY <1>2 DEF IInv, ForbidInv, ForbidExact
  <2>3. QED
    BY <2>1, <2>2 DEF ForbidExact
<1>4. QED
  BY <1>1, <1>2, <1>3 DEF IInv, ForbidInv

\* Nobody is between forbid() and permit() when threads are switched.
LEMMA NoForbidInSwitch ==
    ASSUME IInv, kstack # <<>>, kstack[1] \in SwitchPC, NEW t \in Threads
    PROVE  ~ InForbid(t)
  BY DEF IInv, ForbidInv, HandlerPC, SwitchPC

\* The descriptors stay well formed when one thread's flags change.
LEMMA FlagsFrame ==
    ASSUME IInv, NEW t \in Threads, NEW F \in SUBSET ThreadFlags, "TB_SIGNAL" \notin F,
           thread_flags' = [thread_flags EXCEPT ![t] = F],
           UNCHANGED <<sig_wait, sig_recvd, message_list, num_msg>>
    PROVE  DescType' /\ \A u \in Threads : "TB_SIGNAL" \notin thread_flags'[u]
<1>1. DescType /\ \A u \in Threads : "TB_SIGNAL" \notin thread_flags[u]
  BY TypeParts DEF IInv, RequestInv
<1>2. QED
  BY <1>1 DEF DescType

\* The dispatcher returns to what was interrupted, with no request left over
\* but that of an idle switch.
LEMMA NoSwitchStep ==
    ASSUME IInv, NoSwitch
    PROVE  IInv'
<1>1. /\ At("dispatch") /\ ~ SwitchDue /\ LeaveKernel
      /\ UNCHANGED <<sched, desc, user, sti, next_thread>>
  BY DEF NoSwitch
<1>2. kstack # <<>> /\ kstack[Len(kstack)] = "dispatch"
  BY <1>1 DEF At, Top
<1>3. /\ kstack' \in Seq(KernelPC)
      /\ Len(kstack) = 1 => kstack' = <<>> /\ k_reenter' = -1
      /\ Len(kstack) = 2 => Len(kstack') = 1 /\ kstack'[1] = kstack[1] /\ k_reenter' = 0
  BY <1>1, <1>2, LeaveShape
<1>4. \/ Len(kstack) = 1 /\ k_reenter = 0
      \/ Len(kstack) = 2 /\ k_reenter = 1 /\ sti /\ kstack[1] \in SwitchPC
  BY <1>2, StackShape
<1>5. SchedType /\ DescType /\ ControlType /\ UserType
  BY TypeParts DEF IInv
<1>6. UserType' /\ Created' = Created /\ BootInv'
  BY <1>1, <1>2, KernelFrame
<1>7. UNCHANGED <<sys_flags, running_thread, thread_ready, thread_wait, forbid_counter>>
  BY <1>1 DEF sched
<1>8. TypeOK'
  <2>1. SchedType' /\ DescType'
    BY <1>1, <1>5, TypeFrame
  <2>2. k_reenter' \in Int
    BY <1>3, <1>4
  <2>3. ControlType'
    BY <1>1, <1>3, <1>5, <2>2 DEF ControlType
  <2>4. QED
    BY <1>6, <2>1, <2>3, TypePartsNext
<1>9. CASE Len(kstack) = 1
  <2>1. kstack' = <<>> /\ k_reenter' = -1 /\ kstack[1] = "dispatch"
    BY <1>2, <1>3, <1>9
  <2>2. "NEED_TASK_SWITCH" \notin sys_flags /\ "NEED_SCHEDULE" \notin sys_flags
    <3>1. k_reenter = 0
      BY <1>4, <1>9
    <3>2. QED
      BY <1>1, <1>2, <2>1, <3>1 DEF SwitchDue, IInv, RequestInv
  <2>3. ~ sti
    BY <2>1 DEF IInv, NestingInv, SwitchPC
  <2>4. NestingInv' /\ SwitchInv'
    BY <1>1, <1>7, <2>1, <2>2, <2>3 DEF NestingInv, NestingBounded, SwitchInv
  <2>5. ForbidInv'
    BY <1>1, <1>7, <2>1, <2>2, ForbidFrame
  <2>6. OffQueues' = OffQueues
    BY <1>2, <1>7, <2>1, <2>2 DEF OffQueues
  <2>7. QueueDiscipline' /\ SignalFindsWaiter' /\ RequestInv'
    BY <1>1, <1>6, <1>7, <2>1, <2>2, <2>6
       DEF IInv, QueueDiscipline, SignalFindsWaiter, RequestInv, desc
  <2>8. QED
    BY <1>6, <1>8, <2>4, <2>5, <2>7 DEF IInv
<1>10. CASE Len(kstack) = 2
  <2>1. /\ Len(kstack') = 1 /\ kstack'[1] = kstack[1] /\ k_reenter' = 0 /\ kstack' # <<>>
        /\ sti /\ kstack[1] \in SwitchPC
    BY <1>3, <1>4, <1>10
  <2>2. "NEED_TASK_SWITCH" \notin sys_flags
    BY <2>1 DEF IInv, SwitchInv, HandlerPC, SwitchPC
  <2>3. NestingInv'
    BY <1>1, <2>1 DEF NestingInv, NestingBounded
  <2>4. SwitchInv'
    BY <1>1, <1>2, <1>7, <2>1, <2>2 DEF IInv, SwitchInv
  <2>5. ForbidInv'
    BY <1>1, <1>2, <1>7, <2>1, <2>2, ForbidFrame, NoForbidInSwitch
  <2>6. OffQueues' = OffQueues
    BY <1>1, <1>2, <1>7, <2>1 DEF OffQueues
  <2>7. QueueDiscipline' /\ SignalFindsWaiter'
    BY <1>1, <1>6, <1>7, <2>6 DEF IInv, QueueDiscipline, SignalFindsWaiter, desc
  <2>8. RequestInv'
    BY <1>1, <1>2, <1>7, <2>1 DEF IInv, RequestInv, desc
  <2>9. QED
    BY <1>6, <1>8, <2>3, <2>4, <2>5, <2>7, <2>8 DEF IInv
<1>11. QED
  BY <1>4, <1>9, <1>10

\* switch_threads() is entered at the outermost level, with no thread in forbid().
LEMMA BeginSwitchStep ==
    ASSUME IInv, BeginSwitch
    PROVE  IInv'
<1>1. /\ At("dispatch") /\ SwitchDue /\ Goto("probe")
      /\ sys_flags' = sys_flags \ {"NEED_TASK_SWITCH", "TIME_SLICE_EXPIRED"}
      /\ thread_flags' = [thread_flags EXCEPT ![running_thread] = @ \ {"TS_RUN"}]
      /\ UNCHANGED <<running_thread, thread_ready, thread_wait, ts_curr_count,
                     forbid_counter, sig_wait, sig_recvd, message_list, num_msg,
                     user, k_reenter, sti, next_thread>>
  BY DEF BeginSwitch
<1>2. kstack # <<>> /\ k_reenter = 0 /\ "NEED_TASK_SWITCH" \in sys_flags
  BY <1>1 DEF At, SwitchDue
<1>3. Len(kstack) = 1
  BY <1>2, StackShape
<1>4. "dispatch" \in KernelPC /\ "probe" \in KernelPC
  BY DEF KernelPC, SwitchPC
<1>5. /\ kstack' \in Seq(KernelPC) /\ kstack' # <<>> /\ Len(kstack') = 1
      /\ kstack[1] = "dispatch" /\ kstack'[1] = "probe"
  BY <1>1, <1>3, <1>4, GotoShape
<1>6. SchedType /\ DescType /\ ControlType /\ UserType
  BY TypeParts DEF IInv
<1>7. UserType' /\ Created' = Created /\ BootInv'
  BY <1>1, <1>2, KernelFrame
<1>8. DescType' /\ \A u \in Threads : "TB_SIGNAL" \notin thread_flags'[u]
  <2>1. running_thread \in Threads /\ thread_flags \in [Threads -> SUBSET ThreadFlags]
    BY <1>6 DEF SchedType, DescType
  <2>2. thread_flags[running_thread] \ {"TS_RUN"} \in SUBSET ThreadFlags
    BY <2>1
  <2>3. "TB_SIGNAL" \notin thread_flags[running_thread] \ {"TS_RUN"}
    BY <2>1 DEF IInv, RequestInv
  <2>4. QED
    BY <1>1, <2>1, <2>2, <2>3, FlagsFrame
<1>9. TypeOK'
  <2>1. SchedType'
    BY <1>1, <1>6 DEF SchedType
  <2>2. ControlType'
    BY <1>1, <1>5, <1>6 DEF ControlType
  <2>3. QED
    BY <1>7, <1>8, <2>1, <2>2, TypePartsNext
<1>10. ~ sti
  BY <1>5 DEF IInv, NestingInv, SwitchPC
<1>11. NestingInv' /\ SwitchInv'
  <2>1. k_reenter' = 0 /\ ~ sti'
    BY <1>1, <1>2, <1>10
  <2>2. NestingInv'
    BY <1>5, <2>1 DEF NestingInv, NestingBounded
  <2>3. SwitchInv'
    BY <1>1, <1>5 DEF SwitchInv
  <2>4. QED
    BY <2>2, <2>3
<1>12. ForbidInv'
  <2>1. \A t \in Threads : ~ InForbid(t)
    BY <1>2 DEF IInv, ForbidInv
  <2>2. QED
    BY <1>1, <2>1, ForbidFrame
<1>13. OffQueues' = {} /\ OffQueues = {}
  BY <1>2, <1>5 DEF OffQueues
<1>14. QueueDiscipline' /\ SignalFindsWaiter'
  BY <1>1, <1>7, <1>13 DEF IInv, QueueDiscipline, SignalFindsWaiter
<1>15. RequestInv'
  BY <1>1, <1>2, <1>5, <1>8, <1>10 DEF IInv, RequestInv
<1>16. QED
  BY <1>7, <1>9, <1>11, <1>12, <1>14, <1>15 DEF IInv

\* The scheduler takes the processor from the running thread, or does not.
LEMMA RescheduleStep ==
    ASSUME IInv, Reschedule
    PROVE  IInv'
<1>1. /\ At("handled") /\ Goto("dispatch")
      /\ UNCHANGED <<running_thread, thread_wait, ts_curr_count, forbid_counter,
                     desc, user, k_reenter, sti, next_thread>>
  BY DEF Reschedule
<1>2. kstack # <<>>
  BY <1>1 DEF At
<1>3. "handled" \in KernelPC /\ "dispatch" \in KernelPC
  BY DEF KernelPC
<1>4. /\ kstack' \in Seq(KernelPC) /\ kstack' # <<>> /\ Len(kstack') = Len(kstack)
      /\ Len(kstack) = 1 => kstack[1] = "handled" /\ kstack'[1] = "dispatch"
      /\ Len(kstack) = 2 => kstack'[2] = "dispatch" /\ kstack'[1] = kstack[1]
  BY <1>1, <1>3, GotoShape
<1>5. \/ Len(kstack) = 1 /\ k_reenter = 0
      \/ Len(kstack) = 2 /\ k_reenter = 1 /\ sti /\ kstack[1] \in SwitchPC
  BY <1>2, StackShape
<1>6. SchedType /\ DescType /\ ControlType /\ UserType
  BY TypeParts DEF IInv
<1>7. UserType' /\ Created' = Created /\ BootInv'
  BY <1>1, <1>2, KernelFrame
<1>8. DescType' /\ ControlType'
  BY <1>1, <1>4, <1>6, TypeFrame DEF ControlType
<1>9. NestingInv'
  <2>1. CASE Len(kstack) = 1
    <3>1. ~ sti
      BY <1>2, <1>4, <2>1 DEF IInv, NestingInv, SwitchPC
    <3>2. Len(kstack') = 1 /\ k_reenter' = 0 /\ ~ sti'
      BY <1>1, <1>4, <1>5, <2>1, <3>1
    <3>3. QED
      BY <3>2 DEF NestingInv, NestingBounded
  <2>2. CASE Len(kstack) = 2
    <3>1. /\ Len(kstack') = 2 /\ k_reenter' = 1 /\ sti' /\ kstack'[1] \in SwitchPC
          /\ kstack'[2] = "dispatch"
      BY <1>1, <1>4, <1>5, <2>2
    <3>2. QED
      BY <1>4, <3>1 DEF NestingInv, NestingBounded
  <2>3. QED
    BY <1>5, <2>1, <2>2
<1>10. SignalFindsWaiter'
  BY <1>1 DEF IInv, SignalFindsWaiter, desc
<1>11. CASE Requested /\ Permitted /\ MustPreempt
  <2>1. /\ thread_ready' = Enqueue(thread_ready, running_thread)
        /\ sys_flags' = (sys_flags \ {"NEED_SCHEDULE"}) \cup {"NEED_TASK_SWITCH"}
    BY <1>11 DEF Reschedule
  <2>2. Len(kstack) = 1 /\ kstack[1] = "handled" /\ kstack'[1] = "dispatch"
    BY <1>4, <1>5, <1>11 DEF Requested
  <2>3. "NEED_TASK_SWITCH" \notin sys_flags
    <3>1. thread_ready # <<>>
      BY <1>6, <1>11 DEF IInv, RequestInv, MustPreempt, SchedType
    <3>2. QED
      BY <1>2, <1>11, <2>2, <3>1 DEF IInv, RequestInv, Requested
  <2>4. OffQueues = {running_thread} /\ OffQueues' = {}
    BY <1>2, <1>4, <2>1, <2>2, <2>3 DEF OffQueues
  <2>5. /\ running_thread \notin ToSet(thread_ready)
        /\ running_thread \notin thread_wait
        /\ Distinct(thread_ready)
    BY <2>4 DEF IInv, QueueDiscipline
  <2>6. /\ thread_ready' \in Seq(Threads)
        /\ ToSet(thread_ready') = ToSet(thread_ready) \cup {running_thread}
        /\ Distinct(thread_ready')
    <3>1. thread_ready \in Seq(Threads) /\ running_thread \in Threads
      BY <1>6 DEF SchedType
    <3>2. QED
      BY <2>1, <2>5, <3>1, EnqueueElements, EnqueueToSet, EnqueueDistinct
  <2>7. TypeOK'
    <3>1. sys_flags' \subseteq SysFlags
      BY <1>6, <2>1 DEF SchedType, SysFlags
    <3>2. SchedType'
      BY <1>1, <1>6, <2>6, <3>1 DEF SchedType
    <3>3. QED
      BY <1>7, <1>8, <3>2, TypePartsNext
  <2>8. QueueDiscipline'
    BY <1>1, <1>7, <2>4, <2>5, <2>6 DEF IInv, QueueDiscipline
  <2>9. SwitchInv'
    BY <1>4, <2>2 DEF SwitchInv, HandlerPC
  <2>10. ForbidInv'
    <3>1. \A t \in Threads : ~ InForbid(t)
      BY <1>11 DEF IInv, ForbidInv, ForbidExact, Permitted
    <3>2. QED
      BY <1>1, <3>1, ForbidFrame
  <2>11. RequestInv'
    <3>1. \A t \in Threads : "TB_SIGNAL" \notin thread_flags'[t]
      BY <1>1 DEF IInv, RequestInv, desc
    <3>2. "NEED_SCHEDULE" \notin sys_flags'
      BY <2>1
    <3>3. QED
      BY <1>4, <2>2, <3>1, <3>2 DEF RequestInv, SwitchPC
  <2>12. QED
    BY <1>7, <1>9, <1>10, <2>7, <2>8, <2>9, <2>10, <2>11 DEF IInv
<1>12. CASE ~ (Requested /\ Permitted /\ MustPreempt)
  <2>1. /\ thread_ready' = thread_ready
        /\ sys_flags' = IF Requested THEN sys_flags \ {"NEED_SCHEDULE"} ELSE sys_flags
    BY <1>12 DEF Reschedule
  <2>2. "NEED_TASK_SWITCH" \in sys_flags' <=> "NEED_TASK_SWITCH" \in sys_flags
    BY <2>1
  <2>3. TypeOK'
    <3>1. sys_flags' \subseteq SysFlags
      BY <1>6, <2>1 DEF SchedType
    <3>2. SchedType'
      BY <1>1, <1>6, <2>1, <3>1 DEF SchedType
    <3>3. QED
      BY <1>7, <1>8, <3>2, TypePartsNext
  <2>4. QueueDiscipline'
    <3>1. OffQueues' = OffQueues
      BY <1>1, <1>2, <1>4, <1>5, <2>2 DEF OffQueues
    <3>2. QED
      BY <1>1, <1>7, <2>1, <3>1 DEF IInv, QueueDiscipline
  <2>5. SwitchInv'
    BY <1>1, <1>2, <1>4, <1>5, <2>1, <2>2 DEF IInv, SwitchInv, HandlerPC
  <2>6. ForbidInv'
    <3>1. ASSUME NEW t \in Threads, InForbid(t)
          PROVE  /\ "NEED_TASK_SWITCH" \notin sys_flags'
                 /\ kstack'[1] \in HandlerPC \cup {"panic"}
      BY <1>2, <1>4, <1>5, <2>2, <3>1 DEF IInv, ForbidInv, HandlerPC
    <3>2. QED
      BY <1>1, <3>1, ForbidFrame
  <2>7. RequestInv'
    <3>1. \A t \in Threads : "TB_SIGNAL" \notin thread_flags'[t]
      BY <1>1 DEF IInv, RequestInv, desc
    <3>2. CASE Len(kstack) = 1
      <4>1. kstack'[1] = "dispatch" /\ "NEED_SCHEDULE" \notin sys_flags'
        BY <1>4, <1>5, <2>1, <3>2 DEF Requested
      <4>2. QED
        BY <1>4, <3>1, <4>1 DEF RequestInv, SwitchPC
    <3>3. CASE Len(kstack) = 2
      <4>1. kstack'[1] = kstack[1] /\ kstack[1] \in SwitchPC /\ sti
        BY <1>4, <1>5, <3>3
      <4>2. QED
        BY <1>1, <1>2, <1>4, <2>1, <3>1, <4>1 DEF IInv, RequestInv, SwitchPC
    <3>4. QED
      BY <1>5, <3>2, <3>3
  <2>8. QED
    BY <1>7, <1>9, <1>10, <2>3, <2>4, <2>5, <2>6, <2>7 DEF IInv
<1>13. QED
  BY <1>11, <1>12

\* The steps of the idle loop: no thread is taken from any queue.
LEMMA IdleLoopStep ==
    ASSUME IInv, ProbeReady \/ Idle \/ Halt
    PROVE  IInv'
<1>1. PICK old \in {"probe", "hlt"}, pc \in {"unlink", "hlt", "halted"} :
         At(old) /\ Goto(pc)
  BY DEF ProbeReady, Idle, Halt
<1>2. /\ UNCHANGED <<running_thread, thread_ready, thread_wait, ts_curr_count,
                     forbid_counter, desc, user, k_reenter>>
      /\ sys_flags' \subseteq sys_flags \cup {"NEED_SCHEDULE"}
      /\ sys_flags' = sys_flags \/ sti'
      /\ sti' = sti \/ (sti' = TRUE /\ thread_ready = <<>>)
      /\ sti => sti'
  BY DEF ProbeReady, Idle, Halt, sched
<1>3. /\ kstack # <<>> /\ kstack[1] = old /\ Len(kstack) = 1
      /\ kstack' \in Seq(KernelPC) /\ kstack' # <<>> /\ Len(kstack') = 1 /\ kstack'[1] = pc
      /\ NestingInv'
  <2>1. old \in SwitchPC /\ pc \in SwitchPC
    BY DEF SwitchPC
  <2>2. QED
    BY <1>1, <1>2, <2>1, SwitchGoto
<1>4. SchedType /\ DescType /\ ControlType
  BY TypeParts DEF IInv
<1>5. UserType' /\ Created' = Created /\ BootInv'
  BY <1>2, <1>3, KernelFrame
<1>6. \/ next_thread' = next_thread
      \/ next_thread' = Head(thread_ready) /\ thread_ready # <<>>
  BY DEF ProbeReady, Idle, Halt
<1>7. pc = "unlink" => next_thread' \in ToSet(thread_ready)
  <2>1. SUFFICES ASSUME pc = "unlink"
                 PROVE  next_thread' \in ToSet(thread_ready)
    OBVIOUS
  <2>2. Goto("unlink") /\ kstack'[1] = "unlink"
    BY <1>1, <1>3, <2>1
  <2>3. ~ Idle /\ ~ Halt
    <3>1. "hlt" \in SwitchPC /\ "halted" \in SwitchPC /\ "probe" \in SwitchPC
      BY DEF SwitchPC
    <3>2. Idle => kstack'[1] = "hlt"
      BY <3>1, SwitchGoto DEF Idle
    <3>3. Halt => kstack'[1] = "halted"
      BY <3>1, SwitchGoto DEF Halt
    <3>4. QED
      BY <2>2, <3>2, <3>3
  <2>4. next_thread' = thread_ready[1] /\ thread_ready # <<>>
    BY <2>3 DEF ProbeReady
  <2>5. thread_ready \in Seq(Threads)
    BY <1>4 DEF SchedType
  <2>6. QED
    BY <2>4, <2>5 DEF ToSet
<1>8. TypeOK'
  <2>1. SchedType'
    <3>1. sys_flags' \subseteq SysFlags
      BY <1>2, <1>4 DEF SchedType, SysFlags
    <3>2. QED
      BY <1>2, <1>4, <3>1 DEF SchedType
  <2>2. DescType'
    BY <1>2, <1>4, TypeFrame
  <2>3. ControlType'
    <3>1. next_thread' \in Threads \cup {NULL}
      <4>1. thread_ready \in Seq(Threads) /\ next_thread \in Threads \cup {NULL}
        BY <1>4 DEF SchedType, ControlType
      <4>2. thread_ready # <<>> => Head(thread_ready) \in Threads
        BY <4>1
      <4>3. QED
        BY <1>6, <4>1, <4>2
    <3>2. sti' \in BOOLEAN
      <4>1. sti \in BOOLEAN
        BY <1>4 DEF ControlType
      <4>2. QED
        BY <1>2, <4>1, Zenon
    <3>3. k_reenter' \in Int
      BY <1>2, <1>4 DEF ControlType
    <3>4. QED
      BY <1>3, <3>1, <3>2, <3>3 DEF ControlType
  <2>4. QED
    BY <1>5, <2>1, <2>2, <2>3, TypePartsNext
<1>9. "NEED_TASK_SWITCH" \notin sys_flags /\ "NEED_TASK_SWITCH" \notin sys_flags'
  BY <1>2, <1>3 DEF IInv, SwitchInv, HandlerPC
<1>10. SwitchInv'
  BY <1>2, <1>3, <1>7, <1>9 DEF SwitchInv
<1>11. ForbidInv'
  <2>1. kstack[1] \in SwitchPC
    BY <1>3 DEF SwitchPC
  <2>2. QED
    BY <1>2, <1>3, <2>1, ForbidFrame, NoForbidInSwitch
<1>12. QueueDiscipline' /\ SignalFindsWaiter'
  <2>1. OffQueues = {} /\ OffQueues' = {}
    BY <1>3 DEF OffQueues
  <2>2. QED
    BY <1>2, <1>5, <2>1 DEF IInv, QueueDiscipline, SignalFindsWaiter, desc
<1>13. RequestInv'
  <2>1. kstack[1] \in SwitchPC
    BY <1>3 DEF SwitchPC
  <2>2. \A t \in Threads : "TB_SIGNAL" \notin thread_flags'[t]
    BY <1>2 DEF IInv, RequestInv, desc
  <2>3. ~ sti' => "NEED_SCHEDULE" \notin sys_flags'
    BY <1>2, <1>3, <2>1 DEF IInv, RequestInv
  <2>4. sti' => ToSet(thread_ready') \subseteq {Driver}
    <3>1. CASE sti
      BY <1>2, <1>3, <2>1, <3>1 DEF IInv, RequestInv
    <3>2. CASE ~ sti
      <4>1. sti' => thread_ready = <<>>
        BY <1>2, <3>2, Zenon
      <4>2. QED
        BY <1>2, <4>1 DEF ToSet
    <3>3. QED
      BY <3>1, <3>2
  <2>5. QED
    BY <1>3, <2>2, <2>3, <2>4 DEF RequestInv
<1>14. QED
  BY <1>3, <1>5, <1>8, <1>10, <1>11, <1>12, <1>13 DEF IInv

\* remove() takes the chosen thread out of the ready queue.
LEMMA UnlinkNextStep ==
    ASSUME IInv, UnlinkNext
    PROVE  IInv'
<1>1. /\ At("unlink") /\ Goto("install")
      /\ thread_ready' = Unlink(thread_ready, next_thread)
      /\ UNCHANGED <<sys_flags, running_thread, thread_wait, ts_curr_count,
                     forbid_counter, desc, user, k_reenter, sti, next_thread>>
  BY DEF UnlinkNext
<1>2. "unlink" \in SwitchPC /\ "install" \in SwitchPC
  BY DEF SwitchPC
<1>3. /\ kstack # <<>> /\ kstack[1] = "unlink" /\ Len(kstack) = 1
      /\ kstack' \in Seq(KernelPC) /\ kstack' # <<>> /\ Len(kstack') = 1
      /\ kstack'[1] = "install"
      /\ NestingInv'
  BY <1>1, <1>2, SwitchGoto
<1>4. SchedType /\ DescType /\ ControlType
  BY TypeParts DEF IInv
<1>5. UserType' /\ Created' = Created /\ BootInv'
  BY <1>1, <1>3, KernelFrame
<1>6. next_thread \in ToSet(thread_ready)
  BY <1>3 DEF IInv, SwitchInv
<1>7. thread_ready \in Seq(Threads) /\ Distinct(thread_ready)
  BY <1>4 DEF SchedType, IInv, QueueDiscipline
<1>8. next_thread \in Threads
  BY <1>6, <1>7 DEF ToSet
<1>9. /\ thread_ready' \in Seq(Threads)
      /\ ToSet(thread_ready') = ToSet(thread_ready) \ {next_thread}
      /\ Distinct(thread_ready')
  BY <1>1, <1>6, <1>7, UnlinkElements, UnlinkToSet, UnlinkDistinctSorted
<1>10. TypeOK'
  <2>1. SchedType'
    BY <1>1, <1>4, <1>9 DEF SchedType
  <2>2. DescType'
    BY <1>1, <1>4, TypeFrame
  <2>3. ControlType'
    BY <1>1, <1>3, <1>4 DEF ControlType
  <2>4. QED
    BY <1>5, <2>1, <2>2, <2>3, TypePartsNext
<1>11. SwitchInv'
  BY <1>1, <1>3, <1>8 DEF IInv, SwitchInv, HandlerPC
<1>12. ForbidInv'
  BY <1>1, <1>2, <1>3, ForbidFrame, NoForbidInSwitch
<1>13. QueueDiscipline' /\ SignalFindsWaiter'
  <2>1. OffQueues = {} /\ OffQueues' = {next_thread}
    BY <1>1, <1>3 DEF OffQueues
  <2>2. QED
    BY <1>1, <1>5, <1>6, <1>9, <2>1 DEF IInv, QueueDiscipline, SignalFindsWaiter, desc
<1>14. RequestInv'
  <2>1. \A t \in Threads : "TB_SIGNAL" \notin thread_flags'[t]
    BY <1>1 DEF IInv, RequestInv, desc
  <2>2. sti => thread_ready' = <<>> /\ Driver \notin thread_wait'
    <3>1. SUFFICES ASSUME sti
                   PROVE  thread_ready' = <<>> /\ Driver \notin thread_wait'
      OBVIOUS
    <3>2. next_thread = Driver /\ ToSet(thread_ready') = {}
      BY <1>2, <1>3, <1>6, <1>9, <3>1 DEF IInv, RequestInv
    <3>3. thread_ready' = <<>>
      BY <1>9, <3>2 DEF ToSet
    <3>4. QED
      BY <1>1, <1>6, <3>2, <3>3 DEF IInv, QueueDiscipline
  <2>3. ~ sti => "NEED_SCHEDULE" \notin sys_flags
    BY <1>2, <1>3 DEF IInv, RequestInv
  <2>4. ToSet(<<>>) = {}
    BY DEF ToSet
  <2>5. QED
    BY <1>1, <1>3, <2>1, <2>2, <2>3, <2>4 DEF RequestInv
<1>15. QED
  BY <1>3, <1>5, <1>10, <1>11, <1>12, <1>13, <1>14 DEF IInv

\* The thread taken from the ready queue becomes the running one.
LEMMA InstallNextStep ==
    ASSUME IInv, InstallNext
    PROVE  IInv'
<1>1. /\ At("install") /\ Goto("exit")
      /\ running_thread' = next_thread
      /\ ts_curr_count' = STD_TS_QUANTUM
      /\ thread_flags' = [thread_flags EXCEPT ![next_thread] = @ \cup {"TS_RUN"}]
      /\ next_thread' = NULL
      /\ UNCHANGED <<sys_flags, thread_ready, thread_wait, forbid_counter, sig_wait,
                     sig_recvd, message_list, num_msg, user, k_reenter, sti>>
  BY DEF InstallNext
<1>2. "install" \in SwitchPC /\ "exit" \in SwitchPC
  BY DEF SwitchPC
<1>3. /\ kstack # <<>> /\ kstack[1] = "install" /\ Len(kstack) = 1
      /\ kstack' \in Seq(KernelPC) /\ kstack' # <<>> /\ Len(kstack') = 1
      /\ kstack'[1] = "exit"
      /\ NestingInv'
  BY <1>1, <1>2, SwitchGoto
<1>4. SchedType /\ DescType /\ ControlType
  BY TypeParts DEF IInv
<1>5. UserType' /\ Created' = Created /\ BootInv'
  BY <1>1, <1>3, KernelFrame
<1>6. next_thread \in Threads
  BY <1>3 DEF IInv, SwitchInv
<1>7. DescType' /\ \A u \in Threads : "TB_SIGNAL" \notin thread_flags'[u]
  <2>1. thread_flags \in [Threads -> SUBSET ThreadFlags]
    BY <1>4 DEF DescType
  <2>2. thread_flags[next_thread] \cup {"TS_RUN"} \in SUBSET ThreadFlags
    BY <1>6, <2>1 DEF ThreadFlags
  <2>3. "TB_SIGNAL" \notin thread_flags[next_thread] \cup {"TS_RUN"}
    BY <1>6 DEF IInv, RequestInv
  <2>4. QED
    BY <1>1, <1>6, <2>2, <2>3, FlagsFrame
<1>8. TypeOK'
  <2>1. SchedType'
    BY <1>1, <1>4, <1>6 DEF SchedType
  <2>2. ControlType'
    BY <1>1, <1>3, <1>4 DEF ControlType
  <2>3. QED
    BY <1>5, <1>7, <2>1, <2>2, TypePartsNext
<1>9. SwitchInv'
  BY <1>1, <1>3 DEF IInv, SwitchInv, HandlerPC
<1>10. ForbidInv'
  BY <1>1, <1>2, <1>3, ForbidFrame, NoForbidInSwitch
<1>11. QueueDiscipline' /\ SignalFindsWaiter'
  <2>1. OffQueues = {next_thread} /\ OffQueues' = {next_thread}
    BY <1>1, <1>3 DEF OffQueues
  <2>2. QED
    BY <1>1, <1>5, <2>1 DEF IInv, QueueDiscipline, SignalFindsWaiter
<1>12. RequestInv'
  BY <1>1, <1>2, <1>3, <1>7 DEF IInv, RequestInv
<1>13. QED
  BY <1>3, <1>5, <1>8, <1>9, <1>10, <1>11, <1>12 DEF IInv

\* The dispatcher leaves the switch for ring 3.
LEMMA LeaveSwitchStep ==
    ASSUME IInv, LeaveSwitch
    PROVE  IInv'
<1>1. /\ At("exit") /\ LeaveKernel /\ sti' = FALSE
      /\ thread_flags' = [thread_flags EXCEPT ![running_thread] =
                             IF "TB_LAUNCH" \in @ THEN @ \ {"TB_LAUNCH"}
                                                  ELSE @ \ {"TB_SIGNAL"}]
      /\ UNCHANGED <<sched, sig_wait, sig_recvd, message_list, num_msg, user, next_thread>>
  BY DEF LeaveSwitch
<1>2. "exit" \in SwitchPC
  BY DEF SwitchPC
<1>3. kstack # <<>> /\ kstack[1] = "exit" /\ Len(kstack) = 1
  BY <1>1, <1>2, SwitchAtTheBottom
<1>4. kstack' = <<>> /\ kstack' \in Seq(KernelPC) /\ k_reenter' = -1
  BY <1>1, <1>3, LeaveShape
<1>5. SchedType /\ DescType /\ ControlType
  BY TypeParts DEF IInv
<1>6. UserType' /\ Created' = Created /\ BootInv'
  BY <1>1, <1>3, KernelFrame
<1>7. UNCHANGED <<sys_flags, running_thread, thread_ready, thread_wait, forbid_counter>>
  BY <1>1 DEF sched
<1>8. DescType' /\ \A u \in Threads : "TB_SIGNAL" \notin thread_flags'[u]
  <2>1. running_thread \in Threads /\ thread_flags \in [Threads -> SUBSET ThreadFlags]
    BY <1>5 DEF SchedType, DescType
  <2>2. "TB_SIGNAL" \notin thread_flags[running_thread]
    BY <2>1 DEF IInv, RequestInv
  <2>3. PICK F \in SUBSET ThreadFlags :
           /\ "TB_SIGNAL" \notin F
           /\ thread_flags' = [thread_flags EXCEPT ![running_thread] = F]
    <3>1. thread_flags[running_thread] \in SUBSET ThreadFlags
      BY <2>1
    <3>2. CASE "TB_LAUNCH" \in thread_flags[running_thread]
      BY <1>1, <2>2, <3>1, <3>2
    <3>3. CASE "TB_LAUNCH" \notin thread_flags[running_thread]
      BY <1>1, <2>2, <3>1, <3>3
    <3>4. QED
      BY <3>2, <3>3
  <2>4. QED
    BY <1>1, <2>1, <2>3, FlagsFrame
<1>9. TypeOK'
  <2>1. SchedType'
    BY <1>1, <1>5, TypeFrame
  <2>2. k_reenter' \in Int
    BY <1>4
  <2>3. sti' \in BOOLEAN
    BY <1>1, Zenon
  <2>4. ControlType'
    BY <1>1, <1>4, <1>5, <2>2, <2>3 DEF ControlType
  <2>5. QED
    BY <1>6, <1>8, <2>1, <2>4, TypePartsNext
<1>10. "NEED_TASK_SWITCH" \notin sys_flags'
  BY <1>3, <1>7 DEF IInv, SwitchInv, HandlerPC
<1>11. NestingInv' /\ SwitchInv'
  <2>1. ~ sti'
    BY <1>1
  <2>2. QED
    BY <1>4, <1>10, <2>1 DEF NestingInv, NestingBounded, SwitchInv
<1>12. ForbidInv'
  BY <1>1, <1>2, <1>3, <1>7, ForbidFrame, NoForbidInSwitch
<1>13. QueueDiscipline' /\ SignalFindsWaiter'
  <2>1. OffQueues = {running_thread} /\ OffQueues' = {running_thread}
    BY <1>3, <1>4, <1>7 DEF OffQueues
  <2>2. QED
    BY <1>1, <1>6, <1>7, <2>1 DEF IInv, QueueDiscipline, SignalFindsWaiter
<1>14. RequestInv'
  <2>1. "NEED_SCHEDULE" \in sys_flags => thread_ready = <<>>
    BY <1>2, <1>3 DEF IInv, RequestInv
  <2>2. QED
    BY <1>4, <1>7, <1>8, <2>1 DEF RequestInv
<1>15. QED
  BY <1>6, <1>9, <1>11, <1>12, <1>13, <1>14 DEF IInv

-----------------------------------------------------------------------------
(***************************************************************************)
(* The theorems.                                                           *)
(***************************************************************************)

\* Every step of the kernel and of the threads preserves the invariant.
LEMMA Inductive == IInv /\ [Next]_vars => IInv'
<1> SUFFICES ASSUME IInv, [Next]_vars
             PROVE  IInv'
  OBVIOUS
<1>1. CASE \E t \in Threads : CreateThread(t)
  BY <1>1, CreateThreadStep
<1>2. CASE EnterUserMode
  BY <1>2, EnterUserModeStep
<1>3. CASE TimerTick
  BY <1>3, TimerTickStep
<1>4. CASE KeyInterrupt
  BY <1>4, KeyPressStep, KeyReleaseStep DEF KeyInterrupt
<1>5. CASE KernelStep
  BY <1>5, RescheduleStep, NoSwitchStep, BeginSwitchStep, IdleLoopStep, UnlinkNextStep,
     InstallNextStep, LeaveSwitchStep DEF KernelStep
<1>6. CASE \E t \in Threads : PrintStep(t) \/ CallPrint(t)
  BY <1>6, FormatStep, LoadStep, ForbidStoreStep, MonitorWriteStep, PermitStoreStep,
     CallPrintStep DEF PrintStep
<1>7. CASE \E t \in Threads, flags \in WaitFlags : Wait(t, flags)
  BY <1>7, WaitStep
<1>8. CASE DriverStep
  BY <1>8, MsgRetrieveStep, MsgWaitStep, MsgCycleStep DEF DriverStep
<1>9. CASE UNCHANGED vars
  <2>1. /\ UNCHANGED <<sched, desc, user, k_reenter, kstack, sti, next_thread>>
        /\ UNCHANGED <<sys_flags, running_thread, thread_ready, thread_wait,
                       ts_curr_count, forbid_counter>>
        /\ UNCHANGED <<thread_flags, sig_wait, sig_recvd, message_list, num_msg>>
        /\ UNCHANGED <<upc, ret, reg, return_message, buf>>
    BY <1>9 DEF vars, sched, desc, user
  <2>2. TypeOK'
    BY <2>1, TypeParts, TypeFrame, TypePartsNext DEF IInv
  <2>3. BootInv' /\ NestingInv' /\ SwitchInv'
    BY <2>1 DEF IInv, BootInv, NestingInv, NestingBounded, SwitchInv
  <2>4. ForbidInv'
    BY <2>1, ForbidFrame DEF IInv, ForbidInv
  <2>5. QueueDiscipline'
    BY <2>1 DEF IInv, QueueDiscipline, OffQueues, Created
  <2>6. SignalFindsWaiter' /\ RequestInv'
    BY <2>1 DEF IInv, SignalFindsWaiter, RequestInv
  <2>7. QED
    BY <2>2, <2>3, <2>4, <2>5, <2>6 DEF IInv
<1>10. QED
  BY <1>1, <1>2, <1>3, <1>4, <1>5, <1>6, <1>7, <1>8, <1>9 DEF Next

\* The inductive invariant holds in every state of every behaviour: for any
\* set of threads, any priorities, any quantum and any stock of messages.
THEOREM Invariance == Spec => []IInv
<1>1. Init => IInv
  BY InitIInv
<1>2. IInv /\ [Next]_vars => IInv'
  BY Inductive
<1>3. QED
  BY <1>1, <1>2, PTL DEF Spec

\* Every variable of the kernel keeps its type; the time slice counter in
\* particular never leaves -2 .. STD_TS_QUANTUM (timer_callback()).
THEOREM TypeCorrect == Spec => []TypeOK
<1>1. IInv => TypeOK
  BY DEF IInv
<1>2. QED
  BY <1>1, Invariance, PTL

\* Every created thread is in exactly one of the ready queue, the wait queue
\* and the processor, whatever interrupts schedule(), wait() and
\* switch_threads().
THEOREM EveryThreadInOnePlace == Spec => []QueueDiscipline
<1>1. IInv => QueueDiscipline
  BY DEF IInv
<1>2. QED
  BY <1>1, Invariance, PTL

\* The unlocked counter of forbid() and permit() is never off by one.
THEOREM ForbidCounterExact == Spec => []ForbidExact
<1>1. IInv => ForbidExact
  BY DEF IInv, ForbidInv
<1>2. QED
  BY <1>1, Invariance, PTL

\* _signal() unlinks the driver from the wait queue and from no other place.
THEOREM SignalUnlinksWaiter == Spec => []SignalFindsWaiter
<1>1. IInv => SignalFindsWaiter
  BY DEF IInv
<1>2. QED
  BY <1>1, Invariance, PTL

\* A scheduling request that outlives its interrupt finds nobody ready, so
\* that no thread that blocks is linked in both queues.
THEOREM LeftoverRequestHarmless == Spec => []LeftoverRequestIsIdle
<1>1. IInv => LeftoverRequestIsIdle
  BY DEF IInv, RequestInv, LeftoverRequestIsIdle, InRing3
<1>2. QED
  BY <1>1, Invariance, PTL

\* k_reenter never exceeds 1: the dispatcher's test for the outermost level
\* is exact.
THEOREM InterruptsNestOneDeep == Spec => []NestingBounded
<1>1. IInv => NestingBounded
  BY DEF IInv, NestingInv
<1>2. QED
  BY <1>1, Invariance, PTL

\* Between forbid() and permit() the processor and kprintf()'s buffer stay
\* with the thread that called forbid().
THEOREM ForbidExcludes == Spec => ForbidHolds
<1>1. ASSUME IInv, [Next]_vars
      PROVE  \A t \in Threads :
                InForbid(t) => running_thread' = running_thread /\ buf' = buf
  <2>1. SUFFICES ASSUME NEW t \in Threads, InForbid(t)
                 PROVE  running_thread' = running_thread /\ buf' = buf
    OBVIOUS
  <2>2. t = running_thread
    BY <1>1, <2>1 DEF IInv, ForbidInv, ForbidExact
  <2>3. ~ InstallNext
    <3>1. SUFFICES ASSUME InstallNext
                   PROVE  FALSE
      OBVIOUS
    <3>2. "install" \in SwitchPC /\ At("install")
      BY <3>1 DEF InstallNext, SwitchPC
    <3>3. kstack # <<>> /\ kstack[1] \in SwitchPC
      BY <1>1, <3>2, SwitchAtTheBottom
    <3>4. QED
      BY <1>1, <2>1, <3>3, NoForbidInSwitch
  <2>4. ASSUME NEW u \in Threads
        PROVE  ~ Format(u)
    BY <2>1, <2>2 DEF Format, User, InForbid, ForbidPC
  <2>5. CASE UNCHANGED vars
    BY <2>5 DEF vars, sched, user
  <2>6. CASE \E u \in Threads : CreateThread(u)
    BY <2>6 DEF CreateThread
  <2>7. CASE EnterUserMode \/ TimerTick \/ KeyInterrupt
    BY <2>7 DEF EnterUserMode, TimerTick, KeyInterrupt, KeyPress, KeyRelease, KeyPanic,
                sched, user
  <2>8. CASE KernelStep
    BY <2>3, <2>8 DEF KernelStep, Reschedule, NoSwitch, BeginSwitch, ProbeReady, Idle, Halt,
                      UnlinkNext, LeaveSwitch, sched, user
  <2>9. CASE \E u \in Threads : PrintStep(u) \/ CallPrint(u)
    BY <2>4, <2>9 DEF PrintStep, CallPrint, Load, ForbidStore, MonitorWrite, PermitStore,
                      sched
  <2>10. CASE \/ \E u \in Threads, flags \in WaitFlags : Wait(u, flags)
              \/ DriverStep
    BY <2>10 DEF Wait, WaitCall, DriverStep, MsgRetrieve, MsgWait, MsgCycle, sched
  <2>11. QED
    BY <1>1, <2>5, <2>6, <2>7, <2>8, <2>9, <2>10 DEF Next
<1>2. QED
  BY <1>1, Invariance, PTL DEF Spec, ForbidHolds
=============================================================================
