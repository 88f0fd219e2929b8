---------------------------- MODULE PhysMemProofs ----------------------------
(***************************************************************************)
(* No page of the machine is ever in two places, however large the memory, *)
(* the kernel, the heap and the pages of the free stack are.               *)
(***************************************************************************)
EXTENDS PhysMem, FiniteSetTheorems, TLAPS

(***************************************************************************)
(* What holds of the places a page can be in, also in the middle of a call *)
(* that moves two: the last page taken from behind, the free stack, the    *)
(* mappings and the page tables.                                           *)
(***************************************************************************)
Handable(p) == p \in KernelStart .. (KernelEnd - 1) => p = KernelStart

Placed(last, stack, map, tab) ==
    /\ last \in Pages
    /\ last >= MemUpper + 3
    /\ stack \in Seq(Pages)
    /\ IsInjective(stack)
    /\ map \in [Virtual -> Pages \cup {NULL}]
    /\ tab \in [Tables -> Pages \cup {NULL}]
    /\ \A p \in ToSet(stack) : p <= last /\ Handable(p)
    /\ \A v \in Virtual :
          map[v] # NULL =>
              /\ map[v] <= last
              /\ Handable(map[v])
              /\ map[v] \notin ToSet(stack)
              /\ \A w \in Virtual : map[v] = map[w] => v = w
    /\ \A t \in Tables :
          tab[t] # NULL =>
              /\ tab[t] <= last
              /\ tab[t] \notin ToSet(stack)
              /\ \A u \in Tables : tab[t] = tab[u] => t = u
              /\ \A v \in Virtual : map[v] # tab[t]

\* A page that is in none of them, and not one of those behind the last.
Loose(p, last, stack, map, tab) ==
    /\ p \in Pages
    /\ p <= last
    /\ Handable(p)
    /\ p \notin ToSet(stack)
    /\ \A v \in Virtual : map[v] # p
    /\ \A t \in Tables : tab[t] # p

Counted(count, stack, last) ==
    /\ count \in 0 .. (ULONG - 1)
    /\ count = (Len(stack) - (last - (MemUpper + 3))) % ULONG

\* The pages mm_init() has still to free are in no place, but for the two it
\* took for the stack itself, which pm_free() rejects.
BootInv ==
    /\ todo \in Seq(Nat)
    /\ IsInjective(todo)
    /\ todo # <<>> => pm_last_page = MemUpper + 3
    /\ \A p \in ToSet(todo) :
          p <= MemUpper + 1 =>
              /\ p \notin ToSet(free_stack)
              /\ \A v \in Virtual : mapping[v] # p
              /\ \A t \in Tables : table[t] # p

\* The free stack has whole pages, of which the last may be full.
StackInv ==
    /\ stack_max \in Nat
    /\ stack_max % PerPage = 0
    /\ Len(free_stack) <= stack_max

PageInv ==
    /\ Placed(pm_last_page, free_stack, mapping, table)
    /\ Counted(free_pages, free_stack, pm_last_page)
    /\ StackInv
    /\ BootInv

-----------------------------------------------------------------------------
(***************************************************************************)
(* Arithmetic: division with a remainder, and what is counted modulo n.    *)
(***************************************************************************)
LEMMA Division ==
    ASSUME NEW a \in Int, NEW n \in Nat \ {0}
    PROVE  /\ a % n \in 0 .. (n - 1)
           /\ a \div n \in Int
           /\ a = n * (a \div n) + (a % n)
<1>1. a % n \in 0 .. (n - 1)
  BY SMTT(30)
<1>2. a \div n \in Int
  BY SMTT(30)
<1>3. a = n * (a \div n) + (a % n)
  BY SMTT(30)
<1>4. QED
  BY <1>1, <1>2, <1>3

LEMMA RemainderUnique ==
    ASSUME NEW a \in Int, NEW n \in Nat \ {0}, NEW q \in Int, NEW r \in 0 .. (n - 1),
           a = n * q + r
    PROVE  a % n = r
  BY SMTT(30)

LEMMA CountModulo ==
    ASSUME NEW a \in Int, NEW b \in Int, NEW n \in Nat \ {0}
    PROVE  ((a % n) + b) % n = (a + b) % n
<1> DEFINE p == a \div n
           r == a % n
           q == (r + b) \div n
           s == (r + b) % n
<1>1. p \in Int /\ r \in 0 .. (n - 1) /\ a = n * p + r
  BY Division
<1>2. r + b \in Int
  BY <1>1
<1>3. q \in Int /\ s \in 0 .. (n - 1) /\ r + b = n * q + s
  <2> HIDE DEF r
  <2>1. QED
    BY <1>2, Division
<1> HIDE DEF p, q, s
<1>4. n * (p + q) = n * p + n * q /\ n * p \in Int /\ n * q \in Int
  BY <1>1, <1>3
<1>5. a + b = n * (p + q) + s
  BY <1>1, <1>3, <1>4
<1>6. p + q \in Int /\ a + b \in Int
  BY <1>1, <1>3
<1>7. (a + b) % n = s
  BY <1>3, <1>5, <1>6, RemainderUnique
<1>8. QED
  BY <1>7 DEF s

\* One more and one less, modulo n.
LEMMA CountUpAndDown ==
    ASSUME NEW a \in Int, NEW n \in Nat \ {0}, NEW c \in Int, c = a % n
    PROVE  /\ (c + 1) % n = (a + 1) % n
           /\ (c - 1) % n = (a - 1) % n
           /\ (c + 1) % n \in 0 .. (n - 1)
           /\ (c - 1) % n \in 0 .. (n - 1)
<1> DEFINE up == 1
           down == -1
<1>1. up \in Int /\ down \in Int
  OBVIOUS
<1>2. /\ c + up = c + 1 /\ a + up = a + 1
      /\ c + down = c - 1 /\ a + down = a - 1
  OBVIOUS
<1> HIDE DEF up, down
<1>3. (c + up) % n = (a + up) % n /\ (c + down) % n = (a + down) % n
  BY <1>1, CountModulo
<1>4. c + up \in Int /\ c + down \in Int
  BY <1>1
<1>5. (c + up) % n \in 0 .. (n - 1) /\ (c + down) % n \in 0 .. (n - 1)
  BY <1>4, Division
<1>6. QED
  BY <1>2, <1>3, <1>5

\* The entry behind a stack of whole pages is the first of a page, and with
\* one page more they are still whole pages.
LEMMA WholePages ==
    ASSUME NEW n \in Nat \ {0}, NEW k \in Nat, k % n = 0
    PROVE  (k \div n) * n = k
<1>1. k = n * (k \div n) + 0 /\ k \div n \in Int
  BY Division
<1> DEFINE q == k \div n
<1> HIDE DEF q
<1>2. k = n * q /\ q \in Int
  BY <1>1 DEF q
<1>3. q * n = n * q
  BY <1>2
<1>4. QED
  BY <1>2, <1>3 DEF q

LEMMA PageMore ==
    ASSUME NEW n \in Nat \ {0}, NEW k \in Nat, k % n = 0
    PROVE  (k + n) % n = 0
<1>1. k = n * (k \div n) + 0 /\ k \div n \in Int
  BY Division
<1> DEFINE q == k \div n
<1> HIDE DEF q
<1>2. k = n * q /\ q \in Int
  BY <1>1 DEF q
<1>3. n * (q + 1) = n * q + n
  BY <1>2
<1>4. k + n = n * (q + 1) + 0 /\ k + n \in Int /\ q + 1 \in Int
  BY <1>2, <1>3
<1>5. 0 \in 0 .. (n - 1)
  OBVIOUS
<1>6. QED
  BY <1>4, <1>5, RemainderUnique, SMTT(60)

-----------------------------------------------------------------------------
(***************************************************************************)
(* The ends of a sequence, and the set of its elements.                    *)
(***************************************************************************)
LEMMA PushElements ==
    ASSUME NEW S, NEW s \in Seq(S), NEW p \in S
    PROVE  /\ Append(s, p) \in Seq(S)
           /\ Len(Append(s, p)) = Len(s) + 1
           /\ ToSet(Append(s, p)) = ToSet(s) \cup {p}
           /\ IsInjective(s) /\ p \notin ToSet(s) => IsInjective(Append(s, p))
<1> DEFINE q == Append(s, p)
<1>1. /\ q \in Seq(S)
      /\ Len(q) = Len(s) + 1
      /\ DOMAIN q = 1 .. Len(q)
      /\ DOMAIN s = 1 .. Len(s)
      /\ Len(s) \in Nat
      /\ \A i \in 1 .. Len(s) : q[i] = s[i]
      /\ q[Len(s) + 1] = p
  OBVIOUS
<1> HIDE DEF q
<1>2. ToSet(q) = ToSet(s) \cup {p}
  BY <1>1 DEF ToSet
<1>3. IsInjective(s) /\ p \notin ToSet(s) => IsInjective(q)
  BY <1>1 DEF ToSet, IsInjective
<1>4. QED
  BY <1>1, <1>2, <1>3 DEF q

LEMMA PopElements ==
    ASSUME NEW S, NEW s \in Seq(S), s # <<>>
    PROVE  /\ Front(s) \in Seq(S)
           /\ Len(Front(s)) = Len(s) - 1
           /\ Last(s) \in ToSet(s)
           /\ Last(s) \in S
           /\ ToSet(Front(s)) \subseteq ToSet(s)
           /\ ToSet(s) = ToSet(Front(s)) \cup {Last(s)}
           /\ IsInjective(s) => IsInjective(Front(s)) /\ Last(s) \notin ToSet(Front(s))
<1> DEFINE q == SubSeq(s, 1, Len(s) - 1)
<1>1. Len(s) \in Nat /\ Len(s) > 0 /\ DOMAIN s = 1 .. Len(s) /\ s[Len(s)] \in S
  OBVIOUS
<1>2. /\ q \in Seq(S)
      /\ Len(q) = Len(s) - 1
      /\ DOMAIN q = 1 .. (Len(s) - 1)
      /\ \A i \in 1 .. (Len(s) - 1) : q[i] = s[i]
  BY <1>1
<1> HIDE DEF q
<1>3. ToSet(q) \subseteq ToSet(s) /\ ToSet(s) = ToSet(q) \cup {s[Len(s)]}
  <2>1. \A i \in DOMAIN s : i \in DOMAIN q \/ i = Len(s)
    BY <1>1, <1>2
  <2>2. \A i \in DOMAIN q : i \in DOMAIN s /\ q[i] = s[i]
    BY <1>1, <1>2
  <2>3. QED
    BY <1>1, <2>1, <2>2 DEF ToSet
<1>4. IsInjective(s) => IsInjective(q) /\ s[Len(s)] \notin ToSet(q)
  BY <1>1, <1>2 DEF ToSet, IsInjective
<1>5. QED
  BY <1>1, <1>2, <1>3, <1>4 DEF Front, Last, ToSet, q

LEMMA TailElements ==
    ASSUME NEW S, NEW s \in Seq(S), s # <<>>
    PROVE  /\ Tail(s) \in Seq(S)
           /\ Head(s) \in ToSet(s)
           /\ Head(s) \in S
           /\ ToSet(Tail(s)) \subseteq ToSet(s)
           /\ ToSet(s) = ToSet(Tail(s)) \cup {Head(s)}
           /\ IsInjective(s) => IsInjective(Tail(s)) /\ Head(s) \notin ToSet(Tail(s))
<1> DEFINE q == Tail(s)
<1>1. /\ Len(s) \in Nat
      /\ Len(s) > 0
      /\ DOMAIN s = 1 .. Len(s)
      /\ Head(s) = s[1]
      /\ s[1] \in S
  OBVIOUS
<1>2. /\ q \in Seq(S)
      /\ DOMAIN q = 1 .. (Len(s) - 1)
      /\ \A i \in 1 .. (Len(s) - 1) : q[i] = s[i + 1]
  BY <1>1
<1> HIDE DEF q
<1>3. ToSet(q) \subseteq ToSet(s) /\ ToSet(s) = ToSet(q) \cup {s[1]}
  <2>1. \A i \in DOMAIN s : i = 1 \/ (i - 1 \in DOMAIN q /\ q[i - 1] = s[i])
    BY <1>1, <1>2
  <2>2. \A i \in DOMAIN q : i + 1 \in DOMAIN s /\ q[i] = s[i + 1]
    BY <1>1, <1>2
  <2>3. 1 \in DOMAIN s
    BY <1>1
  <2>4. ToSet(q) \subseteq ToSet(s)
    BY <2>2 DEF ToSet
  <2>5. ToSet(s) \subseteq ToSet(q) \cup {s[1]}
    BY <2>1 DEF ToSet
  <2>6. QED
    BY <2>3, <2>4, <2>5 DEF ToSet
<1>4. ASSUME IsInjective(s)
      PROVE  IsInjective(q) /\ s[1] \notin ToSet(q)
  <2>1. \A i \in DOMAIN q : i + 1 \in DOMAIN s /\ i + 1 # 1 /\ 1 \in DOMAIN s
    BY <1>1, <1>2
  <2>2. \A i, j \in DOMAIN q : q[i] = q[j] => i = j
    <3>1. SUFFICES ASSUME NEW i \in DOMAIN q, NEW j \in DOMAIN q, q[i] = q[j]
                   PROVE  i = j
      OBVIOUS
    <3>2. s[i + 1] = s[j + 1]
      BY <1>2, <3>1
    <3>3. i + 1 = j + 1
      BY <1>4, <2>1, <3>2 DEF IsInjective
    <3>4. QED
      BY <1>2, <3>3
  <2>3. \A i \in DOMAIN q : q[i] # s[1]
    BY <1>2, <1>4, <2>1 DEF IsInjective
  <2>4. QED
    BY <2>2, <2>3 DEF ToSet, IsInjective
<1>5. QED
  BY <1>1, <1>2, <1>3, <1>4 DEF ToSet, q
-----------------------------------------------------------------------------
(***************************************************************************)
(* Moving a page: out of a mapping, into one, into a page table.           *)
(***************************************************************************)
LEMMA PutMapping ==
    ASSUME NEW last, NEW stack, NEW map, NEW tab, NEW p, NEW v,
           Placed(last, stack, map, tab), Loose(p, last, stack, map, tab)
    PROVE  Placed(last, stack, [map EXCEPT ![v] = p], tab)
<1> DEFINE new == [map EXCEPT ![v] = p]
<1>1. /\ new \in [Virtual -> Pages \cup {NULL}]
      /\ \A w \in Virtual : new[w] = IF w = v THEN p ELSE map[w]
  BY DEF Placed, Loose
<1> HIDE DEF new
<1>2. \A w \in Virtual :
         new[w] # NULL =>
             /\ new[w] <= last
             /\ Handable(new[w])
             /\ new[w] \notin ToSet(stack)
             /\ \A u \in Virtual : new[w] = new[u] => w = u
  BY <1>1 DEF Placed, Loose
<1>3. \A t \in Tables : tab[t] # NULL => \A w \in Virtual : new[w] # tab[t]
  BY <1>1 DEF Placed, Loose
<1>4. Placed(last, stack, new, tab)
  BY <1>1, <1>2, <1>3 DEF Placed
<1>5. QED
  BY <1>4 DEF new

LEMMA PutTable ==
    ASSUME NEW last, NEW stack, NEW map, NEW tab, NEW p, NEW t \in Tables,
           Placed(last, stack, map, tab), Loose(p, last, stack, map, tab)
    PROVE  Placed(last, stack, map, [tab EXCEPT ![t] = p])
<1> DEFINE new == [tab EXCEPT ![t] = p]
<1>1. /\ new \in [Tables -> Pages \cup {NULL}]
      /\ \A u \in Tables : new[u] = IF u = t THEN p ELSE tab[u]
  BY DEF Placed, Loose
<1> HIDE DEF new
<1>2. \A u \in Tables :
         new[u] # NULL =>
             /\ new[u] <= last
             /\ new[u] \notin ToSet(stack)
             /\ \A w \in Tables : new[u] = new[w] => u = w
             /\ \A v \in Virtual : map[v] # new[u]
  BY <1>1 DEF Placed, Loose
<1>3. Placed(last, stack, map, new)
  BY <1>1, <1>2 DEF Placed
<1>4. QED
  BY <1>3 DEF new

LEMMA PutStack ==
    ASSUME NEW last, NEW stack, NEW map, NEW tab, NEW p,
           Placed(last, stack, map, tab), Loose(p, last, stack, map, tab)
    PROVE  Placed(last, Append(stack, p), map, tab)
<1>1. stack \in Seq(Pages) /\ p \in Pages /\ IsInjective(stack) /\ p \notin ToSet(stack)
  BY DEF Placed, Loose
<1> DEFINE new == Append(stack, p)
<1>2. new \in Seq(Pages) /\ ToSet(new) = ToSet(stack) \cup {p} /\ IsInjective(new)
  BY <1>1, PushElements
<1> HIDE DEF new
<1>3. \A q \in ToSet(new) : q <= last /\ Handable(q)
  BY <1>2 DEF Placed, Loose
<1>4. \A v \in Virtual : map[v] # NULL => map[v] \notin ToSet(new)
  BY <1>2 DEF Placed, Loose
<1>5. \A t \in Tables : tab[t] # NULL => tab[t] \notin ToSet(new)
  BY <1>2 DEF Placed, Loose
<1>6. Placed(last, new, map, tab)
  BY <1>2, <1>3, <1>4, <1>5 DEF Placed
<1>7. QED
  BY <1>6 DEF new

LEMMA TakeMapping ==
    ASSUME NEW last, NEW stack, NEW map, NEW tab, NEW v \in Virtual,
           Placed(last, stack, map, tab), map[v] # NULL
    PROVE  /\ Placed(last, stack, [map EXCEPT ![v] = NULL], tab)
           /\ Loose(map[v], last, stack, [map EXCEPT ![v] = NULL], tab)
<1> DEFINE new == [map EXCEPT ![v] = NULL]
<1>1. /\ new \in [Virtual -> Pages \cup {NULL}]
      /\ \A w \in Virtual : new[w] = IF w = v THEN NULL ELSE map[w]
      /\ map[v] \in Pages
  BY DEF Placed
<1> HIDE DEF new
<1>2. \A w \in Virtual :
         new[w] # NULL => new[w] = map[w] /\ \A u \in Virtual : new[w] = new[u] => w = u
  BY <1>1 DEF Placed
<1>3. Placed(last, stack, new, tab)
  BY <1>1, <1>2 DEF Placed
<1>4. \A w \in Virtual : new[w] # map[v]
  BY <1>1 DEF Placed
<1>5. \A t \in Tables : tab[t] # map[v]
  BY DEF Placed
<1>6. Loose(map[v], last, stack, new, tab)
  BY <1>1, <1>4, <1>5 DEF Placed, Loose
<1>7. QED
  BY <1>3, <1>6 DEF new
-----------------------------------------------------------------------------
(***************************************************************************)
(* pm_alloc(): the page returned is in no place any more, or never was.    *)
(***************************************************************************)
Allocator ==
    [last : Nat, stack : Seq(Pages), max : Nat, count : Nat,
     map : [Virtual -> Pages \cup {NULL}]]

LEMMA AllocFields ==
    ASSUME NEW s \in Allocator
    PROVE  /\ Alloc(s) \in Allocator
           /\ Alloc(s).last >= s.last
           /\ Alloc(s).max = s.max
           /\ Alloc(s).map = s.map
<1> DEFINE last == IF s.stack = <<>> THEN s.last + 1 ELSE s.last
           stack == IF s.stack = <<>> THEN s.stack ELSE Front(s.stack)
           old == s.count
           count == (s.count - 1) % ULONG
<1>1. s.last \in Nat /\ s.stack \in Seq(Pages) /\ old \in Nat /\ ULONG \in Nat \ {0}
  BY PhysAssumption DEF Allocator
<1>2. last \in Nat /\ last >= s.last
  BY <1>1
<1>3. stack \in Seq(Pages)
  BY <1>1, PopElements
<1>4. count \in Nat
  <2> HIDE DEF old
  <2>1. old - 1 \in Int
    BY <1>1
  <2>2. (old - 1) % ULONG \in 0 .. (ULONG - 1)
    BY <1>1, <2>1, Division
  <2>3. (old - 1) % ULONG \in Nat
    BY <1>1, <2>2
  <2>4. QED
    BY <2>3 DEF old
<1>5. Alloc(s) = [s EXCEPT !.last = last, !.stack = stack, !.count = count]
  BY DEF Alloc, Allocator
<1> HIDE DEF last, stack, count
<1>6. QED
  BY <1>2, <1>3, <1>4, <1>5 DEF Allocator

LEMMA AllocPage ==
    ASSUME NEW s \in Allocator, NEW map, NEW tab,
           Placed(s.last, s.stack, map, tab), Counted(s.count, s.stack, s.last),
           Alloc(s).last <= MaxPage
    PROVE  LET f == Alloc(s)
           IN  /\ Placed(f.last, f.stack, map, tab)
               /\ Loose(Allocated(s), f.last, f.stack, map, tab)
               /\ Counted(f.count, f.stack, f.last)
               /\ Len(f.stack) <= Len(s.stack)
<1> DEFINE last == s.last
           stack == s.stack
           count == s.count
           newlast == Alloc(s).last
           newstack == Alloc(s).stack
           newcount == Alloc(s).count
           page == Allocated(s)
<1>1. /\ newlast = IF stack = <<>> THEN last + 1 ELSE last
      /\ newstack = IF stack = <<>> THEN stack ELSE Front(stack)
      /\ newcount = (count - 1) % ULONG
      /\ page = IF stack = <<>> THEN last + 1 ELSE Last(stack)
  BY DEF Alloc, Allocated, Allocator
<1>2. /\ Placed(last, stack, map, tab)
      /\ Counted(count, stack, last)
      /\ newlast <= MaxPage
  OBVIOUS
<1> HIDE DEF last, stack, count, newlast, newstack, newcount, page
<1>3. /\ last \in Pages
      /\ last >= MemUpper + 3
      /\ stack \in Seq(Pages)
      /\ Len(stack) \in Nat
      /\ MemUpper \in Nat
      /\ KernelEnd \in Nat
      /\ KernelEnd <= MemUpper + 2
      /\ ULONG \in Nat \ {0}
      /\ NULL \notin Nat
      /\ MaxPage \in Nat
      /\ KernelStart \in Nat
  BY <1>2, PhysAssumption, MemoryAssumption DEF Placed
<1> DEFINE n == Len(stack) - (last - (MemUpper + 3))
<1>4. n \in Int
  BY <1>3 DEF Pages
<1>5. count = n % ULONG /\ count \in Int
  <2>1. count = n % ULONG /\ count \in 0 .. (ULONG - 1)
    BY <1>2, Zenon DEF Counted
  <2> HIDE DEF n
  <2>2. QED
    BY <1>3, <2>1
<1> HIDE DEF n
<1>6. newcount \in 0 .. (ULONG - 1) /\ newcount = (n - 1) % ULONG
  BY <1>1, <1>3, <1>4, <1>5, CountUpAndDown
<1> DEFINE Result == /\ Placed(newlast, newstack, map, tab)
                     /\ Loose(page, newlast, newstack, map, tab)
                     /\ Counted(newcount, newstack, newlast)
                     /\ Len(newstack) <= Len(stack)
<1>7. ASSUME stack = <<>>
      PROVE  Result
  <2>1. /\ newlast = last + 1
        /\ page = last + 1
        /\ newstack = stack
        /\ newlast \in Pages
        /\ Len(newstack) = 0
        /\ ToSet(newstack) = {}
    BY <1>1, <1>2, <1>3, <1>7 DEF Pages, ToSet
  <2>2. Handable(page)
    BY <1>3, <2>1 DEF Handable, Pages
  <2>3. Placed(newlast, newstack, map, tab)
    <3>1. \A v \in Virtual : map[v] # NULL => map[v] <= last /\ map[v] \in Pages
      BY <1>2 DEF Placed
    <3>2. \A t \in Tables : tab[t] # NULL => tab[t] <= last /\ tab[t] \in Pages
      BY <1>2 DEF Placed
    <3>3. \A v \in Virtual : map[v] # NULL => map[v] <= newlast
      BY <1>3, <2>1, <3>1 DEF Pages
    <3>4. \A t \in Tables : tab[t] # NULL => tab[t] <= newlast
      BY <1>3, <2>1, <3>2 DEF Pages
    <3>5. newlast >= MemUpper + 3
      BY <1>3, <2>1 DEF Pages
    <3>6. QED
      BY <1>2, <2>1, <3>3, <3>4, <3>5 DEF Placed
  <2>4. Loose(page, newlast, newstack, map, tab)
    <3>1. \A v \in Virtual : map[v] # page
      BY <1>2, <1>3, <2>1 DEF Placed, Pages
    <3>2. \A t \in Tables : tab[t] # page
      BY <1>2, <1>3, <2>1 DEF Placed, Pages
    <3>3. page \in Pages /\ page <= newlast
      BY <1>3, <2>1 DEF Pages
    <3>4. QED
      BY <2>1, <2>2, <3>1, <3>2, <3>3 DEF Loose
  <2>5. Counted(newcount, newstack, newlast)
    <3>1. Len(newstack) - (newlast - (MemUpper + 3)) = n - 1
      BY <1>3, <1>7, <2>1 DEF Pages, n
    <3>2. QED
      BY <1>6, <3>1 DEF Counted
  <2>6. Len(newstack) <= Len(stack)
    BY <1>3, <2>1 DEF Pages
  <2>7. QED
    BY <2>3, <2>4, <2>5, <2>6
<1>8. ASSUME stack # <<>>
      PROVE  Result
  <2>1. /\ newlast = last
        /\ page = Last(stack)
        /\ newstack = Front(stack)
    BY <1>1, <1>8
  <2>2. /\ newstack \in Seq(Pages)
        /\ Len(newstack) = Len(stack) - 1
        /\ page \in ToSet(stack)
        /\ page \in Pages
        /\ ToSet(newstack) \subseteq ToSet(stack)
        /\ IsInjective(newstack)
        /\ page \notin ToSet(newstack)
    <3>1. IsInjective(stack)
      BY <1>2 DEF Placed
    <3>2. QED
      BY <1>3, <1>8, <2>1, <3>1, PopElements
  <2>3. Placed(newlast, newstack, map, tab)
    BY <1>2, <2>1, <2>2 DEF Placed
  <2>4. Loose(page, newlast, newstack, map, tab)
    BY <1>2, <1>3, <2>1, <2>2 DEF Placed, Loose, Pages
  <2>5. Counted(newcount, newstack, newlast)
    <3>1. Len(newstack) - (newlast - (MemUpper + 3)) = n - 1
      BY <1>3, <2>1, <2>2 DEF Pages, n
    <3>2. QED
      BY <1>6, <3>1 DEF Counted
  <2>6. Len(newstack) <= Len(stack)
    BY <1>3, <2>1, <2>2 DEF Pages
  <2>7. QED
    BY <2>3, <2>4, <2>5, <2>6
<1>9. Result
  BY <1>7, <1>8
<1>10. QED
  BY <1>9 DEF last, stack, newlast, newstack, newcount, page

(***************************************************************************)
(* pm_free() of a page that is in no place: it goes nowhere, to the stack, *)
(* or under the stack, behind its last entry.                              *)
(***************************************************************************)
LEMMA FreePage ==
    ASSUME NEW s \in Allocator, NEW page, NEW map, NEW tab,
           Placed(s.last, s.stack, map, tab), Counted(s.count, s.stack, s.last),
           Loose(page, s.last, s.stack, map, tab),
           s.max % PerPage = 0, Len(s.stack) <= s.max
    PROVE  LET f == Free(s, page)
           IN  /\ f.last = s.last
               /\ \/ f.map = s.map /\ Placed(f.last, f.stack, map, tab)
                  \/ /\ f.map = [s.map EXCEPT ![<<"stack", Len(s.stack) \div PerPage>>] = page]
                     /\ f.stack = s.stack
                     /\ Len(s.stack) = s.max
               /\ Counted(f.count, f.stack, f.last)
               /\ f.max \in Nat /\ f.max % PerPage = 0 /\ Len(f.stack) <= f.max
               /\ Rejected(s, page) => f.stack = s.stack /\ f.map = s.map
               /\ ToSet(f.stack) \subseteq ToSet(s.stack) \cup {page}
<1> DEFINE v == <<"stack", Len(s.stack) \div PerPage>>
           f == Free(s, page)
<1>1. /\ s.last \in Pages
      /\ s.stack \in Seq(Pages)
      /\ s.max \in Nat
      /\ s.count \in Nat
      /\ Len(s.stack) \in Nat
      /\ PerPage \in Nat \ {0}
      /\ page \in Pages
  BY PhysAssumption DEF Allocator, Loose, Placed
<1>2. CASE Rejected(s, page)
  BY <1>1, <1>2 DEF Free
<1>3. CASE ~ Rejected(s, page) /\ Len(s.stack) >= s.max
  <2>1. /\ f.last = s.last
        /\ f.stack = s.stack
        /\ f.count = s.count
        /\ f.max = s.max + PerPage
        /\ f.map = [s.map EXCEPT ![v] = page]
    BY <1>1, <1>3 DEF Free, Grow, Allocator
  <2>2. Len(s.stack) = s.max
    BY <1>1, <1>3
  <2>3. s.max + PerPage \in Nat /\ (s.max + PerPage) % PerPage = 0
    <3> DEFINE max == s.max
    <3>1. max \in Nat /\ max % PerPage = 0
      BY <1>1
    <3> HIDE DEF max
    <3>2. PerPage \in Nat \ {0} /\ max + PerPage \in Nat
      BY <1>1, <3>1
    <3>3. (max + PerPage) % PerPage = 0
      BY <3>1, <3>2, PageMore
    <3>4. QED
      BY <3>2, <3>3 DEF max
  <2>4. Len(s.stack) <= s.max + PerPage
    BY <1>1
  <2> HIDE DEF f
  <2>5. QED
    BY <1>3, <2>1, <2>2, <2>3, <2>4 DEF f
<1>4. CASE ~ Rejected(s, page) /\ Len(s.stack) < s.max
  <2>1. /\ f.last = s.last
        /\ f.stack = Append(s.stack, page)
        /\ f.count = (s.count + 1) % ULONG
        /\ f.max = s.max
        /\ f.map = s.map
    BY <1>1, <1>4 DEF Free, Allocator
  <2>2. Placed(s.last, Append(s.stack, page), map, tab)
    BY PutStack
  <2>3. /\ Len(Append(s.stack, page)) = Len(s.stack) + 1
        /\ ToSet(Append(s.stack, page)) = ToSet(s.stack) \cup {page}
    BY <1>1, PushElements
  <2>4. Counted((s.count + 1) % ULONG, Append(s.stack, page), s.last)
    <3> DEFINE last == s.last
               length == Len(s.stack)
               count == s.count
               n == length - (last - (MemUpper + 3))
               q == Append(s.stack, page)
    <3>1. last \in Int /\ length \in Int /\ MemUpper \in Int /\ ULONG \in Nat \ {0}
      BY <1>1, PhysAssumption, SMTT(60) DEF Pages
    <3>2. count = n % ULONG /\ count \in 0 .. (ULONG - 1)
      BY Zenon DEF Counted
    <3>3. Len(q) = length + 1
      BY <2>3
    <3> HIDE DEF last, length, count, q
    <3>4. n \in Int /\ Len(q) - (last - (MemUpper + 3)) = n + 1
      BY <3>1, <3>3
    <3> HIDE DEF n
    <3>5. count \in Int
      BY <3>1, <3>2
    <3>6. (count + 1) % ULONG = (n + 1) % ULONG /\ (count + 1) % ULONG \in 0 .. (ULONG - 1)
      <4>1. n \in Int /\ count = n % ULONG /\ count \in Int /\ ULONG \in Nat \ {0}
        BY <3>1, <3>2, <3>4, <3>5
      <4>2. QED
        BY ONLY <4>1, CountUpAndDown
    <3>7. Counted((count + 1) % ULONG, q, last)
      BY <3>4, <3>6 DEF Counted
    <3>8. QED
      BY <3>7 DEF q, count, last
  <2> HIDE DEF f
  <2>5. QED
    BY <1>1, <1>4, <2>1, <2>2, <2>3, <2>4 DEF f
<1>5. QED
  BY <1>1, <1>2, <1>3, <1>4
-----------------------------------------------------------------------------
(***************************************************************************)
(* The invariant.                                                          *)
(***************************************************************************)
LEMMA StateFields ==
    /\ State.last = pm_last_page
    /\ State.stack = free_stack
    /\ State.max = stack_max
    /\ State.count = free_pages
    /\ State.map = mapping
    /\ PageInv => State \in Allocator
<1>1. /\ State.last = pm_last_page
      /\ State.stack = free_stack
      /\ State.max = stack_max
      /\ State.count = free_pages
      /\ State.map = mapping
  BY DEF State
<1>2. ASSUME PageInv
      PROVE  State \in Allocator
  <2>1. /\ pm_last_page \in Pages
        /\ free_stack \in Seq(Pages)
        /\ stack_max \in Nat
        /\ pm_last_page \in Nat
        /\ mapping \in [Virtual -> Pages \cup {NULL}]
    BY <1>2 DEF PageInv, Placed, StackInv, Pages
  <2>2. free_pages \in Nat
    BY <1>2, PhysAssumption DEF PageInv, Counted
  <2>3. QED
    BY <2>1, <2>2 DEF State, Allocator
<1>3. QED
  BY <1>1, <1>2

LEMMA InitPageInv == Init => PageInv
<1> SUFFICES ASSUME Init
             PROVE  PageInv
  OBVIOUS
<1>1. /\ MemUpper \in Nat /\ MaxPage \in Nat /\ MaxPage >= MemUpper + 3
      /\ KernelEnd \in Nat /\ KernelStart \in Nat /\ KernelEnd <= MemUpper + 2
      /\ ULONG \in Nat \ {0}
      /\ PerPage \in Nat \ {0}
      /\ NULL \notin Nat
  BY PhysAssumption, MemoryAssumption
<1>2. /\ MemUpper + 2 \in Pages
      /\ MemUpper + 3 \in Pages
      /\ MemUpper + 2 # MemUpper + 3
      /\ Handable(MemUpper + 2)
  BY <1>1 DEF Pages, Handable
<1>3. ToSet(free_stack) = {} /\ free_stack \in Seq(Pages) /\ Len(free_stack) = 0
  BY DEF Init, ToSet
<1>4. /\ mapping \in [Virtual -> Pages \cup {NULL}]
      /\ \A v \in Virtual :
            mapping[v] # NULL => v = <<"stack", 0>> /\ mapping[v] = MemUpper + 2
      /\ table \in [Tables -> Pages \cup {NULL}]
      /\ \A t \in Tables : table[t] # NULL => t = "stack" /\ table[t] = MemUpper + 3
  BY <1>2 DEF Init
<1>5. Placed(pm_last_page, free_stack, mapping, table)
  <2>1. pm_last_page = MemUpper + 3
    BY DEF Init
  <2>2. IsInjective(free_stack)
    BY DEF Init, IsInjective
  <2>3. QED
    BY <1>1, <1>2, <1>3, <1>4, <2>1, <2>2 DEF Placed
<1>6. Counted(free_pages, free_stack, pm_last_page)
  <2>1. 0 \in 0 .. (ULONG - 1) /\ 0 = ULONG * 0 + 0
    BY <1>1
  <2>2. 0 % ULONG = 0
    BY <1>1, <2>1, RemainderUnique
  <2>3. Len(free_stack) - (pm_last_page - (MemUpper + 3)) = 0 /\ free_pages = 0
    BY <1>1, <1>3 DEF Init
  <2>4. QED
    BY <2>1, <2>2, <2>3 DEF Counted
<1>7. StackInv
  <2>1. 0 \in 0 .. (PerPage - 1) /\ 0 = PerPage * 0 + 0
    BY <1>1
  <2>2. 0 % PerPage = 0
    BY <1>1, <2>1, RemainderUnique
  <2>3. QED
    BY <1>3, <2>2 DEF Init, StackInv
<1>8. BootInv
  <2>1. todo = BootPages /\ pm_last_page = MemUpper + 3
    BY DEF Init
  <2>2. \A p \in Nat : p <= MemUpper + 1 =>
           /\ p \notin ToSet(free_stack)
           /\ \A v \in Virtual : mapping[v] # p
           /\ \A t \in Tables : table[t] # p
    BY <1>1, <1>3, <1>4
  <2>3. ToSet(todo) \subseteq Nat
    BY <2>1, MemoryAssumption DEF ToSet
  <2>4. QED
    BY <2>1, <2>2, <2>3, MemoryAssumption DEF BootInv
<1>9. QED
  BY <1>5, <1>6, <1>7, <1>8 DEF PageInv

\* mm_init() frees a page that is in no place, or pm_free() rejects it.
LEMMA BootFreeInv ==
    ASSUME PageInv, BootFree
    PROVE  PageInv'
<1> DEFINE page == Head(todo)
           s == State
           f == Free(State, page)
           v == <<"stack", Len(free_stack) \div PerPage>>
<1>1. /\ s \in Allocator
      /\ s.last = pm_last_page
      /\ s.stack = free_stack
      /\ s.max = stack_max
      /\ s.count = free_pages
      /\ s.map = mapping
  BY StateFields
<1>2. /\ todo # <<>>
      /\ pm_last_page' = f.last
      /\ free_stack' = f.stack
      /\ stack_max' = f.max
      /\ free_pages' = f.count
      /\ mapping' = f.map
      /\ todo' = Tail(todo)
      /\ table' = table
  BY DEF BootFree, Becomes
<1>3. /\ Tail(todo) \in Seq(Nat)
      /\ page \in ToSet(todo)
      /\ page \in Nat
      /\ ToSet(Tail(todo)) \subseteq ToSet(todo)
      /\ IsInjective(Tail(todo))
      /\ page \notin ToSet(Tail(todo))
  BY <1>2, TailElements DEF PageInv, BootInv
<1>4. /\ pm_last_page = MemUpper + 3
      /\ MemUpper \in Nat
      /\ Reserve \in Nat
      /\ Reserve >= 2
      /\ KernelStart \in Nat
      /\ KernelEnd \in Nat
      /\ MaxPage \in Nat
      /\ MaxPage >= MemUpper + 3
  BY <1>2, PhysAssumption, MemoryAssumption DEF PageInv, BootInv
<1> HIDE DEF page, s, f, v
<1>5. CASE Rejected(s, page)
  <2>1. f = s
    BY <1>5 DEF Free, f, s
  <2>2. UNCHANGED <<pm_last_page, free_stack, stack_max, free_pages, mapping, table>>
    BY <1>1, <1>2, <2>1
  <2>3. BootInv'
    BY <1>2, <1>3, <2>2 DEF PageInv, BootInv
  <2>4. QED
    BY <2>2, <2>3 DEF PageInv, StackInv
<1>6. CASE ~ Rejected(s, page)
  <2>1. page <= MemUpper + 1 /\ Handable(page)
    BY <1>1, <1>3, <1>4, <1>6 DEF Rejected, Handable
  <2>2. Loose(page, s.last, s.stack, mapping, table)
    BY <1>1, <1>3, <1>4, <2>1 DEF Loose, Pages, PageInv, BootInv
  <2>3. /\ Placed(s.last, s.stack, mapping, table)
        /\ Counted(s.count, s.stack, s.last)
        /\ s.max % PerPage = 0
        /\ Len(s.stack) <= s.max
    BY <1>1 DEF PageInv, StackInv
  <2>4. /\ f.last = s.last
        /\ \/ f.map = s.map /\ Placed(f.last, f.stack, mapping, table)
           \/ f.map = [s.map EXCEPT ![v] = page] /\ f.stack = s.stack
        /\ Counted(f.count, f.stack, f.last)
        /\ f.max \in Nat /\ f.max % PerPage = 0 /\ Len(f.stack) <= f.max
        /\ ToSet(f.stack) \subseteq ToSet(s.stack) \cup {page}
    BY <1>1, <2>2, <2>3, FreePage DEF f, v, s
  <2>5. Placed(s.last, s.stack, [mapping EXCEPT ![v] = page], table)
    BY <2>2, <2>3, PutMapping
  <2>6. Placed(f.last, f.stack, f.map, table)
    BY <1>1, <2>4, <2>5
  <2>7. BootInv'
    <3>1. SUFFICES ASSUME NEW p \in ToSet(todo'), p <= MemUpper + 1
                   PROVE  /\ p \notin ToSet(free_stack')
                          /\ \A w \in Virtual : mapping'[w] # p
                          /\ \A t \in Tables : table'[t] # p
      BY <1>1, <1>2, <1>3, <1>4, <2>4 DEF BootInv
    <3>2. /\ p # page
          /\ p \notin ToSet(free_stack)
          /\ \A w \in Virtual : mapping[w] # p
          /\ \A t \in Tables : table[t] # p
      BY <1>2, <1>3, <3>1 DEF PageInv, BootInv
    <3>3. mapping' = mapping \/ mapping' = [mapping EXCEPT ![v] = page]
      BY <1>1, <1>2, <2>4
    <3>4. mapping \in [Virtual -> Pages \cup {NULL}]
      BY DEF PageInv, Placed
    <3>5. p \notin ToSet(free_stack')
      BY <1>1, <1>2, <2>4, <3>2
    <3>6. \A w \in Virtual : mapping'[w] \in {mapping[w], page}
      BY <3>3, <3>4
    <3>7. QED
      BY <1>2, <3>2, <3>5, <3>6
  <2>8. QED
    BY <1>2, <2>4, <2>6, <2>7 DEF PageInv, StackInv
<1>7. QED
  BY <1>5, <1>6

\* alloc_chunk() maps a page, and mm_map() may need another for the table.
LEMMA MapInv ==
    ASSUME PageInv, NEW v \in HeapPages, Map(v)
    PROVE  PageInv'
<1> DEFINE s == State
           a == Alloc(State)
           b == Alloc(Alloc(State))
           page == Allocated(State)
           next == Allocated(Alloc(State))
           t == TableOf(v)
           map == [mapping EXCEPT ![v] = page]
<1>1. /\ s \in Allocator
      /\ s.last = pm_last_page
      /\ s.stack = free_stack
      /\ s.max = stack_max
      /\ s.count = free_pages
      /\ s.map = mapping
  BY StateFields
<1>2. /\ todo = <<>>
      /\ mapping' = map
      /\ todo' = todo
      /\ table[t] # NULL => /\ a.last <= MaxPage
                            /\ pm_last_page' = a.last
                            /\ free_stack' = a.stack
                            /\ stack_max' = a.max
                            /\ free_pages' = a.count
                            /\ table' = table
      /\ table[t] = NULL => /\ b.last <= MaxPage
                            /\ pm_last_page' = b.last
                            /\ free_stack' = b.stack
                            /\ stack_max' = b.max
                            /\ free_pages' = b.count
                            /\ table' = [table EXCEPT ![t] = next]
  BY DEF Map, Becomes
<1>3. /\ a \in Allocator /\ b \in Allocator
      /\ a.last >= s.last /\ b.last >= a.last
      /\ a.max = s.max /\ b.max = s.max
  BY <1>1, AllocFields
<1>4. t \in Tables /\ v \in Virtual
  BY DEF Tables, Virtual
<1>5. a.last <= MaxPage
  <2>1. a.last \in Nat /\ b.last \in Nat /\ MaxPage \in Nat
    BY <1>3, PhysAssumption DEF Allocator
  <2> HIDE DEF a, b, t
  <2>2. QED
    BY <1>2, <1>3, <2>1
<1>6. /\ Placed(a.last, a.stack, mapping, table)
      /\ Loose(page, a.last, a.stack, mapping, table)
      /\ Counted(a.count, a.stack, a.last)
      /\ Len(a.stack) <= Len(s.stack)
  <2>1. Placed(s.last, s.stack, mapping, table) /\ Counted(s.count, s.stack, s.last)
    BY <1>1 DEF PageInv
  <2>2. QED
    BY <1>1, <1>5, <2>1, AllocPage
<1>7. Placed(a.last, a.stack, map, table)
  BY <1>6, PutMapping
<1>8. StackInv'
  <2>1. /\ s.max \in Nat /\ s.max % PerPage = 0 /\ Len(s.stack) <= s.max
        /\ Len(s.stack) \in Nat /\ Len(a.stack) \in Nat /\ Len(b.stack) \in Nat
    BY <1>1, <1>3 DEF PageInv, StackInv, Allocator
  <2>2. b.last <= MaxPage => Len(b.stack) <= Len(a.stack)
    BY <1>3, <1>6, <1>7, AllocPage
  <2> HIDE DEF a, b, t, s
  <2>3. CASE table[t] # NULL
    BY <1>2, <1>3, <1>6, <2>1, <2>3 DEF StackInv
  <2>4. CASE table[t] = NULL
    BY <1>2, <1>3, <1>6, <2>1, <2>2, <2>4 DEF StackInv
  <2>5. QED
    BY <2>3, <2>4
<1>9. BootInv'
  BY <1>2 DEF PageInv, BootInv, ToSet
<1>10. CASE table[t] # NULL
  <2> HIDE DEF a, b, t, map
  <2>1. QED
    BY <1>2, <1>6, <1>7, <1>8, <1>9, <1>10 DEF PageInv
<1>11. CASE table[t] = NULL
  <2>1. b.last <= MaxPage
    BY <1>2, <1>11
  <2>2. /\ Placed(b.last, b.stack, map, table)
        /\ Loose(next, b.last, b.stack, map, table)
        /\ Counted(b.count, b.stack, b.last)
    BY <1>3, <1>6, <1>7, <2>1, AllocPage
  <2>3. Placed(b.last, b.stack, map, [table EXCEPT ![t] = next])
    BY <1>4, <2>2, PutTable
  <2> HIDE DEF a, b, t, map, next
  <2>4. QED
    BY <1>2, <1>8, <1>9, <1>11, <2>2, <2>3 DEF PageInv
<1>12. QED
  BY <1>10, <1>11

\* free_chunk() gives a page back and unmaps it.
LEMMA UnmapInv ==
    ASSUME PageInv, NEW v \in HeapPages, Unmap(v)
    PROVE  PageInv'
<1> DEFINE page == mapping[v]
           s == State
           f == Free(State, page)
           w == <<"stack", Len(free_stack) \div PerPage>>
           map == [mapping EXCEPT ![v] = NULL]
<1>1. /\ s \in Allocator
      /\ s.last = pm_last_page
      /\ s.stack = free_stack
      /\ s.max = stack_max
      /\ s.count = free_pages
      /\ s.map = mapping
  BY StateFields
<1>2. /\ todo = <<>>
      /\ page # NULL
      /\ pm_last_page' = f.last
      /\ free_stack' = f.stack
      /\ stack_max' = f.max
      /\ free_pages' = f.count
      /\ mapping' = [f.map EXCEPT ![v] = NULL]
      /\ todo' = todo
      /\ table' = table
  BY DEF Unmap, Becomes
<1>3. v \in Virtual /\ mapping \in [Virtual -> Pages \cup {NULL}]
  BY DEF Virtual, PageInv, Placed
<1>4. /\ Placed(s.last, s.stack, map, table)
      /\ Loose(page, s.last, s.stack, map, table)
  <2>1. Placed(s.last, s.stack, mapping, table)
    BY <1>1 DEF PageInv
  <2>2. QED
    BY <1>2, <1>3, <2>1, TakeMapping
<1>5. /\ Counted(s.count, s.stack, s.last)
      /\ s.max % PerPage = 0
      /\ Len(s.stack) <= s.max
  BY <1>1 DEF PageInv, StackInv
<1> HIDE DEF page, s, f
<1>6. /\ f.last = s.last
      /\ \/ f.map = s.map /\ Placed(f.last, f.stack, map, table)
         \/ f.map = [s.map EXCEPT ![w] = page] /\ f.stack = s.stack
      /\ Counted(f.count, f.stack, f.last)
      /\ f.max \in Nat /\ f.max % PerPage = 0 /\ Len(f.stack) <= f.max
  BY <1>1, <1>4, <1>5, FreePage DEF f, s
<1>7. Placed(f.last, f.stack, [f.map EXCEPT ![v] = NULL], table)
  <2>1. CASE f.map = s.map /\ Placed(f.last, f.stack, map, table)
    BY <1>1, <2>1
  <2>2. CASE f.map = [s.map EXCEPT ![w] = page] /\ f.stack = s.stack
    <3> HIDE DEF w
    <3>1. CASE w = v
      <4>1. [f.map EXCEPT ![v] = NULL] = map
        BY <1>1, <1>3, <2>2, <3>1
      <4>2. QED
        BY <1>4, <1>6, <2>2, <4>1
    <3>2. CASE w # v
      <4>1. [f.map EXCEPT ![v] = NULL] = [map EXCEPT ![w] = page]
        BY <1>1, <1>3, <2>2, <3>2
      <4>2. Placed(s.last, s.stack, [map EXCEPT ![w] = page], table)
        <5> HIDE DEF map
        <5>1. QED
          BY <1>4, PutMapping
      <4>3. QED
        BY <1>6, <2>2, <4>1, <4>2
    <3>3. QED
      BY <3>1, <3>2
  <2>3. QED
    BY <1>6, <2>1, <2>2
<1>8. BootInv'
  BY <1>2 DEF PageInv, BootInv, ToSet
<1>9. QED
  BY <1>2, <1>6, <1>7, <1>8 DEF PageInv, StackInv

\* The invariant holds in every reachable state.
THEOREM PagesInvariance == Spec => []PageInv
<1>1. PageInv /\ [Next]_vars => PageInv'
  <2>1. ASSUME PageInv, UNCHANGED vars
        PROVE  PageInv'
    BY <2>1 DEF vars, PageInv, StackInv, BootInv
  <2>2. QED
    BY <2>1, BootFreeInv, MapInv, UnmapInv DEF Next
<1>2. QED
  BY <1>1, InitPageInv, PTL DEF Spec

-----------------------------------------------------------------------------
(***************************************************************************)
(* What follows from it.                                                   *)
(***************************************************************************)

\* Every variable keeps its type.
THEOREM TypesKept == Spec => []TypeOK
<1>1. PageInv => TypeOK
  BY DEF PageInv, Placed, Counted, StackInv, BootInv, TypeOK
<1>2. QED
  BY <1>1, PagesInvariance, PTL

\* A page is in one place: on the free stack once, in a page table, or mapped
\* once, although pm_free() and mm_map() move pages in the middle of a call.
THEOREM NoPageTwice == Spec => []PagesOwnedOnce
<1>1. ASSUME PageInv
      PROVE  PagesOwnedOnce
  <2>1. IsInjective(free_stack)
    BY <1>1 DEF PageInv, Placed
  <2>2. \A v, w \in Virtual : v # w /\ mapping[v] = mapping[w] => mapping[v] = NULL
    BY <1>1 DEF PageInv, Placed
  <2>3. \A t, u \in Tables : t # u /\ table[t] = table[u] => table[t] = NULL
    BY <1>1 DEF PageInv, Placed
  <2>4. \A v \in Virtual, t \in Tables : mapping[v] = table[t] => mapping[v] = NULL
    BY <1>1 DEF PageInv, Placed
  <2>5. \A v \in Virtual : mapping[v] # NULL => mapping[v] \notin ToSet(free_stack)
    BY <1>1 DEF PageInv, Placed
  <2>6. \A t \in Tables : table[t] # NULL => table[t] \notin ToSet(free_stack)
    BY <1>1 DEF PageInv, Placed
  <2>7. QED
    BY <2>1, <2>2, <2>3, <2>4, <2>5, <2>6 DEF PagesOwnedOnce
<1>2. QED
  BY <1>1, PagesInvariance, PTL

\* free_pages is the entries of the free stack less the pages taken from
\* behind the last one, modulo its width.
THEOREM FreePagesCounted == Spec => []FreeCountFollows
<1>1. PageInv => FreeCountFollows
  BY Zenon DEF PageInv, Counted, FreeCountFollows
<1>2. QED
  BY <1>1, PagesInvariance, PTL

(***************************************************************************)
(* Of the pages of the kernel only the first is ever handed out: the test  *)
(* that keeps them from the free stack is page > 0x100000, where the       *)
(* kernel, and the memory map entry mm_init() frees, begins.               *)
(***************************************************************************)
KernelKept ==
    LET kernel == KernelStart .. (KernelEnd - 1)
    IN  (ToSet(free_stack) \cup {mapping[v] : v \in Virtual}) \cap kernel \subseteq {KernelStart}

\* pm_alloc() hands out no page of the kernel but the first.
THEOREM KernelPagesKept == Spec => []KernelKept
<1>1. ASSUME PageInv
      PROVE  KernelKept
  <2>1. \A p \in ToSet(free_stack) : Handable(p)
    BY <1>1 DEF PageInv, Placed
  <2>2. \A v \in Virtual : mapping[v] # NULL => Handable(mapping[v])
    BY <1>1 DEF PageInv, Placed
  <2>3. NULL \notin KernelStart .. (KernelEnd - 1)
    BY PhysAssumption
  <2>4. QED
    BY <2>1, <2>2, <2>3 DEF KernelKept, Handable
<1>2. QED
  BY <1>1, PagesInvariance, PTL

\* pm_free() maps nothing, or a page behind a full stack of whole pages.
LEMMA FreeMaps ==
    ASSUME PageInv, NEW page
    PROVE  LET k == Len(free_stack) \div PerPage
           IN  \/ Free(State, page).map = mapping
               \/ /\ Free(State, page).map = [mapping EXCEPT ![<<"stack", k>>] = page]
                  /\ k * PerPage = Len(free_stack)
<1> DEFINE s == State
           k == Len(free_stack) \div PerPage
<1>1. /\ s \in Allocator
      /\ s.stack = free_stack
      /\ s.max = stack_max
      /\ s.map = mapping
  BY StateFields
<1>2. /\ stack_max \in Nat
      /\ stack_max % PerPage = 0
      /\ Len(free_stack) <= stack_max
      /\ Len(free_stack) \in Nat
      /\ PerPage \in Nat \ {0}
  BY <1>1, PhysAssumption DEF PageInv, StackInv, Allocator
<1> HIDE DEF s
<1>3. \/ Free(s, page).map = mapping
      \/ /\ Free(s, page).map = [mapping EXCEPT ![<<"stack", k>>] = page]
         /\ Len(free_stack) >= stack_max
  BY <1>1 DEF Free, Grow, Allocator
<1>4. Len(free_stack) >= stack_max => k * PerPage = Len(free_stack)
  <2>1. ASSUME Len(free_stack) >= stack_max
        PROVE  (stack_max \div PerPage) * PerPage = stack_max /\ Len(free_stack) = stack_max
    BY <1>2, <2>1, WholePages
  <2>2. QED
    BY <2>1
<1>5. QED
  BY <1>3, <1>4 DEF s

\* pm_free() never maps another page under entries of the free stack.
THEOREM EntriesStay == Spec => StackEntriesStay
<1> DEFINE Kept == \A i \in 0 .. (MaxPage \div PerPage) :
                      mapping'[<<"stack", i>>] # mapping[<<"stack", i>>] =>
                          Len(free_stack) <= i * PerPage
<1>1. ASSUME PageInv, [Next]_vars
      PROVE  Kept
  <2>1. SUFFICES ASSUME NEW i \in 0 .. (MaxPage \div PerPage),
                        mapping'[<<"stack", i>>] # mapping[<<"stack", i>>]
                 PROVE  Len(free_stack) <= i * PerPage
    OBVIOUS
  <2> DEFINE p == <<"stack", i>>
             k == Len(free_stack) \div PerPage
  <2>2. p \in Virtual /\ p \notin HeapPages
    BY PhysAssumption DEF Virtual, StackPages
  <2>3. mapping \in [Virtual -> Pages \cup {NULL}] /\ Len(free_stack) \in Nat
    BY <1>1 DEF PageInv, Placed
  <2> HIDE DEF p, k
  <2>4. ASSUME NEW page,
               mapping'[p] = Free(State, page).map[p]
        PROVE  Len(free_stack) <= i * PerPage
    <3>1. Free(State, page).map # mapping
      BY <2>1, <2>4 DEF p
    <3>2. /\ Free(State, page).map = [mapping EXCEPT ![<<"stack", k>>] = page]
          /\ k * PerPage = Len(free_stack)
      BY <1>1, <3>1, FreeMaps DEF k
    <3>3. p = <<"stack", k>>
      BY <2>1, <2>2, <2>3, <2>4, <3>2 DEF p
    <3>4. i = k
      BY <3>3 DEF p
    <3>5. QED
      BY <2>3, <3>2, <3>4
  <2>5. CASE BootFree
    BY <2>4, <2>5 DEF BootFree
  <2>6. ASSUME NEW v \in HeapPages, Map(v)
        PROVE  FALSE
    <3>1. mapping' = [mapping EXCEPT ![v] = Allocated(State)]
      BY <2>6 DEF Map
    <3>2. QED
      BY <2>1, <2>2, <2>3, <3>1 DEF p
  <2>7. ASSUME NEW v \in HeapPages, Unmap(v)
        PROVE  Len(free_stack) <= i * PerPage
    <3>1. mapping' = [Free(State, mapping[v]).map EXCEPT ![v] = NULL]
      BY <2>7 DEF Unmap
    <3>2. mapping'[p] = Free(State, mapping[v]).map[p]
      <4>1. \/ Free(State, mapping[v]).map = mapping
            \/ Free(State, mapping[v]).map = [mapping EXCEPT ![<<"stack", k>>] = mapping[v]]
        BY <1>1, FreeMaps DEF k
      <4>2. p \in DOMAIN Free(State, mapping[v]).map /\ p # v
        BY <2>2, <2>3, <4>1
      <4>3. QED
        BY <3>1, <4>2
    <3>3. QED
      BY <2>4, <3>2
  <2>8. CASE UNCHANGED vars
    BY <2>1, <2>8 DEF vars
  <2>9. QED
    BY <1>1, <2>5, <2>6, <2>7, <2>8 DEF Next
<1>2. QED
  BY <1>1, PagesInvariance, PTL DEF Spec, StackEntriesStay

-----------------------------------------------------------------------------
(***************************************************************************)
(* The allocator implements the abstract one: what a call takes out of the *)
(* supply, and what it puts back.                                          *)
(***************************************************************************)
Supplied(last, stack) == ToSet(stack) \cup ((last + 1) .. MaxPage)

\* pm_alloc() takes the page it returns out of the supply, and no other.
LEMMA AllocSupply ==
    ASSUME NEW s \in Allocator, NEW map, NEW tab,
           Placed(s.last, s.stack, map, tab), Alloc(s).last <= MaxPage
    PROVE  LET f == Alloc(s)
           IN  /\ Allocated(s) \in Supplied(s.last, s.stack)
               /\ Allocated(s) \in Nat
               /\ Supplied(f.last, f.stack) = Supplied(s.last, s.stack) \ {Allocated(s)}
<1> DEFINE last == s.last
           stack == s.stack
           newlast == Alloc(s).last
           newstack == Alloc(s).stack
           page == Allocated(s)
<1>1. /\ newlast = IF stack = <<>> THEN last + 1 ELSE last
      /\ newstack = IF stack = <<>> THEN stack ELSE Front(stack)
      /\ page = IF stack = <<>> THEN last + 1 ELSE Last(stack)
  BY DEF Alloc, Allocated, Allocator
<1>2. /\ last \in Nat
      /\ MaxPage \in Nat
      /\ stack \in Seq(Pages)
      /\ IsInjective(stack)
      /\ \A p \in ToSet(stack) : p <= last
      /\ newlast <= MaxPage
  BY PhysAssumption, SMTT(60) DEF Placed, Pages
<1> HIDE DEF last, stack, newlast, newstack, page
<1>3. CASE stack = <<>>
  <2>1. ToSet(stack) = {}
    BY <1>3 DEF ToSet
  <2>2. QED
    BY <1>1, <1>2, <1>3, <2>1 DEF Supplied, last, stack, newlast, newstack, page
<1>4. CASE stack # <<>>
  <2>1. /\ newlast = last
        /\ page \in ToSet(stack)
        /\ page \in Pages
        /\ ToSet(stack) = ToSet(newstack) \cup {page}
        /\ page \notin ToSet(newstack)
    BY <1>1, <1>2, <1>4, PopElements
  <2>2. page \in Nat /\ page \notin (last + 1) .. MaxPage
    BY <1>2, <2>1 DEF Pages
  <2>3. QED
    BY <2>1, <2>2 DEF Supplied, last, stack, newlast, newstack, page
<1>5. QED
  BY <1>3, <1>4

\* pm_free() puts back the page it is given, unless it belongs to the kernel,
\* or nothing.
LEMMA FreeSupply ==
    ASSUME NEW s \in Allocator, NEW page \in Nat, s.last \in Pages
    PROVE  LET f == Free(s, page)
           IN  \/ Supplied(f.last, f.stack) = Supplied(s.last, s.stack)
               \/ /\ page \notin (KernelStart + 1) .. (KernelEnd - 1)
                  /\ Supplied(f.last, f.stack) = Supplied(s.last, s.stack) \cup {page}
<1> DEFINE f == Free(s, page)
<1>1. /\ s.last \in Nat
      /\ s.last <= MaxPage
      /\ s.stack \in Seq(Pages)
      /\ {MaxPage, Reserve, KernelStart, KernelEnd} \subseteq Nat
  BY PhysAssumption DEF Allocator, Pages
<1>2. CASE Rejected(s, page)
  BY <1>2 DEF Free
<1>3. CASE ~ Rejected(s, page) /\ Len(s.stack) >= s.max
  <2>1. f.last = s.last /\ f.stack = s.stack
    BY <1>3 DEF Free, Grow, Allocator
  <2>2. QED
    BY <2>1
<1>4. CASE ~ Rejected(s, page) /\ ~ (Len(s.stack) >= s.max)
  <2>1. f.last = s.last /\ f.stack = Append(s.stack, page)
    BY <1>4 DEF Free, Allocator
  <2>2. page \in Pages /\ page \notin (KernelStart + 1) .. (KernelEnd - 1)
    BY <1>1, <1>4 DEF Rejected, Pages
  <2>3. ToSet(Append(s.stack, page)) = ToSet(s.stack) \cup {page}
    BY <1>1, <2>2, PushElements
  <2>4. QED
    BY <2>1, <2>2, <2>3 DEF Supplied
<1>5. QED
  BY <1>2, <1>3, <1>4

\* A quotient is not smaller than that of a smaller number.
LEMMA QuotientsOrdered ==
    ASSUME NEW n \in Nat \ {0}, NEW a \in Nat, NEW b \in Nat, a <= b
    PROVE  a \div n \in 0 .. (b \div n)
<1> DEFINE p == a \div n
           q == b \div n
<1>1. /\ p \in Int /\ a % n \in 0 .. (n - 1) /\ a = n * p + (a % n)
      /\ q \in Int /\ b % n \in 0 .. (n - 1) /\ b = n * q + (b % n)
  BY Division
<1> HIDE DEF p, q
<1>2. n * p <= n * q + (n - 1) /\ n * p > 0 - n
  BY <1>1
<1>3. ASSUME p < 0
      PROVE  FALSE
  BY <1>1, <1>2, <1>3
<1>4. ASSUME p > q
      PROVE  FALSE
  <2>1. p = q + 1 + (p - q - 1) /\ p - q - 1 \in Nat
    BY <1>1, <1>4
  <2>2. n * p = n * q + n + n * (p - q - 1) /\ n * (p - q - 1) >= 0
    BY <1>1, <2>1
  <2>3. QED
    BY <1>1, <1>2, <2>2
<1>5. QED
  BY <1>1, <1>3, <1>4 DEF p, q

LEMMA FirstStackPage == <<"stack", 0>> \in StackPages
<1> DEFINE q == MaxPage \div PerPage
           z == 0 \div PerPage
<1>1. MaxPage \in Nat /\ PerPage \in Nat \ {0} /\ 0 <= MaxPage
  BY PhysAssumption
<1>2. z \in 0 .. q /\ q \in Int
  BY <1>1, QuotientsOrdered, Division
<1> HIDE DEF z, q
<1>3. 0 \in 0 .. q
  BY <1>2
<1>4. QED
  BY <1>3 DEF StackPages, q

\* While a page is in no place, the free stack has fewer entries than there
\* are pages, so that the page it grows by is one of those set apart for it.
LEMMA StackHasRoom ==
    ASSUME NEW stack \in Seq(Pages), IsInjective(stack),
           NEW page \in Pages, page \notin ToSet(stack)
    PROVE  <<"stack", Len(stack) \div PerPage>> \in StackPages
<1> DEFINE n == Len(stack) + 1
           all == Append(stack, page)
<1>1. /\ all \in Seq(Pages)
      /\ Len(all) = n
      /\ IsInjective(all)
  BY PushElements
<1>2. /\ all \in [1 .. n -> Pages]
      /\ \A i, j \in 1 .. n : i # j => all[i] # all[j]
  <2> HIDE DEF all, n
  <2>1. DOMAIN all = 1 .. n /\ \A i \in 1 .. n : all[i] \in Pages
    BY <1>1
  <2>2. all \in [1 .. n -> Pages]
    BY <1>1, <2>1
  <2>3. QED
    BY <1>1, <2>1, <2>2 DEF IsInjective
<1>3. MaxPage \in Nat /\ PerPage \in Nat \ {0} /\ Len(stack) \in Nat
  BY PhysAssumption
<1>4. /\ IsFiniteSet(1 .. n) /\ Cardinality(1 .. n) = n
      /\ IsFiniteSet(Pages) /\ Cardinality(Pages) = MaxPage + 1
  BY <1>3, FS_Interval DEF Pages
<1> HIDE DEF all
<1>5. Len(stack) <= MaxPage
  BY <1>2, <1>3, <1>4, FS_PigeonHole
<1>6. Len(stack) \div PerPage \in 0 .. (MaxPage \div PerPage)
  BY <1>3, <1>5, QuotientsOrdered
<1>7. QED
  BY <1>6 DEF StackPages

\* The page pm_free() may put under the stack is not a client's.
LEMMA FreeKeepsClients ==
    ASSUME PageInv, NEW page \in Nat, NEW v \in HeapPages,
           Rejected(State, page) \/ page \notin ToSet(free_stack)
    PROVE  Free(State, page).map[v] = mapping[v]
<1> DEFINE w == <<"stack", Len(free_stack) \div PerPage>>
<1>1. /\ State.last = pm_last_page
      /\ State.stack = free_stack
      /\ State.max = stack_max
      /\ State.map = mapping
      /\ pm_last_page \in Nat
      /\ pm_last_page <= MaxPage
      /\ {Reserve, MaxPage} \subseteq Nat
      /\ free_stack \in Seq(Pages)
      /\ IsInjective(free_stack)
      /\ mapping \in [Virtual -> Pages \cup {NULL}]
  BY StateFields, PhysAssumption DEF PageInv, Placed, Pages
<1>2. CASE Rejected(State, page)
  BY <1>1, <1>2 DEF Free
<1>3. CASE ~ Rejected(State, page)
  <2>1. page \in Pages
    BY <1>1, <1>3 DEF Rejected, Pages
  <2>2. w \in StackPages
    BY <1>1, <1>3, <2>1, StackHasRoom
  <2>3. w # v
    BY <2>2, PhysAssumption
  <2> DEFINE map == Free(State, page).map
  <2>4. map = mapping \/ map = [mapping EXCEPT ![w] = page]
    BY FreeMaps
  <2>5. v \in Virtual
    BY DEF Virtual
  <2> HIDE DEF w, map
  <2>6. map[v] = mapping[v]
    BY <1>1, <2>3, <2>4, <2>5
  <2>7. QED
    BY <2>6 DEF map
<1>4. QED
  BY <1>2, <1>3

\* The places an abstract step is about, before and after.
Spare == Supplied(pm_last_page, free_stack)

Held == [v \in HeapPages |-> mapping[v]]

Furnished == {t \in Tables : table[t] # NULL}

Unfound == ToSet(todo)

LEMMA InitSupplies == Init => Supply!Init
<1> SUFFICES ASSUME Init
             PROVE  Supply!Init
  OBVIOUS
<1>1. ToSet(free_stack) = {} /\ pm_last_page + 1 = MemUpper + 4
  BY PhysAssumption, SMTT(60) DEF Init, ToSet
<1>2. \A v \in HeapPages : mapping[v] = NULL
  <2>1. \A v \in HeapPages : v \in Virtual /\ v # <<"stack", 0>>
    BY FirstStackPage, PhysAssumption DEF Virtual
  <2>2. QED
    BY <2>1 DEF Init
<1>3. {t \in Tables : table[t] # NULL} = {"stack"}
  <2>1. "stack" \in Tables
    <3>1. TableOf(<<"stack", 0>>) = "stack"
      BY FirstStackPage, PhysAssumption DEF TableOf
    <3>2. QED
      BY FirstStackPage, <3>1, SMTT(60) DEF Tables, Virtual
  <2>2. MemUpper + 3 # NULL
    BY PhysAssumption
  <2>3. QED
    BY <2>1, <2>2 DEF Init
<1>4. QED
  BY <1>1, <1>2, <1>3 DEF Init, Supply!Init

\* mm_init() looks at the next of its pages.
LEMMA BootFreeSupplies ==
    ASSUME PageInv, BootFree
    PROVE  \E p \in Unfound : Supply!Find(p)
<1> DEFINE page == Head(todo)
           f == Free(State, page)
<1>1. /\ todo # <<>>
      /\ pm_last_page' = f.last
      /\ free_stack' = f.stack
      /\ mapping' = f.map
      /\ todo' = Tail(todo)
      /\ table' = table
  BY DEF BootFree, Becomes
<1>2. /\ State \in Allocator
      /\ State.last = pm_last_page
      /\ State.stack = free_stack
      /\ pm_last_page \in Pages
  BY StateFields DEF PageInv, Placed
<1>3. /\ page \in Unfound
      /\ page \in Nat
      /\ Unfound' = Unfound \ {page}
  BY <1>1, TailElements DEF PageInv, BootInv, Unfound
<1>4. Rejected(State, page) \/ page \notin ToSet(free_stack)
  <2>1. /\ pm_last_page = MemUpper + 3
        /\ page <= MemUpper + 1 => page \notin ToSet(free_stack)
    BY <1>1, <1>3 DEF PageInv, BootInv, Unfound
  <2>2. MemUpper \in Nat /\ Reserve \in Nat /\ Reserve >= 2
    BY PhysAssumption, MemoryAssumption
  <2> HIDE DEF page
  <2>3. page > MemUpper + 1 => page > State.last - Reserve
    BY <1>2, <1>3, <2>1, <2>2
  <2>4. page <= MemUpper + 1 \/ page > MemUpper + 1
    BY <1>3, <2>2
  <2>5. QED
    BY <2>1, <2>3, <2>4 DEF Rejected
<1> HIDE DEF page, f
<1>5. Held' = Held
  BY <1>1, <1>3, <1>4, FreeKeepsClients DEF Held, f
<1>6. \/ Spare' = Spare
      \/ page \notin (KernelStart + 1) .. (KernelEnd - 1) /\ Spare' = Spare \cup {page}
  BY <1>1, <1>2, <1>3, FreeSupply DEF Spare, Supplied, f
<1>7. Furnished' = Furnished
  BY <1>1 DEF Furnished
<1>8. Supply!Find(page)
  BY <1>3, <1>5, <1>6, <1>7
     DEF Supply!Find, Spare, Supplied, Held, Furnished, Unfound
<1>9. QED
  BY <1>3, <1>8

\* alloc_chunk() and mm_map() lend a page and furnish its page table.
LEMMA MapSupplies ==
    ASSUME PageInv, NEW v \in HeapPages, Map(v)
    PROVE  Supply!Lend(v)
<1> DEFINE s == State
           a == Alloc(State)
           b == Alloc(Alloc(State))
           page == Allocated(State)
           next == Allocated(Alloc(State))
           t == Table[v]
<1>1. /\ s \in Allocator
      /\ s.last = pm_last_page
      /\ s.stack = free_stack
      /\ s.count = free_pages
      /\ a \in Allocator
      /\ b \in Allocator
      /\ b.last >= a.last
  BY StateFields, AllocFields
<1>2. TableOf(v) = t /\ t \in Tables /\ v \in Virtual
  BY DEF TableOf, Tables, Virtual
<1>3. /\ todo = <<>>
      /\ mapping[v] = NULL
      /\ mapping' = [mapping EXCEPT ![v] = page]
      /\ todo' = todo
      /\ table[t] # NULL => /\ a.last <= MaxPage
                            /\ pm_last_page' = a.last
                            /\ free_stack' = a.stack
                            /\ table' = table
      /\ table[t] = NULL => /\ b.last <= MaxPage
                            /\ pm_last_page' = b.last
                            /\ free_stack' = b.stack
                            /\ table' = [table EXCEPT ![t] = next]
  BY <1>2 DEF Map, Becomes
<1>4. a.last <= MaxPage
  <2>1. a.last \in Nat /\ b.last \in Nat /\ MaxPage \in Nat
    BY <1>1, PhysAssumption DEF Allocator
  <2> HIDE DEF a, b, t
  <2>2. QED
    BY <1>1, <1>3, <2>1
<1>5. /\ Placed(s.last, s.stack, mapping, table)
      /\ Counted(s.count, s.stack, s.last)
      /\ mapping \in [Virtual -> Pages \cup {NULL}]
      /\ table \in [Tables -> Pages \cup {NULL}]
  BY <1>1 DEF PageInv, Placed
<1>6. /\ page \in Spare
      /\ Supplied(a.last, a.stack) = Spare \ {page}
  BY <1>1, <1>4, <1>5, AllocSupply DEF Spare
<1>7. Placed(a.last, a.stack, mapping, table)
  BY <1>1, <1>4, <1>5, AllocPage
<1>8. b.last <= MaxPage =>
          /\ next \in Spare \ {page}
          /\ next \in Nat
          /\ Supplied(b.last, b.stack) = (Spare \ {page}) \ {next}
  BY <1>1, <1>6, <1>7, AllocSupply
<1> HIDE DEF s, a, b, page, next, t
<1>9. Unfound = {} /\ Unfound' = Unfound /\ Held[v] = NULL
  BY <1>3 DEF Unfound, ToSet, Held
<1>10. Held' = [Held EXCEPT ![v] = page]
  BY <1>2, <1>3, <1>5 DEF Held, Virtual
<1>11. \/ t \in Furnished /\ Spare' = Spare \ {page} /\ Furnished' = Furnished
       \/ /\ t \notin Furnished
          /\ \E q \in Spare \ {page} : Spare' = (Spare \ {page}) \ {q}
          /\ Furnished' = Furnished \cup {t}
  <2>1. CASE table[t] # NULL
    <3>1. Spare' = Spare \ {page}
      BY <1>3, <1>6, <2>1 DEF Spare, Supplied
    <3>2. Furnished' = Furnished /\ t \in Furnished
      BY <1>2, <1>3, <2>1 DEF Furnished
    <3>3. QED
      BY <3>1, <3>2
  <2>2. CASE table[t] = NULL
    <3>1. next \in Spare \ {page} /\ Spare' = (Spare \ {page}) \ {next}
      BY <1>3, <1>8, <2>2 DEF Spare, Supplied
    <3>2. next # NULL
      BY <1>3, <1>8, <2>2, PhysAssumption
    <3>3. Furnished' = Furnished \cup {t} /\ t \notin Furnished
      BY <1>2, <1>3, <1>5, <2>2, <3>2 DEF Furnished
    <3>4. QED
      BY <3>1, <3>3
  <2>3. QED
    BY <2>1, <2>2
<1>12. QED
  BY <1>6, <1>9, <1>10, <1>11
     DEF Supply!Lend, Supply!Furnish, Spare, Supplied, Held, Furnished, Unfound, t

\* free_chunk() takes a page back.
LEMMA UnmapSupplies ==
    ASSUME PageInv, NEW v \in HeapPages, Unmap(v)
    PROVE  Supply!TakeBack(v)
<1> DEFINE page == mapping[v]
           f == Free(State, page)
<1>1. /\ todo = <<>>
      /\ page # NULL
      /\ pm_last_page' = f.last
      /\ free_stack' = f.stack
      /\ mapping' = [f.map EXCEPT ![v] = NULL]
      /\ todo' = todo
      /\ table' = table
  BY DEF Unmap, Becomes
<1>2. /\ State \in Allocator
      /\ State.last = pm_last_page
      /\ State.stack = free_stack
      /\ pm_last_page \in Pages
  BY StateFields DEF PageInv, Placed
<1>3. /\ v \in Virtual
      /\ mapping \in [Virtual -> Pages \cup {NULL}]
      /\ page \in Nat
      /\ page \notin ToSet(free_stack)
  BY <1>1 DEF PageInv, Placed, Virtual, Pages
<1>4. \A w \in HeapPages : f.map[w] = mapping[w]
  BY <1>3, FreeKeepsClients
<1>5. \/ f.map = mapping
      \/ f.map = [mapping EXCEPT ![<<"stack", Len(free_stack) \div PerPage>>] = page]
  BY FreeMaps
<1>6. Spare' \in {Spare, Spare \cup {page}}
  BY <1>1, <1>2, <1>3, FreeSupply DEF Spare, Supplied
<1> HIDE DEF f
<1>7. f.map \in [Virtual -> Pages \cup {NULL, page}]
  BY <1>3, <1>5
<1>8. Held' = [Held EXCEPT ![v] = NULL]
  BY <1>1, <1>4, <1>7 DEF Held, Virtual
<1>9. /\ Unfound = {}
      /\ Unfound' = Unfound
      /\ Furnished' = Furnished
      /\ Held[v] = page
  BY <1>1 DEF Unfound, ToSet, Furnished, Held
<1>10. QED
  BY <1>1, <1>6, <1>8, <1>9
     DEF Supply!TakeBack, Spare, Supplied, Held, Furnished, Unfound

(***************************************************************************)
(* The allocator implements the abstract one, for any memory map: a page   *)
(* is lent to one client at a time, whatever of the memory the free stack  *)
(* and the page tables take for themselves in the middle of a call.        *)
(***************************************************************************)
THEOREM SuppliesPages == Spec => LendsPages
<1> DEFINE mapped == <<Unfound, Spare, Held, Furnished>>
<1>1. ASSUME PageInv, [Next]_vars
      PROVE  [Supply!Next]_mapped
  <2>1. CASE BootFree
    BY <1>1, <2>1, BootFreeSupplies DEF Supply!Next, Unfound
  <2>2. ASSUME NEW v \in HeapPages, Map(v) \/ Unmap(v)
        PROVE  Supply!Next
    BY <1>1, <2>2, MapSupplies, UnmapSupplies DEF Supply!Next
  <2>3. CASE UNCHANGED vars
    BY <2>3 DEF vars, Unfound, Spare, Supplied, Held, Furnished
  <2>4. QED
    BY <1>1, <2>1, <2>2, <2>3 DEF Next
<1>2. [Supply!Next]_mapped
      <=> [Supply!Next]_<<ToSet(todo), ToSet(free_stack) \cup ((pm_last_page + 1) .. MaxPage),
                          [v \in HeapPages |-> mapping[v]], {t \in Tables : table[t] # NULL}>>
  BY DEF Unfound, Spare, Supplied, Held, Furnished
<1>3. QED
  BY <1>1, <1>2, InitSupplies, PagesInvariance, PTL DEF Spec, LendsPages, Supply!Spec
=============================================================================
