------------------------------- MODULE PhysMem -------------------------------
(***************************************************************************)
(* Physical pages and page tables of pmm.c.  Free pages are kept on a      *)
(* stack in virtual memory that grows by pages that are freed; while it is *)
(* empty, pages are taken from behind pm_last_page.  A page is its number. *)
(* All of this runs with interrupts off.                                   *)
(***************************************************************************)
EXTENDS Integers, FiniteSetsExt, SequencesExt

CONSTANTS
    MemoryMap,      \* the usable entries: base, whole pages, part of one more
    MemUpper,       \* multiboot's mem_upper: the size of the memory above 1 MB
    LowEnd,         \* 0x20000: the pages below are never freed
    KernelStart,    \* 0x100000: where the kernel is loaded
    KernelEnd,      \* kernel_seg_end_page
    Reserve,        \* 0x10000: the pages up to pm_last_page that are kept back
    MAX_RAM_PAGES,  \* where mm_init() stops to add pages
    PerPage,        \* entries of the free stack in a page
    HeapPages,      \* the virtual pages of the callers
    Table,          \* the page table each of them is in
    MaxPage,        \* the highest page number pm_alloc() may reach (a bound)
    ULONG,          \* the number of values of free_pages
    NULL

Pages == 0 .. MaxPage

\* The virtual pages from PM_STACK_ADDR on, all in one page table.
StackPages == {<<"stack", i>> : i \in 0 .. (MaxPage \div PerPage)}

Virtual == HeapPages \cup StackPages

TableOf(v) == IF v \in HeapPages THEN Table[v] ELSE "stack"

Tables == {TableOf(v) : v \in Virtual}

ASSUME PhysAssumption ==
    /\ MemoryMap \in Seq([base : Nat, pages : Nat, partial : BOOLEAN])
    /\ {MemUpper, LowEnd, KernelStart, KernelEnd, Reserve, MAX_RAM_PAGES, MaxPage}
          \subseteq Nat
    /\ {PerPage, ULONG} \subseteq Nat \ {0}
    /\ LowEnd > 0
    /\ MaxPage >= MemUpper + 3
    /\ HeapPages \cap StackPages = {}
    /\ NULL \notin Nat

VARIABLES
    pm_last_page,   \* the last page taken from behind
    free_stack,     \* the entries below mm_free_page_stack_ptr
    stack_max,      \* mm_free_page_stack_max, in entries
    free_pages,
    table,          \* the page of each page table, or NULL
    mapping,        \* the page each virtual page is mapped to, or NULL
    todo            \* vm_online = 0: the pages mm_init() has still to free

vars == <<pm_last_page, free_stack, stack_max, free_pages, table, mapping, todo>>

TypeOK ==
    /\ pm_last_page \in Pages
    /\ free_stack \in Seq(Pages)
    /\ stack_max \in Nat
    /\ stack_max % PerPage = 0 /\ Len(free_stack) <= stack_max
    /\ free_pages \in 0 .. (ULONG - 1)
    /\ table \in [Tables -> Pages \cup {NULL}]
    /\ mapping \in [Virtual -> Pages \cup {NULL}]
    /\ todo \in Seq(Nat)

-----------------------------------------------------------------------------
\* The pages the loops of mm_init() go through: every one that begins in an
\* entry of the memory map, up to the limit.
PagesOf(e) ==
    [i \in 1 .. (e.pages + IF e.partial THEN 1 ELSE 0) |-> e.base + i - 1]

BootPages ==
    LET all == FlattenSeq([i \in 1 .. Len(MemoryMap) |-> PagesOf(MemoryMap[i])])
    IN  SubSeq(all, 1, Min({Len(all), MAX_RAM_PAGES - 1}))

\* Entries of the memory map do not overlap, the kernel is in memory, and
\* 0x10000 is more than the two pages mm_init() takes for the stack.
ASSUME MemoryAssumption ==
    /\ BootPages \in Seq(Nat)
    /\ IsInjective(BootPages)
    /\ KernelEnd <= MemUpper + 2
    /\ Reserve >= 2

\* mm_init(): there is no stack yet, so that the page for it and the page for
\* the page table it is mapped in come from behind the last one.
Init ==
    /\ pm_last_page = MemUpper + 3
    /\ free_stack = <<>>
    /\ stack_max = 0
    /\ free_pages = 0
    /\ table = [t \in Tables |-> IF t = "stack" THEN MemUpper + 3 ELSE NULL]
    /\ mapping = [v \in Virtual |-> IF v = <<"stack", 0>> THEN MemUpper + 2 ELSE NULL]
    /\ todo = BootPages

-----------------------------------------------------------------------------
(***************************************************************************)
(* pm_alloc() and pm_free(), on the state of the allocator.                *)
(***************************************************************************)
State == [last |-> pm_last_page, stack |-> free_stack, max |-> stack_max,
          count |-> free_pages, map |-> mapping]

Becomes(s) ==
    /\ pm_last_page' = s.last
    /\ free_stack' = s.stack
    /\ stack_max' = s.max
    /\ free_pages' = s.count

\* The page pm_alloc() returns, and what it leaves behind.
Allocated(s) == IF s.stack = <<>> THEN s.last + 1 ELSE Last(s.stack)

\* Mutant: the entry is read and left on the stack.
AllocKeeps(s) ==
    [s EXCEPT !.last = IF s.stack = <<>> THEN @ + 1 ELSE @, !.count = (@ - 1) % ULONG]

Alloc(s) ==
    [s EXCEPT !.last  = IF s.stack = <<>> THEN @ + 1 ELSE @,
              !.stack = IF s.stack = <<>> THEN @ ELSE Front(@),
              !.count = (@ - 1) % ULONG]

\* Mutant: only memory below the kernel and behind it is tested for.
RejectedOutside(s, page) == page > s.last - Reserve \/ page < LowEnd

Rejected(s, page) ==
    \/ page > s.last - Reserve
    \/ page > KernelStart /\ page < KernelEnd
    \/ page < LowEnd

\* Mutant: a stack page is believed to hold one entry.
GrowByEntry(s, page) ==
    [s EXCEPT !.map[<<"stack", Len(s.stack) \div PerPage>>] = page, !.max = @ + 1]

\* The page becomes a page of the stack: nobody can allocate it again.
Grow(s, page) ==
    [s EXCEPT !.map[<<"stack", Len(s.stack) \div PerPage>>] = page, !.max = @ + PerPage]

\* Mutant: a page is counted whatever becomes of it.
FreeCountsAll(s, page) ==
    [(IF Rejected(s, page) THEN s
      ELSE IF Len(s.stack) >= s.max THEN Grow(s, page)
      ELSE [s EXCEPT !.stack = Append(@, page)])
        EXCEPT !.count = (@ + 1) % ULONG]

Free(s, page) ==
    IF Rejected(s, page) THEN s
    ELSE IF Len(s.stack) >= s.max THEN Grow(s, page)
    ELSE [s EXCEPT !.stack = Append(@, page), !.count = (@ + 1) % ULONG]

\* mm_init() frees the usable pages, one after the other.
BootFree ==
    /\ todo # <<>>
    /\ LET s == Free(State, Head(todo))
       IN  Becomes(s) /\ mapping' = s.map
    /\ todo' = Tail(todo)
    /\ UNCHANGED table

\* A turn of the loop in alloc_chunk(): pm_alloc(), then mm_map(), which
\* allocates the page table if it is not there.
Map(v) ==
    /\ todo = <<>>
    /\ mapping[v] = NULL
    /\ LET s == Alloc(State)
           f == IF table[TableOf(v)] = NULL THEN Alloc(s) ELSE s
       IN  /\ f.last <= MaxPage
           /\ Becomes(f)
           /\ table' = IF table[TableOf(v)] = NULL
                       THEN [table EXCEPT ![TableOf(v)] = Allocated(s)] ELSE table
    /\ mapping' = [mapping EXCEPT ![v] = Allocated(State)]
    /\ UNCHANGED todo

\* A turn of the loop in free_chunk(): get_physaddr(), pm_free(), mm_unmap().
Unmap(v) ==
    /\ todo = <<>>
    /\ mapping[v] # NULL
    /\ LET s == Free(State, mapping[v])
       IN  Becomes(s) /\ mapping' = [s.map EXCEPT ![v] = NULL]
    /\ UNCHANGED <<table, todo>>

Next == BootFree \/ \E v \in HeapPages : Map(v) \/ Unmap(v)

Spec == Init /\ [][Next]_vars

-----------------------------------------------------------------------------
(***************************************************************************)
(* A page is in one place: once on the free stack, a page table, or mapped *)
(* once.  pm_free() turns pages into stack space and mm_map() allocates    *)
(* page tables in the middle of the allocation of a page.                  *)
(***************************************************************************)
PagesOwnedOnce ==
    /\ IsInjective(free_stack)
    /\ \A v, w \in Virtual : v # w /\ mapping[v] = mapping[w] => mapping[v] = NULL
    /\ \A t, u \in Tables : t # u /\ table[t] = table[u] => table[t] = NULL
    /\ LET mapped == {mapping[v] : v \in Virtual} \ {NULL}
           tables == {table[t] : t \in Tables} \ {NULL}
       IN  /\ mapped \cap tables = {}
           /\ ToSet(free_stack) \cap (mapped \cup tables) = {}

(***************************************************************************)
(* pm_free() never maps another page under entries of the free stack.      *)
(***************************************************************************)
StackEntriesStay ==
    [][\A i \in 0 .. (MaxPage \div PerPage) :
          mapping'[<<"stack", i>>] # mapping[<<"stack", i>>] =>
              Len(free_stack) <= i * PerPage]_vars

(***************************************************************************)
(* free_pages counts the entries of the free stack less the pages ever     *)
(* taken from behind the last one, modulo the width of an unsigned long:   *)
(* pm_alloc() counts down for both, and a page that is rejected or becomes *)
(* stack space is not counted.                                             *)
(***************************************************************************)
FreeCountFollows ==
    free_pages = (Len(free_stack) - (pm_last_page - (MemUpper + 3))) % ULONG

(***************************************************************************)
(* The allocator implements the abstract one: pm_alloc() takes exactly the *)
(* page it returns out of the supply, the free stack and the memory behind *)
(* pm_last_page; mm_map() takes a second one when the page table is not    *)
(* there, and only then; pm_free() puts back the page it is given or none, *)
(* and of the kernel's pages only the first is ever put there.             *)
(***************************************************************************)
Supply ==
    INSTANCE PageSupply
      WITH Clients <- HeapPages,
           Ready   <- {"stack"},
           Usable  <- ToSet(BootPages),
           Kernel  <- (KernelStart + 1) .. (KernelEnd - 1),
           Behind  <- (MemUpper + 4) .. MaxPage,
           None    <- NULL,
           unfound <- ToSet(todo),
           spare   <- ToSet(free_stack) \cup ((pm_last_page + 1) .. MaxPage),
           held    <- [v \in HeapPages |-> mapping[v]],
           tables  <- {t \in Tables : table[t] # NULL}

LendsPages == Supply!Spec
=============================================================================
