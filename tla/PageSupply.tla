----------------------------- MODULE PageSupply -----------------------------
(***************************************************************************)
(* What the page allocator promises: a page is lent to one client at a     *)
(* time and is out of supply while it is, a page table is there before a   *)
(* client's page is in it and is never taken back, and the supply is what  *)
(* was found in memory, without the kernel, and what lies behind it.       *)
(***************************************************************************)


CONSTANTS
    Clients,    \* who borrows pages
    Table,      \* the page table each client's page is in
    Ready,      \* the page tables that are there from the start
    Usable,     \* the pages the memory map names
    Kernel,     \* the pages that are never lent
    Behind,     \* the pages behind the memory
    None        \* no page

VARIABLES
    unfound,    \* the usable pages still to be looked at
    spare,      \* the pages in supply
    held,       \* the page each client has, or None
    tables      \* the page tables that are there

Init ==
    /\ unfound = Usable
    /\ spare = Behind
    /\ held = [c \in Clients |-> None]
    /\ tables = Ready

Find(p) ==
    /\ unfound' = unfound \ {p}
    /\ \/ spare' = spare
       \/ p \notin Kernel /\ spare' = spare \cup {p}
    /\ UNCHANGED <<held, tables>>

\* The page table, if it is not there, is made of another page.
Furnish(c, rest) ==
    \/ Table[c] \in tables /\ spare' = rest /\ tables' = tables
    \/ /\ Table[c] \notin tables
       /\ \E q \in rest : spare' = rest \ {q}
       /\ tables' = tables \cup {Table[c]}

Lend(c) ==
    /\ unfound = {}
    /\ held[c] = None
    /\ \E p \in spare :
          /\ held' = [held EXCEPT ![c] = p]
          /\ Furnish(c, spare \ {p})
    /\ UNCHANGED unfound

\* The supply may keep the page for itself.
TakeBack(c) ==
    /\ unfound = {}
    /\ held[c] # None
    /\ spare' \in {spare, spare \cup {held[c]}}
    /\ held' = [held EXCEPT ![c] = None]
    /\ UNCHANGED <<unfound, tables>>

Next ==
    \/ \E p \in unfound : Find(p)
    \/ \E c \in Clients : Lend(c) \/ TakeBack(c)

Spec == Init /\ [][Next]_<<unfound, spare, held, tables>>
=============================================================================
