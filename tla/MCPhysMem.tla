------------------------------ MODULE MCPhysMem ------------------------------
(***************************************************************************)
(* An instance of PhysMem for TLC: conventional memory that ends within a  *)
(* page, a kernel of two pages at the start of the memory above, and heap  *)
(* pages in two page tables, more than the free pages can serve.           *)
(***************************************************************************)
EXTENDS PhysMem

TwoEntries ==
    <<[base |-> 0, pages |-> 4, partial |-> TRUE],
      [base |-> 5, pages |-> 9, partial |-> FALSE]>>

FivePages == {<<"heap", i>> : i \in 0 .. 4}

HeapTable == [v \in HeapPages |-> IF v[2] < 3 THEN "low" ELSE "high"]
=============================================================================
