----------------------------- MODULE BlockStore -----------------------------
(***************************************************************************)
(* What kmalloc() and kfree() promise: the blocks handed out do not        *)
(* overlap, lie in memory that is mapped, and are of the length asked for; *)
(* and memory is mapped no further than the blocks still held need it, so  *)
(* that all of it is given back with the last block.                       *)
(***************************************************************************)
EXTENDS Integers, SequencesExt

CONSTANTS
    Base,       \* where the memory begins
    Slack,      \* the bytes that may be mapped behind the last block
    Sizes       \* the lengths asked for

VARIABLES
    blocks,     \* the blocks held, in order of allocation
    top         \* where the mapped memory ends

Extent(b) == b.addr .. (b.addr + b.size - 1)

Apart(b, c) == b.addr # c.addr /\ Extent(b) \cap Extent(c) = {}

Covers(bs, t) ==
    /\ \A i \in DOMAIN bs : bs[i].addr + bs[i].size <= t
    /\ IF bs = <<>> THEN t = Base
       ELSE \E i \in DOMAIN bs : t < bs[i].addr + bs[i].size + Slack

Init == blocks = <<>> /\ top = Base

Allocate ==
    \E b \in [addr : Base .. top', size : Sizes] :
        /\ \A i \in DOMAIN blocks : Apart(b, blocks[i])
        /\ blocks' = Append(blocks, b)

Release == \E i \in DOMAIN blocks : blocks' = RemoveAt(blocks, i)

Next == (Allocate \/ Release) /\ Covers(blocks', top')

Spec == Init /\ [][Next]_<<blocks, top>>
=============================================================================
