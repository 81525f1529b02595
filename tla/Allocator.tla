------------------------------ MODULE Allocator ------------------------------
(***************************************************************************)
(* What the memory manager promises its callers, with no threads, locks,   *)
(* page table or device in sight: disjoint blocks are handed out and taken *)
(* back one at a time, and the byte count is that of the blocks out.       *)
(***************************************************************************)
EXTENDS Integers, Maps

CONSTANTS Addresses, Sizes

VARIABLES blocks,   \* address -> bytes, for the blocks handed out
          total     \* bytes handed out

Disjoint(a, m, b, n) == a + m <= b \/ b + n <= a

Init == blocks = EmptyMap /\ total = 0

Grant(a, n) ==
    /\ \A b \in DOMAIN blocks : Disjoint(a, n, b, blocks[b])
    /\ blocks' = Put(blocks, a, n)
    /\ total' = total + n

Reclaim(a) ==
    /\ a \in DOMAIN blocks
    /\ blocks' = Remove(blocks, a)
    /\ total' = total - blocks[a]

(* The manager goes away and takes every block with it.                    *)
ReclaimAll ==
    /\ blocks' = EmptyMap
    /\ UNCHANGED total

Next ==
    \/ \E a \in Addresses, n \in Sizes : Grant(a, n)
    \/ \E a \in Addresses : Reclaim(a)
    \/ ReclaimAll

Spec == Init /\ [][Next]_<<blocks, total>>
=============================================================================
