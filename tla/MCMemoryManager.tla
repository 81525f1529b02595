-------------------------- MODULE MCMemoryManager --------------------------
(* Small instances of MemoryManager for TLC.                               *)
EXTENDS MemoryManager, TLC

OneOfEach == {[ilc |-> TRUE, read_mostly |-> FALSE], [ilc |-> FALSE, read_mostly |-> TRUE]}

ThreadSymmetry == Permutations(Threads)
=============================================================================
