----------------------------- MODULE MCKvCache -----------------------------
(* Small instances of KvCache for TLC.                                     *)
EXTENDS KvCache, TLC

ThreadSymmetry == Permutations(Threads)
=============================================================================
