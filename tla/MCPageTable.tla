---------------------------- MODULE MCPageTable ----------------------------
(* Small instances of PageTable for TLC.                                   *)
EXTENDS PageTable, TLC

(* Three pages of two units.  The ranges overlap in their boundary pages:  *)
(* an aligned one, one that starts inside a page and ends inside the next, *)
(* an empty aligned one and an empty unaligned one.                        *)
MCRanges == {<<0, 4>>, <<3, 2>>, <<4, 0>>, <<5, 0>>}

MCMarks == {<<1, 0>>, <<2, 1>>, <<1, 2>>}

ClientSymmetry == Permutations(Clients)
=============================================================================
