---------------------------- MODULE MCTaskGraph ----------------------------
(* Small instances of TaskGraph for TLC.                                   *)
EXTENDS TaskGraph, TLC

Contract(deps, k, sm) == [depends_on |-> deps, klass |-> k, sm_fits |-> sm]

OnePerClass == [k \in Classes |-> 1]

(* Any list of up to two dependencies, the same one twice included.        *)
AnyDeps == {Contract(deps, "Compute", TRUE) :
               deps \in UNION {[1 .. i -> Names] : i \in 0 .. 2}}

(* With them, a stage for the other class and one that does not fit.       *)
Mixed == AnyDeps \cup {Contract(<< >>, "Dma", TRUE), Contract(<< >>, "Compute", FALSE)}

ThreadSymmetry == Permutations(Threads)
=============================================================================
