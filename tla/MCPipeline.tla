----------------------------- MODULE MCPipeline -----------------------------
(* Small instances of Pipeline for TLC.                                    *)
EXTENDS Pipeline

(* Shared memory of an M1, a T4, an A100, an H100.                         *)
SomeSizes == {32, 64, 164, 228}

AllStages == {Stage(n, s) : n \in Names, s \in SmemSizes}

OnePerClass == [k \in Classes |-> 1]
=============================================================================
