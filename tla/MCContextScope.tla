--------------------------- MODULE MCContextScope ---------------------------
(* Small instances of ContextScope for TLC.                                *)
EXTENDS ContextScope

(* The second cache has a slot less than the first and than the longer     *)
(* row.                                                                    *)
TwoCaches == [c \in Caches \cup {NoCache} |-> IF c = NoCache THEN 0 ELSE IF c = "k" THEN 2 ELSE 1]

TwoRows == {<<2, 1>>, <<1>>}

SmallLayers == {[max |-> 1, used |-> 1], [max |-> 0, used |-> 1]}
=============================================================================
