-------------------------------- MODULE Maps --------------------------------
(***************************************************************************)
(* std::unordered_map and std::map as functions whose DOMAIN is the set of *)
(* keys present.                                                           *)
(***************************************************************************)

EmptyMap == [k \in {} |-> k]

(* m[k] = v                                                                *)
Put(m, k, v) == [x \in DOMAIN m \cup {k} |-> IF x = k THEN v ELSE m[x]]

(* m.erase(k)                                                              *)
Remove(m, k) == [x \in DOMAIN m \ {k} |-> m[x]]
=============================================================================
