------------------------------ MODULE Tables ------------------------------
(* The operations of a std::map on partial functions.                       *)

With(f, k, v) == [x \in DOMAIN f \cup {k} |-> IF x = k THEN v ELSE f[x]]
Without(f, K) == [x \in DOMAIN f \ K |-> f[x]]
Only(f, K)    == [x \in DOMAIN f \cap K |-> f[x]]
===========================================================================
