-------------------------------- MODULE Maps --------------------------------
(* Rust HashMaps as functions whose domain is the set of keys present.      *)

\* Maps with keys in K and values in V.
HashMap(K, V) == UNION {[D -> V] : D \in SUBSET K}

\* The map without entries.
EmptyMap == [k \in {} |-> k]

\* insert: replaces the value of a key that is present.
Put(f, k, v) == [x \in DOMAIN f \cup {k} |-> IF x = k THEN v ELSE f[x]]

\* remove / retain: the map without the keys of S.
Without(f, S) == [x \in DOMAIN f \ S |-> f[x]]
=============================================================================
