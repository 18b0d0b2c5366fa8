---------------------------- MODULE MCTableRules ----------------------------
(* An instance of TableRules: keys, places and actions are model values.    *)
EXTENDS TableRules, TLC

CONSTANTS k1, k2, k3, x1, a1, a2, e1, e2

ThreeKeys == {k1, k2, k3}
Known == {"acl", "raw", "hash_ext", "hash_lru", "lpm"}
OneExtra == {x1}
TwoActions == {a1, a2}
TwoEntries == {e1, e2}

Symmetry == Permutations(Keys) \cup Permutations(Actions) \cup Permutations(Entries)
=============================================================================
