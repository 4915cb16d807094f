----------------------------- MODULE MCShopFloor -----------------------------
(* Small instances of ShopFloor for TLC. *)
EXTENDS ShopFloor, TLC

CONSTANTS s1, s2

MCAt == [k \in Keys |-> s1]
Symmetry == Permutations(Workers) \cup Permutations(Holds) \cup Permutations(Keys)
=============================================================================
