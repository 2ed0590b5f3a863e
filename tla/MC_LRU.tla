------------------------------- MODULE MC_LRU -------------------------------
(***************************************************************************)
(* Model-checking instance of LRU: keys and values are model values, the  *)
(* sizes and capacities small integers.                                   *)
(***************************************************************************)
EXTENDS LRU, TLC

(* Keys and values are interchangeable for every property checked. *)
Symmetry == Permutations(Keys) \cup Permutations(Values)

=============================================================================
