--------------------------- MODULE MCAccountStore ---------------------------
(***************************************************************************)
(* Instances of AccountStore for TLC: two ChatGPT accounts and one or two  *)
(* API connections.                                                        *)
(***************************************************************************)
EXTENDS AccountStoreRefinement, TLC

\* Nothing tells two accounts of a kind apart.
Symmetry == Permutations(Plus \ KeyLogins) \cup Permutations(Apis)

=============================================================================
