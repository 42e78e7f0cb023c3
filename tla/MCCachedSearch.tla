--------------------------- MODULE MCCachedSearch ---------------------------
(***************************************************************************)
(* CachedSearch for model checking: calls are interchangeable, and so are   *)
(* keys.                                                                    *)
(***************************************************************************)
EXTENDS CachedSearch

Symmetry == Permutations(Calls) \cup Permutations(Keys)
=============================================================================
