---------------------------- MODULE MCTokenCache ----------------------------
(* Three concurrent callers, tokens shorter and longer than the margin.    *)
EXTENDS TokenCache, TLC

Symmetry == Permutations(Callers)
==============================================================================
