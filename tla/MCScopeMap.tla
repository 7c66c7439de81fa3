----------------------------- MODULE MCScopeMap -----------------------------
(* The instance of ScopeMap that TLC checks. *)
EXTENDS ScopeMap, TLC

Symmetric == Permutations(Threads) \union Permutations(Names)
=============================================================================
