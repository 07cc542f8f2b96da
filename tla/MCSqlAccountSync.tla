-------------------------- MODULE MCSqlAccountSync --------------------------
(* SqlAccountSync for TLC.                                                 *)
EXTENDS SqlAccountSync, TLC

Symmetry == Permutations(Token) \cup Permutations(Pool)
=============================================================================
