----------------------------- MODULE MCKeyCache -----------------------------
(* KeyCache on small sets, for TLC.                                        *)
EXTENDS KeyCache, TLC

Symmetry == Permutations(Caller)
=============================================================================
