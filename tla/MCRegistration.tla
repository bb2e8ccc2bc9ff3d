---------------------------- MODULE MCRegistration ----------------------------
(* Registration on small sets, for TLC.                                    *)
EXTENDS Registration, TLC

Symmetry == Permutations(Attempt) \cup Permutations(Key)
=============================================================================
