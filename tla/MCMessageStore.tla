--------------------------- MODULE MCMessageStore ---------------------------
(* Constants for checking MessageStore.                                     *)
EXTENDS MessageStore

CONSTANTS r1, r2, w1, w2, g1, g2

Symmetry == Permutations(Readers) \cup Permutations(Writers) \cup Permutations(Guids)
=============================================================================
