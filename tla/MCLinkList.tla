---------------------------- MODULE MCLinkList ----------------------------
(* Constants for checking LinkList.                                        *)
EXTENDS LinkList, TLC

CONSTANTS n1, n2, n3, n4

Symmetry == Permutations(Cells)
=============================================================================
