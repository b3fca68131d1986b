--------------------------- MODULE MCListReconcile ---------------------------
(* Every pair of lists of at most four keys with one of two contents, the  *)
(* second of which is nested.                                              *)
EXTENDS ListReconcile

CONSTANTS a, b, c, d, v1, v2

\* Keys are interchangeable; the contents are not.
Symmetry == Permutations(Keys)
=============================================================================
