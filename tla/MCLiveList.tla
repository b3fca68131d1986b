------------------------------ MODULE MCLiveList ------------------------------
(* A list of at most two rows: empty, one row, and a row inserted in front  *)
(* of it while its content changes.  (ListReconcile covers moves.)          *)
EXTENDS LiveList

CONSTANTS a, b, v1, v2

R(k, v) == [key |-> k, val |-> v]

SomeResults == {<<>>, <<R(a, v1)>>, <<R(b, v1), R(a, v2)>>}
=============================================================================
