----------------------------- MODULE MCOptimistic -----------------------------
(***************************************************************************)
(* Two edits of a stream's scope, one from another session on it, and one  *)
(* edit of a plain scope.                                                  *)
(***************************************************************************)
EXTENDS Optimistic, TLC

CONSTANTS plain, stream, m1, m2, m3, x1

MCScopeOf == (m1 :> stream) @@ (m2 :> stream) @@ (m3 :> plain) @@ (x1 :> stream)

\* The two edits of the stream's scope are alike.
Alike == Permutations({m1, m2})
=============================================================================
