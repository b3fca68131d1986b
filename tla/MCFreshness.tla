---------------------------- MODULE MCFreshness ----------------------------
(* Freshness on small instances: two tables' worth of writes on one or two *)
(* slots.                                                                  *)
EXTENDS Freshness, TLC

CONSTANTS s1, s2, w1, w2, w3

\* Processes are interchangeable, and so are requests.
Symmetry == Permutations(Procs) \union Permutations(Requests)

\* w1 changes both slots, every other write only s1.
TouchesBoth == [w \in Writes |-> IF w = w1 THEN Slots ELSE Slots \ {s2}]
TouchesAll == [w \in Writes |-> Slots]
=============================================================================
