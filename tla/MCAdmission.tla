---------------------------- MODULE MCAdmission ----------------------------
(* Admission with three connections on two processes.                      *)
EXTENDS Admission

CONSTANTS c1, c2, c3, h1, h2

TwoAndOne == [c \in Conns |-> IF c = c3 THEN h2 ELSE h1]
=============================================================================
