----------------------------- MODULE MCStrokeSet -----------------------------
(* A small instance of StrokeSet for TLC. *)
EXTENDS StrokeSet, TLC

CONSTANTS s1, s2, r1, r2

Symmetry == Permutations({s1, s2}) \cup Permutations({r1, r2})
=============================================================================
