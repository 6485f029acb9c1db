----------------------------- MODULE MCRenderer -----------------------------
(* A small instance of Renderer for TLC. *)
EXTENDS Renderer, TLC

CONSTANTS p, q, r, t, near, far

\* Only t is a label, so the others are alike; so are the scales.
Symmetry == Permutations({p, q, r}) \cup Permutations({near, far})
=============================================================================
