------------------------------ MODULE MCHistory ------------------------------
(* Small instances of History for TLC. *)
EXTENDS History

CONSTANTS a, b, z

\* Two strokes of client 1 and one of client 2.
TwoOfMine == [s \in Strokes |-> IF s = z THEN 2 ELSE 1]
=============================================================================
