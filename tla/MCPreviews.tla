----------------------------- MODULE MCPreviews -----------------------------
(* Small instances of Previews for TLC. *)
EXTENDS Previews, TLC

CONSTANTS ann, bob, a, b, z

\* Ann draws two strokes and may reconnect once, Bob draws one.
AnnAndBob == [s \in Strokes |-> IF s = z THEN bob ELSE ann]
AnnTwice  == [c \in Authors |-> IF c = ann THEN 2 ELSE 1]
TwoOfA    == [s \in Strokes |-> IF s = a THEN 2 ELSE 1]
Once      == [c \in Authors |-> 1]
=============================================================================
