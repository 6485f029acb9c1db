----------------------------- MODULE MCPresence -----------------------------
(* Small instances of Presence for TLC. *)
EXTENDS Presence, TLC

CONSTANTS ann, bob

\* Both clients do the same in Present.
Symmetry == Permutations({ann, bob})

Once == [c \in Clients |-> 1]
\* Only ann comes back.
AnnTwice == [c \in Clients |-> IF c = ann THEN 2 ELSE 1]
=============================================================================
