---------------------------- MODULE MCPersistence ----------------------------
(* Small instances of Persistence for TLC. *)
EXTENDS Persistence, TLC

CONSTANTS s1, ra, rb, x

Stroke(kind, n) == [id |-> s1, kind |-> kind, ts |-> [counter |-> n, client |-> 1]]

\* A stroke is drawn and erased; either op may come again, late.
DrawErase == {Stroke("Add", 1), Stroke("Remove", 2)}
=============================================================================
