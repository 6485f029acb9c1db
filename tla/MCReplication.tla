---------------------------- MODULE MCReplication ----------------------------
(* A small instance of Replication for TLC. *)
EXTENDS Replication, TLC

CONSTANT s1

OneAuthor == s1 :> 1

\* Client 1 may lose its first connection.
Reconnecting == [c \in Clients |-> IF c = 1 THEN 2 ELSE 1]
=============================================================================
